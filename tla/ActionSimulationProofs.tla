----------------------- MODULE ActionSimulationProofs -----------------------
(***************************************************************************)
(* Proofs about ActionSimulation, for any number of proposals, people,     *)
(* requests, simulations, freezes and commands, and any lifetimes.         *)
(***************************************************************************)
EXTENDS ActionSimulation, FiniteSetTheorems, TLAPS

Rows ==
    [status: {"PROPOSED", "APPROVED", "REJECTED"}, requestedBy: Users, action: Actions, expiresAt: Time]
Requests == [pc: {"authorize", "write"}, proposal: Proposals, user: Users, expiresAt: Time]
SimRecords ==
    [pc: {"approval", "check", "freeze", "rate", "commit"}, proposal: Proposals,
     status: {"PROPOSED", "APPROVED", "REJECTED"}, action: Actions,
     approval: Approval \cup {NoApproval}, since: Time]

(* Who may approve what: the row is not read again before the write, but   *)
(* nothing rewrites the column that was compared.                          *)
Independent(p, u) == proposal[p] # NoProposal /\ u # proposal[p].requestedBy

ApproverOK(t) == approve[t] # Idle => Independent(approve[t].proposal, approve[t].user)

ApprovalsOK == \A a \in approvals : Independent(a.proposal, a.approver)

Covers(f, a) == f.scope \in {"GLOBAL", "TENANT"} \/ f.ref = a

(* A freeze that covers a and is older than since ended before time. *)
Over(f, a, since, time) == Covers(f, a) /\ f.from < since => f.until # None /\ f.until <= time

ReferencesOK == \A f \in freezes : f.scope = "CONNECTOR" => f.ref \in Connectors

(* What a simulation holds stays true of the tables, except that the       *)
(* approval may have expired and the proposal been rejected meanwhile.     *)
SimOK(s) ==
    sim[s] # NoSim =>
        /\ proposal[sim[s].proposal] # NoProposal
        /\ sim[s].action = proposal[sim[s].proposal].action
        /\ sim[s].since <= now
        /\ sim[s].approval # NoApproval =>
              sim[s].approval \in approvals /\ sim[s].approval.proposal = sim[s].proposal
        /\ sim[s].pc \in {"freeze", "rate", "commit"} =>
              /\ sim[s].status = "APPROVED"
              /\ sim[s].approval # NoApproval
              /\ sim[s].since < sim[s].approval.expiresAt
        /\ sim[s].pc \in {"rate", "commit"} =>
              \A f \in freezes : Over(f, sim[s].action, sim[s].since, now)

CommandOK(c) ==
    /\ c.proposal \in Proposals
    /\ proposal[c.proposal] # NoProposal
    /\ c.action = proposal[c.proposal].action
    /\ c.approval \in approvals
    /\ c.approval.proposal = c.proposal
    /\ c.since \in Nat /\ c.createdAt \in Nat /\ c.createdAt <= now
    /\ c.since < c.approval.expiresAt
    /\ c.since <= now
    /\ \A f \in freezes : Over(f, c.action, c.since, c.createdAt)

IInv ==
    /\ TypeOK
    /\ IsFiniteSet(commands)
    /\ ApprovalsOK
    /\ ReferencesOK
    /\ \A t \in Approvers : ApproverOK(t)
    /\ \A s \in Sims : SimOK(s)
    /\ \A c \in commands : CommandOK(c)

-----------------------------------------------------------------------------
(* Steps of shield-core: rows keep what was compared, approvals are only   *)
(* added, and a freeze is new or ends, both now.                           *)

RowsPersist ==
    \A p \in Proposals : proposal[p] # NoProposal =>
        /\ proposal'[p] # NoProposal
        /\ proposal'[p].requestedBy = proposal[p].requestedBy
        /\ proposal'[p].action = proposal[p].action

FreezesPersist ==
    \A f \in freezes' :
        \/ f \in freezes
        \/ f.from = now
        \/ \E g \in freezes : Active(g, now) /\ f = [g EXCEPT !.until = now]

CoreStep ==
    /\ now' = now \/ now' = now + 1
    /\ now' \in 0 .. MaxTime
    /\ proposal' \in [Proposals -> Rows \cup {NoProposal}]
    /\ approvals' \subseteq Approval
    /\ approvals \subseteq approvals'
    /\ freezes' \subseteq Freeze
    /\ approve' \in [Approvers -> Requests \cup {Idle}]
    /\ RowsPersist
    /\ FreezesPersist
    /\ ReferencesOK'
    /\ UNCHANGED <<sim, commands>>

LEMMA Types ==
  ASSUME IInv
  PROVE  /\ now \in Nat /\ MaxTime \in Nat
         /\ proposal \in [Proposals -> Rows \cup {NoProposal}]
         /\ approve \in [Approvers -> Requests \cup {Idle}]
         /\ sim \in [Sims -> SimRecords \cup {NoSim}]
         /\ approvals \subseteq Approval /\ freezes \subseteq Freeze
BY ProposalAssumption DEF IInv, TypeOK, Rows, Requests, SimRecords

(* None stands for no user, no action and no time. *)
LEMMA Nones ==
         /\ None \notin Users /\ None \notin Actions /\ None \notin Proposals /\ None \notin Nat
         /\ NoProposal \notin Rows /\ Idle \notin Requests /\ NoSim \notin SimRecords
         /\ NoApproval \notin Approval
BY ProposalAssumption DEF NoProposal, Idle, NoSim, NoApproval, Rows, Requests, SimRecords, Approval

(* A freeze that was over, or whose start is not older, stays so. *)
LEMMA OverPersists ==
  ASSUME IInv, FreezesPersist, NEW a, NEW since \in Nat, NEW time \in Nat, since <= now, time <= now,
         \A f \in freezes : Over(f, a, since, time)
  PROVE  \A f \in freezes' : Over(f, a, since, time)
<1> SUFFICES ASSUME NEW f \in freezes', Covers(f, a), f.from < since
             PROVE  f.until # None /\ f.until <= time
  BY DEF Over
<1>1. CASE f \in freezes
  BY <1>1 DEF Over
<1>2. CASE f.from = now
  BY <1>2, Types
<1>3. ASSUME NEW g \in freezes, Active(g, now), f = [g EXCEPT !.until = now] PROVE FALSE
  <2>1. g \in Freeze /\ now \in Nat
    BY Types
  <2>2. f.scope = g.scope /\ f.ref = g.ref /\ f.from = g.from
    BY <1>3, <2>1 DEF Freeze
  <2>3. g.until # None /\ g.until <= time
    BY <2>2 DEF Over, Covers
  <2>4. g.until \in Nat /\ g.until > now
    BY <1>3, <2>1, <2>3 DEF Active, Freeze, Time
  <2> QED BY <2>1, <2>3, <2>4
<1> QED BY <1>1, <1>2, <1>3 DEF FreezesPersist

LEMMA CoreSafe ==
  ASSUME IInv, CoreStep, ApprovalsOK', \A t \in Approvers : ApproverOK(t)'
  PROVE  IInv'
<1> USE Types
<1>0. /\ sim' = sim /\ commands' = commands /\ approvals \subseteq approvals'
      /\ RowsPersist /\ FreezesPersist /\ (now' = now \/ now' = now + 1) /\ now' \in Nat
  BY DEF CoreStep
<1>1. TypeOK'
  BY DEF IInv, TypeOK, CoreStep, Rows, Requests
<1>2. ASSUME NEW s \in Sims PROVE SimOK(s)'
  <2> SUFFICES ASSUME sim[s] # NoSim PROVE SimOK(s)'
    BY <1>0 DEF SimOK
  <2>1. SimOK(s) /\ sim[s] \in SimRecords
    BY DEF IInv
  <2>2. /\ proposal[sim[s].proposal] # NoProposal
        /\ sim[s].action = proposal[sim[s].proposal].action
        /\ sim[s].since <= now /\ sim[s].since \in Nat /\ sim[s].proposal \in Proposals
    BY <2>1 DEF SimOK, SimRecords, Time
  <2>3. /\ proposal'[sim[s].proposal] # NoProposal
        /\ sim[s].action = proposal'[sim[s].proposal].action
    BY <1>0, <2>2 DEF RowsPersist
  <2>4. sim[s].since <= now'
    BY <1>0, <2>2
  <2>5. sim[s].approval # NoApproval =>
           sim[s].approval \in approvals' /\ sim[s].approval.proposal = sim[s].proposal
    BY <1>0, <2>1 DEF SimOK
  <2>6. sim[s].pc \in {"freeze", "rate", "commit"} =>
           /\ sim[s].status = "APPROVED"
           /\ sim[s].approval # NoApproval
           /\ sim[s].since < sim[s].approval.expiresAt
    BY <2>1 DEF SimOK
  <2>7. ASSUME sim[s].pc \in {"rate", "commit"}
        PROVE  \A f \in freezes' : Over(f, sim[s].action, sim[s].since, now')
    <3>1. \A f \in freezes : Over(f, sim[s].action, sim[s].since, now)
      BY <2>1, <2>7 DEF SimOK
    <3>2. \A f \in freezes' : Over(f, sim[s].action, sim[s].since, now)
      BY <1>0, <2>2, <3>1, OverPersists
    <3>3. \A f \in freezes' : f.until \in Nat \cup {None}
      BY DEF CoreStep, Freeze, Time
    <3> QED BY <1>0, <3>2, <3>3 DEF Over
  <2> QED BY <1>0, <2>3, <2>4, <2>5, <2>6, <2>7 DEF SimOK
<1>3. ASSUME NEW c \in commands PROVE CommandOK(c)'
  <2>1. CommandOK(c)
    BY DEF IInv
  <2>2. /\ proposal'[c.proposal] # NoProposal
        /\ c.action = proposal'[c.proposal].action
    BY <1>0, <2>1 DEF RowsPersist, CommandOK
  <2>3. c.approval \in approvals' /\ c.createdAt <= now' /\ c.since <= now'
    BY <1>0, <2>1 DEF CommandOK
  <2>4. \A f \in freezes' : Over(f, c.action, c.since, c.createdAt)
    BY <1>0, <2>1, OverPersists DEF CommandOK
  <2> QED BY <2>1, <2>2, <2>3, <2>4 DEF CommandOK
<1>4. ReferencesOK'
  BY DEF CoreStep
<1> QED BY <1>0, <1>1, <1>2, <1>3, <1>4 DEF IInv

(* Both depend on columns that RowsPersist keeps. *)
LEMMA IndependentPersists ==
  ASSUME RowsPersist, NEW p \in Proposals, NEW u, Independent(p, u)
  PROVE  Independent(p, u)'
BY DEF RowsPersist, Independent

LEMMA ApprovalsStay ==
  ASSUME IInv, RowsPersist, UNCHANGED approvals
  PROVE  ApprovalsOK'
BY Types, IndependentPersists DEF IInv, ApprovalsOK, Approval

LEMMA ApproverStays ==
  ASSUME IInv, RowsPersist, NEW t \in Approvers, approve'[t] = approve[t] \/ approve'[t] = Idle
  PROVE  ApproverOK(t)'
<1> SUFFICES ASSUME approve'[t] = approve[t], approve[t] # Idle PROVE ApproverOK(t)'
  BY DEF ApproverOK
<1>1. Independent(approve[t].proposal, approve[t].user) /\ approve[t].proposal \in Proposals
  BY Types DEF IInv, ApproverOK, Requests
<1> QED BY <1>1, IndependentPersists DEF ApproverOK

LEMMA ProposalSafe ==
  ASSUME IInv, NEW p \in Proposals,
         Reject(p) \/ \E u \in Users, a \in Actions : CreateProposal(p, u, a), UNCHANGED <<sim, commands>>
  PROVE  IInv'
<1>1. UNCHANGED <<now, approvals, freezes, approve>>
  BY DEF Reject, CreateProposal
<1>2. proposal' \in [Proposals -> Rows \cup {NoProposal}] /\ RowsPersist
  <2>1. CASE Reject(p)
    <3>1. proposal[p] \in Rows
      BY <2>1, Types DEF Reject
    <3>2. proposal' = [proposal EXCEPT ![p].status = "REJECTED"]
      BY <2>1 DEF Reject
    <3>3. proposal'[p] \in Rows /\ proposal'[p].requestedBy = proposal[p].requestedBy
          /\ proposal'[p].action = proposal[p].action
      BY <3>1, <3>2, Types DEF Rows
    <3> QED BY <3>2, <3>3, Types, Nones DEF RowsPersist
  <2>2. ASSUME NEW u \in Users, NEW a \in Actions, CreateProposal(p, u, a)
        PROVE  proposal' \in [Proposals -> Rows \cup {NoProposal}] /\ RowsPersist
    <3>1. now + ProposalTTL \in Nat
      BY Types, ProposalAssumption
    <3> QED BY <2>2, <3>1, Types DEF CreateProposal, RowsPersist, Rows, Time
  <2> QED BY <2>1, <2>2
<1>3. CoreStep
  BY <1>1, <1>2, Types DEF CoreStep, FreezesPersist, ReferencesOK, IInv, TypeOK
<1>4. ApprovalsOK' /\ \A t \in Approvers : ApproverOK(t)'
  BY <1>1, <1>2, ApprovalsStay, ApproverStays
<1> QED BY <1>3, <1>4, CoreSafe

LEMMA ApproveSafe ==
  ASSUME IInv, NEW t \in Approvers, UNCHANGED <<sim, commands>>,
         \/ \E p \in Proposals, u \in Users : ApproveRead(t, p, u)
         \/ ApproveAuthorized(t) \/ ApproverCrash(t)
  PROVE  IInv'
<1> USE Types
<1>1. UNCHANGED <<now, proposal, approvals, freezes>>
  BY DEF ApproveRead, ApproveAuthorized, ApproverCrash
<1>2. /\ approve' \in [Approvers -> Requests \cup {Idle}]
      /\ \A v \in Approvers \ {t} : approve'[v] = approve[v]
      /\ ApproverOK(t)'
  <2>1. ASSUME NEW p \in Proposals, NEW u \in Users, ApproveRead(t, p, u)
        PROVE  /\ approve' \in [Approvers -> Requests \cup {Idle}]
               /\ \A v \in Approvers \ {t} : approve'[v] = approve[v]
               /\ ApproverOK(t)'
    <3>1. Independent(p, u)
      BY <2>1 DEF ApproveRead, Approvable, Independent, NoProposal
    <3>2. /\ approve' \in [Approvers -> Requests \cup {Idle}]
          /\ \A v \in Approvers \ {t} : approve'[v] = approve[v]
          /\ approve'[t].proposal = p /\ approve'[t].user = u
      BY <2>1 DEF ApproveRead, Requests, Time
    <3> QED BY <1>1, <3>1, <3>2 DEF ApproverOK, Independent
  <2>2. CASE approve' = [approve EXCEPT ![t] = Idle]
    BY <2>2 DEF ApproverOK
  <2>3. CASE /\ approve[t].pc = "authorize"
             /\ approve' = [approve EXCEPT ![t].pc = "write", ![t].expiresAt = now + ApprovalTTL]
    <3>1. now + ApprovalTTL \in Nat /\ approve[t] \in Requests
      BY <2>3, ProposalAssumption DEF Idle
    <3>2. /\ approve' \in [Approvers -> Requests \cup {Idle}]
          /\ \A v \in Approvers \ {t} : approve'[v] = approve[v]
          /\ approve'[t].proposal = approve[t].proposal /\ approve'[t].user = approve[t].user
      BY <2>3, <3>1 DEF Requests, Time
    <3>3. Independent(approve[t].proposal, approve[t].user)
      BY <3>1, Nones DEF IInv, ApproverOK
    <3> QED BY <1>1, <3>2, <3>3 DEF ApproverOK, Independent
  <2> QED BY <2>1, <2>2, <2>3 DEF ApproveAuthorized, ApproverCrash
<1>3. RowsPersist
  BY <1>1 DEF RowsPersist
<1>4. CoreStep
  BY <1>1, <1>2, <1>3 DEF CoreStep, FreezesPersist, ReferencesOK, IInv, TypeOK
<1>5. ApprovalsOK' /\ \A v \in Approvers : ApproverOK(v)'
  BY <1>1, <1>2, <1>3, ApprovalsStay, ApproverStays
<1> QED BY <1>4, <1>5, CoreSafe

LEMMA ApproveWriteSafe ==
  ASSUME IInv, NEW t \in Approvers, ApproveWrite(t), UNCHANGED <<sim, commands>>
  PROVE  IInv'
<1> USE Types
<1> DEFINE p == approve[t].proposal
           u == approve[t].user
           a == [proposal |-> p, approver |-> u, approvedAt |-> now, expiresAt |-> approve[t].expiresAt]
<1>1. /\ approve[t].pc = "write" /\ UNCHANGED <<now, freezes>>
      /\ approvals' = approvals \cup {a}
      /\ proposal' = [proposal EXCEPT ![p].status = "APPROVED"]
      /\ approve' = [approve EXCEPT ![t] = Idle]
  BY DEF ApproveWrite
<1>2. approve[t] \in Requests /\ approve[t] # Idle
  BY <1>1 DEF Idle
<1>3. p \in Proposals /\ u \in Users /\ Independent(p, u) /\ a \in Approval
  BY <1>2 DEF IInv, ApproverOK, Requests, Approval, Time
<1>4. proposal' \in [Proposals -> Rows \cup {NoProposal}] /\ RowsPersist
  <2>1. proposal[p] \in Rows
    BY <1>3 DEF Independent
  <2>2. proposal'[p] \in Rows /\ proposal'[p].requestedBy = proposal[p].requestedBy
        /\ proposal'[p].action = proposal[p].action
    BY <1>1, <1>3, <2>1 DEF Rows
  <2> QED BY <1>1, <1>3, <2>2, Nones DEF RowsPersist
<1>5. CoreStep
  BY <1>1, <1>3, <1>4 DEF CoreStep, FreezesPersist, ReferencesOK, IInv, TypeOK
<1>6. ApprovalsOK'
  <2>1. \A b \in approvals : Independent(b.proposal, b.approver)'
    BY <1>4, IndependentPersists DEF IInv, ApprovalsOK, Approval
  <2>2. proposal'[p] # NoProposal /\ u # proposal'[p].requestedBy
    BY <1>3, <1>4 DEF RowsPersist, Independent
  <2>3. a.proposal = p /\ a.approver = u
    OBVIOUS
  <2> HIDE DEF a, p, u
  <2> QED BY <1>1, <2>1, <2>2, <2>3 DEF ApprovalsOK, Independent
<1>7. \A v \in Approvers : ApproverOK(v)'
  BY <1>1, <1>4, ApproverStays
<1> QED BY <1>5, <1>6, <1>7, CoreSafe

LEMMA FreezeSafe ==
  ASSUME IInv, FreezeTenant \/ UnfreezeTenant \/ AnyCreateFreeze, UNCHANGED <<sim, commands>>
  PROVE  IInv'
<1> USE Types
<1>1. UNCHANGED <<now, proposal, approvals, approve>>
  BY DEF FreezeTenant, UnfreezeTenant, AnyCreateFreeze, CreateFreeze
<1>0. ReferencesOK
  BY DEF IInv
<1>2. freezes' \subseteq Freeze /\ FreezesPersist /\ ReferencesOK'
  <2>1. CASE FreezeTenant
    BY <1>0, <2>1 DEF FreezeTenant, Freeze, Time, FreezesPersist, ReferencesOK
  <2>2. CASE UnfreezeTenant
    <3> DEFINE ended == {f \in freezes : f.scope = "TENANT" /\ Active(f, now)}
    <3>1. freezes' = (freezes \ ended) \cup {[f EXCEPT !.until = now] : f \in ended}
      BY <2>2 DEF UnfreezeTenant
    <3>2. \A f \in ended : f \in freezes /\ Active(f, now) /\ [f EXCEPT !.until = now] \in Freeze
                          /\ [f EXCEPT !.until = now].scope = "TENANT"
      BY DEF Freeze, Time
    <3> HIDE DEF ended
    <3>3. freezes' \subseteq Freeze /\ FreezesPersist
      BY <3>1, <3>2 DEF FreezesPersist
    <3>4. ReferencesOK'
      BY <1>0, <3>1, <3>2 DEF ReferencesOK
    <3> QED BY <3>3, <3>4
  <2>3. ASSUME NEW scope \in {"GLOBAL", "TENANT", "ACTION_TYPE", "CONNECTOR"},
               NEW ref \in Actions \cup Connectors \cup {None},
               NEW d \in Durations \cup {None}, CreateFreeze(scope, ref, d),
               scope = "CONNECTOR" => ref \in Connectors
        PROVE  freezes' \subseteq Freeze /\ FreezesPersist /\ ReferencesOK'
    <3>1. (IF d = None THEN None ELSE now + d) \in Nat \cup {None}
      BY ProposalAssumption
    <3> DEFINE until == IF d = None THEN None ELSE now + d
               f == [scope |-> scope, ref |-> ref, from |-> now, until |-> until]
    <3> HIDE DEF until
    <3>2. f \in Freeze /\ f.from = now /\ f.scope = scope /\ f.ref = ref
      BY <3>1 DEF Freeze, Time, until
    <3>3. freezes' = freezes \cup {f}
      BY <2>3 DEF CreateFreeze, until
    <3> QED BY <1>0, <2>3, <3>2, <3>3 DEF FreezesPersist, ReferencesOK
  <2>4. CASE AnyCreateFreeze
    <3>1. PICK d \in Durations \cup {None} :
             \/ \E scope \in {"GLOBAL", "TENANT"} : CreateFreeze(scope, None, d)
             \/ \E a \in Actions : CreateFreeze("ACTION_TYPE", a, d)
             \/ \E c \in Connectors : CreateFreeze("CONNECTOR", c, d)
      BY <2>4 DEF AnyCreateFreeze
    <3>2. ASSUME NEW scope \in {"GLOBAL", "TENANT"}, CreateFreeze(scope, None, d)
          PROVE  freezes' \subseteq Freeze /\ FreezesPersist /\ ReferencesOK'
      BY <2>3, <3>2
    <3>3. ASSUME NEW a \in Actions, CreateFreeze("ACTION_TYPE", a, d)
          PROVE  freezes' \subseteq Freeze /\ FreezesPersist /\ ReferencesOK'
      BY <2>3, <3>3
    <3>4. ASSUME NEW c \in Connectors, CreateFreeze("CONNECTOR", c, d)
          PROVE  freezes' \subseteq Freeze /\ FreezesPersist /\ ReferencesOK'
      BY <2>3, <3>4
    <3> QED BY <3>1, <3>2, <3>3, <3>4
  <2> QED BY <2>1, <2>2, <2>4
<1>3. RowsPersist
  BY <1>1 DEF RowsPersist
<1>4. CoreStep
  BY <1>1, <1>2, <1>3 DEF CoreStep, IInv, TypeOK
<1> QED BY <1>1, <1>3, <1>4, ApprovalsStay, ApproverStays, CoreSafe

LEMMA TickSafe ==
  ASSUME IInv, Tick, UNCHANGED <<sim, commands>>
  PROVE  IInv'
<1> USE Types
<1>1. UNCHANGED <<proposal, approvals, freezes, approve>> /\ now' = now + 1 /\ now' \in 0 .. MaxTime
  BY DEF Tick, IInv, TypeOK
<1>2. RowsPersist /\ FreezesPersist /\ ReferencesOK'
  BY <1>1 DEF RowsPersist, FreezesPersist, ReferencesOK, IInv
<1>3. CoreStep
  BY <1>1, <1>2 DEF CoreStep, IInv, TypeOK
<1> QED BY <1>1, <1>2, <1>3, ApprovalsStay, ApproverStays, CoreSafe

-----------------------------------------------------------------------------
(* Steps of a simulation.                                                  *)

LEMMA SimSafe ==
  ASSUME IInv, NEW s \in Sims, UNCHANGED proposalVars, UNCHANGED commands,
         sim' \in [Sims -> SimRecords \cup {NoSim}],
         \A r \in Sims \ {s} : sim'[r] = sim[r],
         SimOK(s)'
  PROVE  IInv'
<1>1. UNCHANGED <<now, proposal, approvals, freezes, approve>>
  BY DEF proposalVars
<1>2. TypeOK'
  BY <1>1 DEF IInv, TypeOK, SimRecords
<1>3. ASSUME NEW r \in Sims PROVE SimOK(r)'
  BY <1>1 DEF IInv, SimOK
<1>4. \A c \in commands : CommandOK(c)'
  BY <1>1 DEF IInv, CommandOK
<1>5. ApprovalsOK' /\ ReferencesOK' /\ \A t \in Approvers : ApproverOK(t)'
  BY <1>1 DEF IInv, ApprovalsOK, ReferencesOK, ApproverOK, Independent
<1> QED BY <1>2, <1>3, <1>4, <1>5 DEF IInv

LEMMA EndSafe ==
  ASSUME IInv, NEW s \in Sims, UNCHANGED proposalVars, UNCHANGED commands, End(s)
  PROVE  IInv'
<1>1. /\ sim' \in [Sims -> SimRecords \cup {NoSim}] /\ sim'[s] = NoSim
      /\ \A r \in Sims \ {s} : sim'[r] = sim[r]
  BY Types DEF End
<1> QED BY <1>1, SimSafe DEF SimOK

LEMMA GoFacts ==
  ASSUME IInv, NEW s \in Sims, sim[s].pc # "idle", NEW pc \in {"check", "freeze", "rate", "commit"}, Go(s, pc)
  PROVE  /\ sim[s] \in SimRecords /\ sim[s] # NoSim
         /\ sim' \in [Sims -> SimRecords \cup {NoSim}]
         /\ \A r \in Sims \ {s} : sim'[r] = sim[r]
         /\ sim'[s].pc = pc /\ sim'[s].proposal = sim[s].proposal /\ sim'[s].status = sim[s].status
         /\ sim'[s].action = sim[s].action /\ sim'[s].approval = sim[s].approval
         /\ sim'[s].since = sim[s].since
<1>1. sim[s] \in SimRecords /\ sim[s] # NoSim
  BY Types DEF NoSim
<1> QED BY <1>1, Types DEF Go, SimRecords

LEMMA FetchSafe ==
  ASSUME IInv, NEW s \in Sims, FetchApproval(s) \/ \E p \in Proposals : FetchProposal(s, p)
  PROVE  IInv'
<1> USE Types
<1>1. UNCHANGED proposalVars /\ UNCHANGED commands /\ UNCHANGED <<now, proposal, approvals, freezes>>
  BY DEF FetchApproval, FetchProposal, proposalVars
<1>2. ASSUME NEW p \in Proposals, FetchProposal(s, p)
      PROVE  IInv'
  <2>1. proposal[p] \in Rows /\ proposal[p] # NoProposal
    BY <1>2 DEF FetchProposal
  <2>2. /\ sim' \in [Sims -> SimRecords \cup {NoSim}]
        /\ \A r \in Sims \ {s} : sim'[r] = sim[r]
        /\ sim'[s].pc = "approval" /\ sim'[s].proposal = p /\ sim'[s].action = proposal[p].action
        /\ sim'[s].approval = NoApproval /\ sim'[s].since = now
    BY <1>2, <2>1 DEF FetchProposal, SimRecords, Rows, Time
  <2>3. SimOK(s)'
    BY <1>1, <2>1, <2>2 DEF SimOK
  <2> QED BY <1>1, <2>2, <2>3, SimSafe
<1>3. CASE FetchApproval(s)
  <2>0. sim[s].pc = "approval" /\ sim[s] \in SimRecords /\ sim[s] # NoSim /\ SimOK(s)
    BY <1>3 DEF FetchApproval, NoSim, IInv
  <2>1. CASE Go(s, "check")
    <3>1. /\ sim' \in [Sims -> SimRecords \cup {NoSim}]
          /\ \A r \in Sims \ {s} : sim'[r] = sim[r]
          /\ sim'[s].pc = "check" /\ sim'[s].proposal = sim[s].proposal /\ sim'[s].status = sim[s].status
          /\ sim'[s].action = sim[s].action /\ sim'[s].approval = sim[s].approval
          /\ sim'[s].since = sim[s].since
      BY <2>0, <2>1, GoFacts
    <3>2. SimOK(s)'
      BY <1>1, <2>0, <3>1 DEF SimOK
    <3> QED BY <1>1, <3>1, <3>2, SimSafe
  <2>2. ASSUME NEW a \in LatestApprovals(sim[s].proposal),
               sim' = [sim EXCEPT ![s].pc = "check", ![s].approval = a]
        PROVE  IInv'
    <3>1. a \in approvals /\ a.proposal = sim[s].proposal /\ a \in Approval
      BY DEF LatestApprovals, ApprovalsOf
    <3>2. /\ sim' \in [Sims -> SimRecords \cup {NoSim}]
          /\ \A r \in Sims \ {s} : sim'[r] = sim[r]
          /\ sim'[s].pc = "check" /\ sim'[s].proposal = sim[s].proposal
          /\ sim'[s].action = sim[s].action /\ sim'[s].approval = a
          /\ sim'[s].since = sim[s].since
      BY <2>0, <2>2, <3>1 DEF SimRecords
    <3>3. SimOK(s)'
      BY <1>1, <2>0, <3>1, <3>2 DEF SimOK
    <3> QED BY <1>1, <3>2, <3>3, SimSafe
  <2> QED BY <1>3, <2>1, <2>2 DEF FetchApproval
<1> QED BY <1>2, <1>3

(* The approval is compared with the clock after the simulation began. *)
LEMMA ReauthorizeSafe ==
  ASSUME IInv, NEW s \in Sims, Reauthorize(s)
  PROVE  IInv'
<1> USE Types
<1>1. UNCHANGED proposalVars /\ UNCHANGED commands /\ UNCHANGED <<now, proposal, approvals, freezes>>
      /\ sim[s].pc = "check"
  BY DEF Reauthorize, proposalVars
<1>2. CASE Reauthorized(s) /\ Go(s, "freeze")
  <2>1. /\ sim[s] \in SimRecords /\ sim[s] # NoSim
        /\ sim' \in [Sims -> SimRecords \cup {NoSim}]
        /\ \A r \in Sims \ {s} : sim'[r] = sim[r]
        /\ sim'[s].pc = "freeze" /\ sim'[s].proposal = sim[s].proposal /\ sim'[s].status = sim[s].status
        /\ sim'[s].action = sim[s].action /\ sim'[s].approval = sim[s].approval
        /\ sim'[s].since = sim[s].since
    BY <1>1, <1>2, GoFacts
  <2>2. SimOK(s) /\ sim[s].since \in Nat
    BY <2>1 DEF IInv, SimRecords, Time
  <2>3. sim[s].status = "APPROVED" /\ sim[s].approval # NoApproval /\ sim[s].approval.expiresAt \in Nat
        /\ sim[s].approval.expiresAt > now
    BY <1>2, <2>1 DEF Reauthorized, SimRecords, Approval, Time
  <2>4. sim[s].since < sim[s].approval.expiresAt
    BY <2>1, <2>2, <2>3 DEF SimOK
  <2>5. SimOK(s)'
    BY <1>1, <2>1, <2>2, <2>3, <2>4 DEF SimOK
  <2> QED BY <1>1, <2>1, <2>5, SimSafe
<1>3. CASE End(s)
  BY <1>1, <1>3, EndSafe
<1> QED BY <1>2, <1>3 DEF Reauthorize

(* A freeze that covers the action, and is older than the simulation, has  *)
(* ended if the check finds none active.                                   *)
LEMMA CheckFreezeSafe ==
  ASSUME IInv, NEW s \in Sims, CheckFreeze(s)
  PROVE  IInv'
<1> USE Types
<1>1. UNCHANGED proposalVars /\ UNCHANGED commands /\ UNCHANGED <<now, proposal, approvals, freezes>>
      /\ sim[s].pc = "freeze"
  BY DEF CheckFreeze, proposalVars
<1>2. CASE ~FrozenFor(sim[s].action) /\ Go(s, "rate")
  <2>1. /\ sim[s] \in SimRecords /\ sim[s] # NoSim
        /\ sim' \in [Sims -> SimRecords \cup {NoSim}]
        /\ \A r \in Sims \ {s} : sim'[r] = sim[r]
        /\ sim'[s].pc = "rate" /\ sim'[s].proposal = sim[s].proposal /\ sim'[s].status = sim[s].status
        /\ sim'[s].action = sim[s].action /\ sim'[s].approval = sim[s].approval
        /\ sim'[s].since = sim[s].since
    BY <1>1, <1>2, GoFacts
  <2>2. SimOK(s) /\ sim[s].since \in Nat /\ sim[s].action \in Actions
    BY <2>1 DEF IInv, SimRecords, Time
  <2>3. ASSUME NEW f \in freezes PROVE Over(f, sim[s].action, sim[s].since, now)
    <3> SUFFICES ASSUME Covers(f, sim[s].action), f.from < sim[s].since
                 PROVE  f.until # None /\ f.until <= now
      BY DEF Over
    <3>1. f \in Freeze /\ f.from \in Nat /\ f.from <= now
      BY <2>1, <2>2 DEF Freeze, Time, SimOK
    <3>2. Freezes(f, sim[s].action)
      BY <2>2, <3>1, SimulationAssumption DEF IInv, ReferencesOK, Covers, Freezes, Freeze
    <3>3. ~Active(f, now)
      BY <1>2, <3>2 DEF FrozenFor
    <3> QED BY <3>1, <3>3 DEF Active, Freeze, Time
  <2>4. SimOK(s)'
    BY <1>1, <2>1, <2>2, <2>3 DEF SimOK
  <2> QED BY <1>1, <2>1, <2>4, SimSafe
<1>3. CASE End(s)
  BY <1>1, <1>3, EndSafe
<1> QED BY <1>2, <1>3 DEF CheckFreeze

LEMMA CheckRateSafe ==
  ASSUME IInv, NEW s \in Sims, CheckRate(s)
  PROVE  IInv'
<1> USE Types
<1>1. UNCHANGED proposalVars /\ UNCHANGED commands /\ UNCHANGED <<now, proposal, approvals, freezes>>
      /\ sim[s].pc = "rate"
  BY DEF CheckRate, proposalVars
<1>2. CASE Go(s, "commit")
  <2>1. /\ sim[s] \in SimRecords /\ sim[s] # NoSim
        /\ sim' \in [Sims -> SimRecords \cup {NoSim}]
        /\ \A r \in Sims \ {s} : sim'[r] = sim[r]
        /\ sim'[s].pc = "commit" /\ sim'[s].proposal = sim[s].proposal /\ sim'[s].status = sim[s].status
        /\ sim'[s].action = sim[s].action /\ sim'[s].approval = sim[s].approval
        /\ sim'[s].since = sim[s].since
    BY <1>1, <1>2, GoFacts
  <2>2. SimOK(s)'
    <3>1. SimOK(s)
      BY DEF IInv
    <3> QED BY <1>1, <2>1, <3>1 DEF SimOK
  <2> QED BY <1>1, <2>1, <2>2, SimSafe
<1>3. CASE End(s)
  BY <1>1, <1>3, EndSafe
<1> QED BY <1>2, <1>3 DEF CheckRate

LEMMA CommitSafe ==
  ASSUME IInv, NEW s \in Sims, CommitCommand(s)
  PROVE  IInv'
<1> USE Types
<1> DEFINE c == [id |-> Cardinality(commands) + 1, proposal |-> sim[s].proposal,
                 action |-> sim[s].action, approval |-> sim[s].approval,
                 since |-> sim[s].since, createdAt |-> now]
<1>1. UNCHANGED proposalVars /\ UNCHANGED <<now, proposal, approvals, freezes, approve>>
      /\ sim[s].pc = "commit" /\ commands' = commands \cup {c} /\ End(s)
  BY DEF CommitCommand, proposalVars
<1>2. sim[s] \in SimRecords /\ sim[s] # NoSim /\ SimOK(s)
  BY <1>1 DEF NoSim, IInv
<1>3. /\ c.id = Cardinality(commands) + 1 /\ c.proposal = sim[s].proposal /\ c.action = sim[s].action
      /\ c.approval = sim[s].approval /\ c.since = sim[s].since /\ c.createdAt = now
  OBVIOUS
<1> HIDE DEF c
<1>4. CommandOK(c)
  BY <1>1, <1>2, <1>3 DEF SimOK, SimRecords, CommandOK, Time
<1>5. \A d \in commands' : CommandOK(d)'
  BY <1>1, <1>4 DEF IInv, CommandOK
<1>6. /\ Cardinality(commands) \in Nat /\ IsFiniteSet(commands')
      /\ Cardinality(commands') = Cardinality(commands) + 1
  <2>1. IsFiniteSet(commands) /\ \A d \in commands : d.id \in 1 .. Cardinality(commands)
    BY DEF IInv, TypeOK
  <2>2. Cardinality(commands) \in Nat
    BY <2>1, FS_CardinalityType
  <2>3. c \notin commands
    BY <1>3, <2>1, <2>2
  <2> QED BY <1>1, <2>1, <2>2, <2>3, FS_AddElement
<1>7. /\ sim' \in [Sims -> SimRecords \cup {NoSim}] /\ sim'[s] = NoSim
      /\ \A r \in Sims \ {s} : sim'[r] = sim[r]
  BY <1>1 DEF End
<1>8. TypeOK'
  <2>1. \A d \in commands' : d.id \in 1 .. Cardinality(commands')
    BY <1>1, <1>3, <1>6 DEF IInv, TypeOK
  <2> QED BY <1>1, <1>7, <2>1 DEF IInv, TypeOK, SimRecords
<1>9. \A r \in Sims : SimOK(r)'
  BY <1>1, <1>7 DEF IInv, SimOK
<1>10. ApprovalsOK' /\ ReferencesOK' /\ \A t \in Approvers : ApproverOK(t)'
  BY <1>1 DEF IInv, ApprovalsOK, ReferencesOK, ApproverOK, Independent
<1> QED BY <1>5, <1>6, <1>8, <1>9, <1>10 DEF IInv

-----------------------------------------------------------------------------
(* The invariant.                                                          *)

LEMMA InitHolds == Init => IInv
<1> SUFFICES ASSUME Init PROVE IInv
  OBVIOUS
<1>1. Cardinality({}) = 0 /\ IsFiniteSet({})
  BY FS_EmptySet
<1>2. TypeOK
  BY ProposalAssumption DEF Init, ProposalInit, TypeOK
<1> QED BY <1>1, <1>2 DEF Init, ProposalInit, IInv, ApprovalsOK, ReferencesOK, ApproverOK, SimOK

LEMMA NextSafe == IInv /\ [Next]_simVars => IInv'
<1> SUFFICES ASSUME IInv, [Next]_simVars PROVE IInv'
  OBVIOUS
<1>1. CASE UNCHANGED simVars
  BY <1>1 DEF simVars, IInv, TypeOK, ApprovalsOK, ReferencesOK, ApproverOK, Independent, SimOK, CommandOK
<1>2. CASE ProposalNext /\ UNCHANGED <<sim, commands>>
  BY <1>2, TickSafe, FreezeSafe, ProposalSafe, ApproveSafe, ApproveWriteSafe DEF ProposalNext
<1>3. ASSUME NEW s \in Sims, SimStep(s) \/ \E p \in Proposals : FetchProposal(s, p) PROVE IInv'
  BY <1>3, FetchSafe, ReauthorizeSafe, CheckFreezeSafe, CheckRateSafe, CommitSafe DEF SimStep
<1>4. ASSUME NEW s \in Sims, SimCrash(s) PROVE IInv'
  BY <1>4, EndSafe DEF SimCrash
<1> QED BY <1>1, <1>2, <1>3, <1>4 DEF Next

THEOREM Invariance == Spec => []IInv
<1>1. Init => IInv
  BY InitHolds
<1>2. IInv /\ [Next]_simVars => IInv'
  BY NextSafe
<1> QED BY <1>1, <1>2, PTL DEF Spec

(* What a simulation knows of a proposal is what its first read saw. *)
LEMMA SimMoves ==
  ASSUME IInv, NEW s \in Sims, SimStep(s) \/ SimCrash(s) \/ \E q \in Proposals : FetchProposal(s, q)
  PROVE  /\ \A r \in Sims \ {s} : sim'[r] = sim[r]
         /\ \/ sim'[s] = NoSim
            \/ sim'[s].proposal = sim[s].proposal /\ sim'[s].status = sim[s].status
            \/ \E q \in Proposals : sim'[s].proposal = q /\ sim'[s].status = proposal[q].status
<1> USE Types
<1>1. CASE End(s)
  BY <1>1 DEF End
<1>2. ASSUME NEW pc \in {"check", "freeze", "rate", "commit"}, Go(s, pc), sim[s].pc # "idle"
      PROVE  /\ \A r \in Sims \ {s} : sim'[r] = sim[r]
             /\ sim'[s].proposal = sim[s].proposal /\ sim'[s].status = sim[s].status
  BY <1>2, GoFacts
<1>3. CASE Reauthorize(s) \/ CheckFreeze(s) \/ CheckRate(s)
  BY <1>1, <1>2, <1>3 DEF Reauthorize, CheckFreeze, CheckRate
<1>4. CASE FetchApproval(s)
  <2>1. sim[s].pc = "approval" /\ sim[s] \in SimRecords
    BY <1>4 DEF FetchApproval, NoSim
  <2>2. ASSUME NEW a, sim' = [sim EXCEPT ![s].pc = "check", ![s].approval = a]
        PROVE  /\ \A r \in Sims \ {s} : sim'[r] = sim[r]
               /\ sim'[s].proposal = sim[s].proposal /\ sim'[s].status = sim[s].status
    BY <2>1, <2>2 DEF SimRecords
  <2> QED BY <1>2, <1>4, <2>1, <2>2 DEF FetchApproval
<1>5. ASSUME NEW q \in Proposals, FetchProposal(s, q)
      PROVE  /\ \A r \in Sims \ {s} : sim'[r] = sim[r]
             /\ sim'[s].proposal = q /\ sim'[s].status = proposal[q].status
  BY <1>5 DEF FetchProposal
<1>6. CASE CommitCommand(s) \/ SimCrash(s)
  BY <1>1, <1>6 DEF CommitCommand, SimCrash
<1> QED BY <1>3, <1>4, <1>5, <1>6 DEF SimStep

-----------------------------------------------------------------------------
(* The results.                                                            *)

(* Rows, requests, simulations and commands keep the values the code gives *)
(* them (response-proposal.service.ts, simulation.service.ts).             *)
THEOREM TypeCorrect == Spec => []TypeOK
<1>1. IInv => TypeOK
  BY DEF IInv
<1> QED BY <1>1, Invariance, PTL

(* Every command rests on an approval of its own proposal by somebody who  *)
(* did not ask for it, for any number of requests and simulations that     *)
(* interleave (simulation.service.ts:52-200).                              *)
THEOREM CommandsRestOnApprovals == Spec => []CommandsAreApproved
<1>1. IInv => CommandsAreApproved
  BY DEF IInv, CommandsAreApproved, CommandOK, ApprovalsOK, Independent
<1> QED BY <1>1, Invariance, PTL

(* A simulation that begins after the approval expired yields no command   *)
(* (approval-reauthorization.service.ts).                                  *)
THEOREM ExpiredApprovalsYieldNothing == Spec => []CommandsUseCurrentApproval
<1>1. IInv => CommandsUseCurrentApproval
  BY DEF IInv, CommandsUseCurrentApproval, CommandOK
<1> QED BY <1>1, Invariance, PTL

(* A freeze, from whichever of the two applications, stops every           *)
(* simulation that begins after it (freeze-controller.service.ts).         *)
THEOREM FreezesStopSimulations == Spec => []FreezeStopsLaterSimulations
<1>1. ASSUME IInv, NEW c \in commands, NEW f \in freezes,
             f.scope \in {"GLOBAL", "TENANT"} \/ f.ref = c.action, f.from < c.since
      PROVE  ~(f.until = None \/ f.until > c.createdAt)
  <2>1. f.until # None /\ f.until <= c.createdAt
    BY <1>1 DEF IInv, CommandOK, Over, Covers
  <2>2. f.until \in Nat /\ c.createdAt \in Nat
    BY <1>1, <2>1, Types DEF IInv, CommandOK, Freeze, Time
  <2> QED BY <2>1, <2>2
<1>2. IInv => FreezeStopsLaterSimulations
  BY <1>1 DEF FreezeStopsLaterSimulations
<1> QED BY <1>2, Invariance, PTL

(* Once nobody is approving a rejected proposal and no simulation saw it   *)
(* approved, it has no further effect (response-proposal.service.ts).      *)
THEOREM RejectionsStick == Spec => RejectionSticks
<1>1. ASSUME IInv, [Next]_simVars, NEW p \in Proposals, Settled(p)
      PROVE  Settled(p)' /\ CommandsOf(p)' = CommandsOf(p)
  <2> USE Types
  <2>0. /\ proposal[p].status = "REJECTED" /\ proposal[p] # NoProposal
        /\ \A t \in Approvers : approve[t].proposal # p
        /\ \A s \in Sims : ~(sim[s].proposal = p /\ sim[s].status = "APPROVED")
    BY <1>1 DEF Settled, NoProposal
  <2>1. CASE UNCHANGED simVars
    BY <1>1, <2>1 DEF simVars, Settled, CommandsOf
  <2>2. CASE ProposalNext /\ UNCHANGED <<sim, commands>>
    <3>1. proposal'[p].status = "REJECTED" /\ \A t \in Approvers : approve'[t].proposal # p
      <4>1. CASE UNCHANGED <<proposal, approve>>
        BY <2>0, <4>1
      <4>2. ASSUME NEW q \in Proposals, Reject(q) \/ \E u \in Users, a \in Actions : CreateProposal(q, u, a)
            PROVE  proposal'[p].status = "REJECTED" /\ \A t \in Approvers : approve'[t].proposal # p
        <5>1. UNCHANGED approve
          BY <4>2 DEF Reject, CreateProposal
        <5>2. CASE Reject(q)
          BY <2>0, <5>1, <5>2 DEF Reject, Rows
        <5>3. ASSUME NEW u \in Users, NEW a \in Actions, CreateProposal(q, u, a)
              PROVE  proposal'[p] = proposal[p]
          BY <2>0, <5>3 DEF CreateProposal
        <5> QED BY <2>0, <4>2, <5>1, <5>2, <5>3
      <4>3. ASSUME NEW t \in Approvers, NEW q \in Proposals, NEW u \in Users, ApproveRead(t, q, u)
            PROVE  proposal'[p].status = "REJECTED" /\ \A v \in Approvers : approve'[v].proposal # p
        BY <2>0, <4>3 DEF ApproveRead, Approvable
      <4>4. ASSUME NEW t \in Approvers, ApproveAuthorized(t) \/ ApproverCrash(t)
            PROVE  proposal'[p].status = "REJECTED" /\ \A v \in Approvers : approve'[v].proposal # p
        <5>1. Idle.proposal # p
          BY Nones DEF Idle
        <5>2. approve[t] \in Requests /\ proposal' = proposal
          BY <1>1, <4>4, Types DEF ApproveAuthorized, ApproverCrash, Idle
        <5>3. CASE approve' = [approve EXCEPT ![t] = Idle]
          BY <2>0, <5>1, <5>2, <5>3
        <5>4. CASE approve' = [approve EXCEPT ![t].pc = "write", ![t].expiresAt = now + ApprovalTTL]
          BY <1>1, <2>0, <5>2, <5>4, Types DEF Requests
        <5> QED BY <4>4, <5>3, <5>4 DEF ApproveAuthorized, ApproverCrash
      <4>5. ASSUME NEW t \in Approvers, ApproveWrite(t)
            PROVE  proposal'[p].status = "REJECTED" /\ \A v \in Approvers : approve'[v].proposal # p
        <5>1. Idle.proposal # p
          BY Nones DEF Idle
        <5> QED BY <2>0, <4>5, <5>1 DEF ApproveWrite
      <4> QED BY <2>2, <4>1, <4>2, <4>3, <4>4, <4>5
              DEF ProposalNext, Tick, FreezeTenant, UnfreezeTenant, AnyCreateFreeze, CreateFreeze
    <3> QED BY <2>0, <2>2, <3>1 DEF Settled, CommandsOf
  <2>3. ASSUME NEW s \in Sims, SimStep(s) \/ SimCrash(s) \/ \E q \in Proposals : FetchProposal(s, q)
        PROVE  Settled(p)' /\ CommandsOf(p)' = CommandsOf(p)
    <3>1. UNCHANGED <<proposal, approve>>
      BY <2>3 DEF SimStep, SimCrash, FetchProposal, FetchApproval, Reauthorize, CheckFreeze, CheckRate,
         CommitCommand, proposalVars
    <3>2. \A r \in Sims : ~(sim'[r].proposal = p /\ sim'[r].status = "APPROVED")
      <4>1. NoSim.proposal # p
        BY Nones DEF NoSim
      <4>2. /\ \A r \in Sims \ {s} : sim'[r] = sim[r]
            /\ \/ sim'[s] = NoSim
               \/ sim'[s].proposal = sim[s].proposal /\ sim'[s].status = sim[s].status
               \/ \E q \in Proposals : sim'[s].proposal = q /\ sim'[s].status = proposal[q].status
        BY <1>1, <2>3, SimMoves
      <4> QED BY <2>0, <4>1, <4>2
    <3>3. CommandsOf(p)' = CommandsOf(p)
      <4>1. CASE CommitCommand(s)
        <5>1. sim[s].pc = "commit" /\ SimOK(s) /\ sim[s] # NoSim
          BY <1>1, <4>1 DEF CommitCommand, IInv, NoSim
        <5>2. sim[s].proposal # p
          BY <2>0, <5>1 DEF SimOK
        <5> QED BY <4>1, <5>2 DEF CommitCommand, CommandsOf
      <4>2. CASE UNCHANGED commands
        BY <4>2 DEF CommandsOf
      <4> QED BY <2>3, <4>1, <4>2 DEF SimStep, SimCrash, FetchProposal, FetchApproval, Reauthorize,
              CheckFreeze, CheckRate
    <3> QED BY <2>0, <3>1, <3>2, <3>3 DEF Settled
  <2> QED BY <1>1, <2>1, <2>2, <2>3 DEF Next
<1>2. IInv /\ [Next]_simVars =>
        [\A p \in Proposals : Settled(p) => Settled(p)' /\ CommandsOf(p)' = CommandsOf(p)]_simVars
  BY <1>1
<1> QED BY <1>2, Invariance, PTL DEF Spec, RejectionSticks

-----------------------------------------------------------------------------
(* The rate ceiling.  A simulation that passed the check holds a permit it *)
(* has not used; permits and recent commands together stay under the       *)
(* bound, since a permit is given only while the commands are under the    *)
(* ceiling, and there are no more permits than simulations.                *)

Committing(a) == {s \in Sims : sim[s].pc = "commit" /\ sim[s].action = a}

CeilingOf(a) ==
    Cardinality(InWindow(a)) + Cardinality(Committing(a)) <= Maximum + Cardinality(Sims) - 1

CeilingOK == \A a \in Actions : CeilingOf(a)

LEMMA CeilingCounts ==
  ASSUME IInv, NEW a
  PROVE  /\ IsFiniteSet(InWindow(a)) /\ Cardinality(InWindow(a)) \in Nat
         /\ IsFiniteSet(Committing(a)) /\ Cardinality(Committing(a)) \in Nat
         /\ Cardinality(Sims) \in Nat /\ Cardinality(Committing(a)) <= Cardinality(Sims)
         /\ Maximum \in Nat /\ Maximum >= 1
<1>1. IsFiniteSet(commands) /\ IsFiniteSet(Sims) /\ Maximum \in Nat /\ Maximum >= 1
  BY SimulationAssumption DEF IInv
<1>2. InWindow(a) \subseteq commands /\ Committing(a) \subseteq Sims
  BY DEF InWindow, Committing
<1> QED BY <1>1, <1>2, FS_Subset, FS_CardinalityType

LEMMA AtMostOneMore ==
  ASSUME NEW S, IsFiniteSet(S), NEW x, NEW T, T \subseteq S \cup {x}
  PROVE  IsFiniteSet(T) /\ Cardinality(T) \in Nat /\ Cardinality(T) <= Cardinality(S) + 1
<1>1. /\ IsFiniteSet(S \cup {x}) /\ Cardinality(S) \in Nat
      /\ Cardinality(S \cup {x}) = Cardinality(S) \/ Cardinality(S \cup {x}) = Cardinality(S) + 1
  BY FS_AddElement, FS_CardinalityType
<1>2. IsFiniteSet(T) /\ Cardinality(T) <= Cardinality(S \cup {x})
  BY <1>1, FS_Subset
<1> QED BY <1>1, <1>2, FS_CardinalityType

(* Fewer recent commands and fewer permits stay under the bound. *)
LEMMA CeilingShrinks ==
  ASSUME IInv, IInv', NEW a, CeilingOf(a),
         InWindow(a)' \subseteq InWindow(a), Committing(a)' \subseteq Committing(a)
  PROVE  CeilingOf(a)'
<1>1. /\ Cardinality(InWindow(a)') <= Cardinality(InWindow(a))
      /\ Cardinality(Committing(a)') <= Cardinality(Committing(a))
  BY CeilingCounts, FS_Subset
<1>2. IsFiniteSet(InWindow(a)') /\ IsFiniteSet(Committing(a)')
  BY CeilingCounts, FS_Subset
<1>3. Cardinality(InWindow(a)') \in Nat /\ Cardinality(Committing(a)') \in Nat
  BY <1>2, FS_CardinalityType
<1> QED BY <1>1, <1>3, CeilingCounts DEF CeilingOf

LEMMA CeilingCoreSafe ==
  ASSUME IInv, IInv', CeilingOK, ProposalNext, UNCHANGED <<sim, commands>>
  PROVE  CeilingOK'
<1>0. now' = now + 1 \/ now' = now
  BY DEF ProposalNext, Tick, FreezeTenant, UnfreezeTenant, AnyCreateFreeze, CreateFreeze, Reject,
     CreateProposal, ApproveRead, ApproveAuthorized, ApproveWrite, ApproverCrash
<1>1. now' \in Nat /\ now' >= now
  BY <1>0, Types
<1>2. ASSUME NEW a \in Actions
      PROVE  InWindow(a)' \subseteq InWindow(a) /\ Committing(a)' \subseteq Committing(a)
  <2>1. \A c \in commands : c.createdAt + Window >= now' => c.createdAt + Window >= now
    BY <1>1, Types, SimulationAssumption DEF IInv, CommandOK
  <2> QED BY <2>1 DEF InWindow, Committing
<1> QED BY <1>2, CeilingShrinks DEF CeilingOK

LEMMA CeilingCheckSafe ==
  ASSUME IInv, IInv', CeilingOK, NEW s \in Sims, CheckRate(s), UnderCeiling(sim[s].action), Go(s, "commit")
  PROVE  CeilingOK'
<1>1. UNCHANGED <<now, commands>> /\ sim[s].pc = "rate"
  BY DEF CheckRate, proposalVars
<1>2. /\ \A r \in Sims \ {s} : sim'[r] = sim[r]
      /\ sim'[s].action = sim[s].action
  BY <1>1, GoFacts
<1>3. ASSUME NEW a \in Actions, a = sim[s].action PROVE CeilingOf(a)'
  <2>1. Cardinality(InWindow(a)) < Maximum
    BY <1>3 DEF UnderCeiling
  <2>2. InWindow(a)' = InWindow(a)
    BY <1>1 DEF InWindow
  <2>3. Committing(a)' \subseteq Sims
    BY DEF Committing
  <2>4. IsFiniteSet(Sims) /\ IsFiniteSet(Committing(a)')
    BY <2>3, SimulationAssumption, FS_Subset
  <2>5. Cardinality(Committing(a)') <= Cardinality(Sims) /\ Cardinality(Committing(a)') \in Nat
    BY <2>3, <2>4, FS_Subset, FS_CardinalityType
  <2> QED BY <2>1, <2>2, <2>5, CeilingCounts DEF CeilingOf
<1>4. ASSUME NEW a \in Actions, a # sim[s].action PROVE CeilingOf(a)'
  <2>1. InWindow(a)' \subseteq InWindow(a)
    BY <1>1 DEF InWindow
  <2>2. Committing(a)' \subseteq Committing(a)
    BY <1>2, <1>4 DEF Committing
  <2> QED BY <2>1, <2>2, CeilingShrinks DEF CeilingOK
<1> QED BY <1>3, <1>4 DEF CeilingOK

(* A permit becomes a command. *)
LEMMA CeilingCommitSafe ==
  ASSUME IInv, IInv', CeilingOK, NEW s \in Sims, CommitCommand(s)
  PROVE  CeilingOK'
<1> DEFINE c == [id |-> Cardinality(commands) + 1, proposal |-> sim[s].proposal,
                 action |-> sim[s].action, approval |-> sim[s].approval,
                 since |-> sim[s].since, createdAt |-> now]
<1>1. /\ now' = now /\ sim[s].pc = "commit" /\ commands' = commands \cup {c}
      /\ sim' = [sim EXCEPT ![s] = NoSim]
  BY DEF CommitCommand, proposalVars, End
<1>2. c.action = sim[s].action
  OBVIOUS
<1>3. (\A r \in Sims \ {s} : sim'[r] = sim[r]) /\ sim'[s].pc = "idle"
  BY <1>1, Types DEF NoSim
<1> HIDE DEF c
<1>4. ASSUME NEW a \in Actions, a = sim[s].action PROVE CeilingOf(a)'
  <2>1. InWindow(a)' \subseteq InWindow(a) \cup {c}
    BY <1>1 DEF InWindow
  <2>2. Committing(a)' = Committing(a) \ {s} /\ s \in Committing(a)
    BY <1>1, <1>3, <1>4 DEF Committing
  <2>3. /\ Cardinality(InWindow(a)') \in Nat
        /\ Cardinality(InWindow(a)') <= Cardinality(InWindow(a)) + 1
    BY <2>1, CeilingCounts, AtMostOneMore
  <2>4. Cardinality(Committing(a)') = Cardinality(Committing(a)) - 1
    BY <2>2, CeilingCounts, FS_RemoveElement
  <2>5. CeilingOf(a)
    BY DEF CeilingOK
  <2> QED BY <2>3, <2>4, <2>5, CeilingCounts DEF CeilingOf
<1>5. ASSUME NEW a \in Actions, a # sim[s].action PROVE CeilingOf(a)'
  <2>1. InWindow(a)' \subseteq InWindow(a)
    BY <1>1, <1>2, <1>5 DEF InWindow
  <2>2. Committing(a)' \subseteq Committing(a)
    BY <1>3 DEF Committing
  <2> QED BY <2>1, <2>2, CeilingShrinks DEF CeilingOK
<1> QED BY <1>4, <1>5 DEF CeilingOK

(* Any other step of a simulation gives no permit and commits nothing. *)
LEMMA CeilingSimSafe ==
  ASSUME IInv, IInv', CeilingOK, NEW s \in Sims,
         \/ \E p \in Proposals : FetchProposal(s, p)
         \/ FetchApproval(s) \/ Reauthorize(s) \/ CheckFreeze(s) \/ SimCrash(s)
         \/ CheckRate(s) /\ End(s)
  PROVE  CeilingOK'
<1>1. UNCHANGED <<now, commands>>
  BY DEF FetchProposal, FetchApproval, Reauthorize, CheckFreeze, SimCrash, CheckRate, proposalVars
<1>2. (\A r \in Sims \ {s} : sim'[r] = sim[r]) /\ sim'[s].pc # "commit"
  <2>1. CASE End(s)
    BY <2>1, Types DEF End, NoSim
  <2>2. ASSUME NEW pc \in {"check", "freeze", "rate"}, Go(s, pc), sim[s].pc # "idle"
        PROVE  (\A r \in Sims \ {s} : sim'[r] = sim[r]) /\ sim'[s].pc # "commit"
    BY <2>2, GoFacts
  <2>3. ASSUME NEW p \in Proposals, FetchProposal(s, p)
        PROVE  (\A r \in Sims \ {s} : sim'[r] = sim[r]) /\ sim'[s].pc # "commit"
    BY <2>3, Types DEF FetchProposal
  <2>4. ASSUME FetchApproval(s)
        PROVE  (\A r \in Sims \ {s} : sim'[r] = sim[r]) /\ sim'[s].pc # "commit"
    <3>1. sim[s].pc = "approval" /\ sim[s] \in SimRecords
      BY <2>4, Types DEF FetchApproval, NoSim
    <3>2. ASSUME NEW a, sim' = [sim EXCEPT ![s].pc = "check", ![s].approval = a]
          PROVE  (\A r \in Sims \ {s} : sim'[r] = sim[r]) /\ sim'[s].pc # "commit"
      BY <3>1, <3>2, Types DEF SimRecords
    <3> QED BY <2>2, <2>4, <3>1, <3>2 DEF FetchApproval
  <2> QED BY <2>1, <2>2, <2>3, <2>4 DEF Reauthorize, CheckFreeze, SimCrash
<1>3. ASSUME NEW a \in Actions
      PROVE  InWindow(a)' \subseteq InWindow(a) /\ Committing(a)' \subseteq Committing(a)
  BY <1>1, <1>2 DEF InWindow, Committing
<1> QED BY <1>3, CeilingShrinks DEF CeilingOK

LEMMA CeilingInit == Init => CeilingOK
<1> SUFFICES ASSUME Init, NEW a \in Actions PROVE CeilingOf(a)
  BY DEF CeilingOK
<1>1. InWindow(a) = {} /\ Committing(a) = {}
  BY DEF Init, InWindow, Committing, NoSim
<1>2. Cardinality({}) = 0
  BY FS_EmptySet
<1> QED BY <1>1, <1>2, InitHolds, CeilingCounts DEF CeilingOf

LEMMA CeilingNext ==
  ASSUME IInv, IInv', CeilingOK, [Next]_simVars
  PROVE  CeilingOK'
<1>1. CASE UNCHANGED simVars
  BY <1>1 DEF simVars, CeilingOK, CeilingOf, InWindow, Committing
<1>2. CASE ProposalNext /\ UNCHANGED <<sim, commands>>
  BY <1>2, CeilingCoreSafe
<1>3. ASSUME NEW s \in Sims, SimStep(s) \/ SimCrash(s) \/ \E p \in Proposals : FetchProposal(s, p)
      PROVE  CeilingOK'
  <2>1. CASE CheckRate(s)
    BY <2>1, CeilingCheckSafe, CeilingSimSafe DEF CheckRate
  <2>2. CASE CommitCommand(s)
    BY <2>2, CeilingCommitSafe
  <2> QED BY <1>3, <2>1, <2>2, CeilingSimSafe DEF SimStep
<1> QED BY <1>1, <1>2, <1>3 DEF Next

(* Simultaneous simulations overshoot the ceiling by at most all of them   *)
(* but one, because the count is read before the command is written        *)
(* (rate-control.service.ts, simulation.service.ts).                  *)
THEOREM CeilingOvershoot == Spec => []CeilingOvershootIsBounded
<1>1. Init => CeilingOK
  BY CeilingInit
<1>2. IInv /\ IInv' /\ CeilingOK /\ [Next]_simVars => CeilingOK'
  BY CeilingNext
<1>3. IInv /\ CeilingOK => CeilingOvershootIsBounded
  <2> SUFFICES ASSUME IInv, CeilingOK, NEW a \in Actions
               PROVE  Cardinality(InWindow(a)) <= Maximum + Cardinality(Sims) - 1
    BY DEF CeilingOvershootIsBounded
  <2>1. CeilingOf(a)
    BY DEF CeilingOK
  <2> QED BY <2>1, CeilingCounts DEF CeilingOf
<1> QED BY <1>1, <1>2, <1>3, Invariance, PTL DEF Spec
=============================================================================
