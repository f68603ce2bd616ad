-------------------------- MODULE DualCustodyQuorum --------------------------
(***************************************************************************)
(* Dual-custody quorums of shield-action                                   *)
(* (dual-custody/dual-custody-quorum.service.ts) and the callers that      *)
(* spend them.  A quorum is one database row; the service instances share  *)
(* nothing else.  Every request is a task that awaits the database, so it  *)
(* is split where it awaits: the read, the synchronous checks that use     *)
(* what was read, and the conditional update, with any other task, the     *)
(* clock and a crash in between.                                           *)
(***************************************************************************)
EXTENDS Naturals, Sequences

CONSTANTS
    Quorums,    \* (tenant_id, quorum_id) keys, the row's unique key
    Users,      \* ApproverIdentity.userId
    Proposals,  \* proposal_id
    Scopes,     \* (action_type, target_resource) pairs
    Tasks,      \* in-flight requests, over all service instances
    None,       \* the null of a column, a payload or a request
    MaxTTL,     \* MAX_QUORUM_TTL_MINUTES
    MaxTime     \* bound on the clock

ASSUME ConstantsAssumption ==
    /\ MaxTTL \in Nat \ {0}
    /\ MaxTime \in Nat
    /\ None \notin Users \cup Proposals \cup Scopes

VARIABLES
    row,        \* the DualCustodyQuorum table
    now,        \* Date.now(), one clock for all instances
    pc,         \* where each task is
    req,        \* the arguments of each task
    seen,       \* the row each task read
    at,         \* finalizedAt / consumedAt of each task
    issued,     \* history: payloads whose signature the service stored
    dispatched  \* history: provider calls made under each quorum

vars == <<row, now, pc, req, seen, at, issued, dispatched>>

Time == 0 .. (MaxTime + MaxTTL)

Live == {"PENDING_SECOND_SIGNATURE", "QUORUM_REACHED"}
Terminal == {"CONSUMED", "EXPIRED"}

(* What sign() puts under the HMAC. *)
Payload == [quorum: Quorums, proposal: Proposals, scope: Scopes,
            initiator: Users, approver: Users, finalizedAt: Time]

(* No payload is None-valued: a signature column holds a payload or is null *)
NoSig == [quorum |-> None, proposal |-> None, scope |-> None,
          initiator |-> None, approver |-> None, finalizedAt |-> 0]

Row == [status: Live \cup Terminal, proposal: Proposals, scope: Scopes,
        initiator: Users, approver: Users \cup {None},
        sig: Payload \cup {NoSig}, expiresAt: Time, finalizedAt: Time]

NoRow == [status |-> "NONE", proposal |-> None, scope |-> None,
          initiator |-> None, approver |-> None,
          sig |-> NoSig, expiresAt |-> 0, finalizedAt |-> 0]

Request ==
    [kind: {"sign"}, quorum: Quorums, user: Users,
     proposal: {None}, scope: {None}]
    \cup [kind: {"validate"}, quorum: Quorums, user: {None},
          proposal: Proposals, scope: {None}]
    \cup [kind: {"consume"}, quorum: Quorums, user: {None},
          proposal: Proposals, scope: Scopes]

NoRequest == [kind |-> "none", quorum |-> None, user |-> None,
              proposal |-> None, scope |-> None]

-----------------------------------------------------------------------------
Init ==
    /\ row = [q \in Quorums |-> NoRow]
    /\ now = 0
    /\ pc = [t \in Tasks |-> "idle"]
    /\ req = [t \in Tasks |-> NoRequest]
    /\ seen = [t \in Tasks |-> NoRow]
    /\ at = [t \in Tasks |-> 0]
    /\ issued = {}
    /\ dispatched = [q \in Quorums |-> <<>>]

(* A task ends: it returned or threw, and forgets everything it held. *)
Return(t) ==
    /\ pc' = [pc EXCEPT ![t] = "idle"]
    /\ req' = [req EXCEPT ![t] = NoRequest]
    /\ seen' = [seen EXCEPT ![t] = NoRow]
    /\ at' = [at EXCEPT ![t] = 0]

Goto(t, label) ==
    /\ pc' = [pc EXCEPT ![t] = label]
    /\ UNCHANGED <<req, seen, at>>

(* The clock value a synchronous block takes and writes in its update. *)
GotoAt(t, label) ==
    /\ pc' = [pc EXCEPT ![t] = label]
    /\ at' = [at EXCEPT ![t] = now]
    /\ UNCHANGED <<req, seen>>

(* The requested lifetime, in minutes, is capped (Math.min). *)
Lifetime(ttl) == IF ttl < MaxTTL THEN ttl ELSE MaxTTL

(* initiateQuorum: one insert; the unique key refuses a second row.        *)
InitiateQuorum(q, u, prop, s, ttl) ==
    /\ row[q] = NoRow
    /\ ttl > 0
    /\ row' = [row EXCEPT ![q] =
          [status |-> "PENDING_SECOND_SIGNATURE", proposal |-> prop,
           scope |-> s, initiator |-> u, approver |-> None, sig |-> NoSig,
           expiresAt |-> now + Lifetime(ttl),
           finalizedAt |-> 0]]
    /\ UNCHANGED <<now, pc, req, seen, at, issued, dispatched>>

(* A request arrives and its findRow is answered. *)
ReadRow(t, r) ==
    /\ pc[t] = "idle"
    /\ row[r.quorum] # NoRow
    /\ pc' = [pc EXCEPT ![t] = "check"]
    /\ req' = [req EXCEPT ![t] = r]
    /\ seen' = [seen EXCEPT ![t] = row[r.quorum]]
    /\ UNCHANGED <<row, now, at, issued, dispatched>>

SignRequest(q, u) ==
    [kind |-> "sign", quorum |-> q, user |-> u, proposal |-> None, scope |-> None]
ValidateRequest(q, prop) ==
    [kind |-> "validate", quorum |-> q, user |-> None, proposal |-> prop,
     scope |-> None]
ConsumeRequest(q, prop, s) ==
    [kind |-> "consume", quorum |-> q, user |-> None, proposal |-> prop,
     scope |-> s]

(* Date.now() > quorum.expires_at, on the row that was read *)
SeenAtExpiry(t) == now >= seen[t].expiresAt  \* deviation: off by one
SeenExpired(t) == now > seen[t].expiresAt

-----------------------------------------------------------------------------
(* signSecondApproval *)

MaySignAlone(t) ==  \* deviation: no self-approval check
    seen[t].status = "PENDING_SECOND_SIGNATURE"

MaySign(t) ==
    /\ seen[t].status = "PENDING_SECOND_SIGNATURE"
    /\ req[t].user # seen[t].initiator

SignCheck(t) ==
    /\ pc[t] = "check" /\ req[t].kind = "sign"
    /\ \/ SeenExpired(t) /\ Goto(t, "expire")
       \/ ~SeenExpired(t) /\ MaySign(t) /\ GotoAt(t, "finalize")
       \/ ~SeenExpired(t) /\ ~MaySign(t) /\ Return(t)
    /\ UNCHANGED <<row, now, issued, dispatched>>

PayloadOf(q, r, approver, finalizedAt) ==
    [quorum |-> q, proposal |-> r.proposal, scope |-> r.scope,
     initiator |-> r.initiator, approver |-> approver,
     finalizedAt |-> finalizedAt]

(* The where clause of the finalizing updateMany *)
FinalizableTwice(q, finalizedAt) ==  \* deviation: update not conditional
    row[q].expiresAt > finalizedAt

Finalizable(q, finalizedAt) ==
    /\ row[q].status = "PENDING_SECOND_SIGNATURE"
    /\ row[q].expiresAt > finalizedAt

Finalize(t) ==
    LET q == req[t].quorum
        sig == PayloadOf(q, seen[t], req[t].user, at[t])
    IN  /\ pc[t] = "finalize"
        /\ IF Finalizable(q, at[t])
           THEN /\ row' = [row EXCEPT ![q] =
                      [@ EXCEPT !.status = "QUORUM_REACHED",
                                !.approver = req[t].user,
                                !.sig = sig, !.finalizedAt = at[t]]]
                /\ issued' = issued \cup {sig}
           ELSE UNCHANGED <<row, issued>>
        /\ Return(t)
        /\ UNCHANGED <<now, dispatched>>

(* The where clause of markExpired's updateMany *)
AnyStatus(q) == row[q].status # "NONE"  \* deviation: no status filter
Expirable(q) == row[q].status \in Live

(* markExpired, on behalf of any request that saw the row past its expiry *)
Expire(t) ==
    LET q == req[t].quorum
    IN  /\ pc[t] = "expire"
        /\ row' = IF Expirable(q)
                  THEN [row EXCEPT ![q].status = "EXPIRED"]
                  ELSE row
        /\ Return(t)
        /\ UNCHANGED <<now, issued, dispatched>>

-----------------------------------------------------------------------------
(* validateQuorumForExecution and consumeForExecution *)

(* The HMAC recomputed over the stored columns equals the stored one.  The *)
(* null checks on signature and approver are part of it.                   *)
SignatureTrusted(q, r) ==  \* deviation: the stored signature is trusted
    r.approver # None

SignatureVerifies(q, r) ==
    /\ r.approver # None
    /\ r.sig # NoSig
    /\ r.sig = PayloadOf(q, r, r.approver, r.finalizedAt)

Reached(t) ==
    /\ seen[t].proposal = req[t].proposal
    /\ seen[t].status = "QUORUM_REACHED"

Covers(t) ==
    /\ SignatureVerifies(req[t].quorum, seen[t])
    /\ seen[t].scope = req[t].scope

ValidateCheck(t) ==
    /\ pc[t] = "check" /\ req[t].kind = "validate"
    /\ \/ Reached(t) /\ SeenExpired(t) /\ Goto(t, "expire")
       \/ ~(Reached(t) /\ SeenExpired(t)) /\ Return(t)
    /\ UNCHANGED <<row, now, issued, dispatched>>

ConsumeCheck(t) ==
    /\ pc[t] = "check" /\ req[t].kind = "consume"
    /\ \/ Reached(t) /\ SeenExpired(t) /\ Goto(t, "expire")
       \/ Reached(t) /\ ~SeenExpired(t) /\ Covers(t) /\ GotoAt(t, "spend")
       \/ Reached(t) /\ ~SeenExpired(t) /\ ~Covers(t) /\ Return(t)
       \/ ~Reached(t) /\ Return(t)
    /\ UNCHANGED <<row, now, issued, dispatched>>

(* The where clause of the consuming updateMany *)
SpendableAgain(q, consumedAt) ==  \* deviation: update not conditional
    row[q].expiresAt > consumedAt

Spendable(q, consumedAt) ==
    /\ row[q].status = "QUORUM_REACHED"
    /\ row[q].expiresAt > consumedAt

Spend(t) ==
    LET q == req[t].quorum
    IN  /\ pc[t] = "spend"
        /\ \/ /\ Spendable(q, at[t])
              /\ row' = [row EXCEPT ![q].status = "CONSUMED"]
              /\ Goto(t, "dispatch")
           \/ /\ ~Spendable(q, at[t])
              /\ UNCHANGED row
              /\ Return(t)
        /\ UNCHANGED <<now, issued, dispatched>>

(* The caller of consumeForExecution resumes with the receipt and calls    *)
(* the provider ...                                                        *)
Dispatch(t) ==
    LET q == req[t].quorum
    IN  /\ pc[t] = "dispatch"
        /\ dispatched' = [dispatched EXCEPT ![q] = Append(@,
              [proposal |-> req[t].proposal, scope |-> req[t].scope])]
        /\ Return(t)
        /\ UNCHANGED <<row, now, issued>>

(* ... or throws without reaching it: the EDR broker has no live           *)
(* integration, an executor is not configured.  The quorum stays spent.    *)
DispatchUnavailable(t) ==
    /\ pc[t] = "dispatch"
    /\ Return(t)
    /\ UNCHANGED <<row, now, issued, dispatched>>

-----------------------------------------------------------------------------
(* The environment *)

Tick ==
    /\ now < MaxTime
    /\ now' = now + 1
    /\ UNCHANGED <<row, pc, req, seen, at, issued, dispatched>>

(* The instance running t dies; what t had committed stays committed. *)
Crash(t) ==
    /\ pc[t] # "idle"
    /\ Return(t)
    /\ UNCHANGED <<row, now, issued, dispatched>>

(* A write that bypasses the service ("a direct database write could forge *)
(* a QUORUM_REACHED status"): it can name any approver and copy the        *)
(* signature of any row, but it cannot compute one.                        *)
DirectWrite(q, u, source) ==
    /\ row[q].status \in Live
    /\ row' = [row EXCEPT ![q] =
          [@ EXCEPT !.status = "QUORUM_REACHED", !.approver = u,
                    !.sig = row[source].sig,
                    !.finalizedAt = row[source].finalizedAt]]
    /\ UNCHANGED <<now, pc, req, seen, at, issued, dispatched>>

RequestArrives(t) ==
    \E q \in Quorums :
        \/ \E u \in Users : ReadRow(t, SignRequest(q, u))
        \/ \E prop \in Proposals : ReadRow(t, ValidateRequest(q, prop))
        \/ \E prop \in Proposals, s \in Scopes :
               ReadRow(t, ConsumeRequest(q, prop, s))

TaskStep(t) ==
    \/ SignCheck(t) \/ Finalize(t) \/ Expire(t)
    \/ ValidateCheck(t) \/ ConsumeCheck(t) \/ Spend(t)
    \/ Dispatch(t) \/ DispatchUnavailable(t)

Next ==
    \/ Tick
    \/ \E q \in Quorums, u \in Users, prop \in Proposals, s \in Scopes,
          ttl \in 0 .. (MaxTTL + 1) : InitiateQuorum(q, u, prop, s, ttl)
    \/ \E q \in Quorums, u \in Users, source \in Quorums : DirectWrite(q, u, source)
    \/ \E t \in Tasks : RequestArrives(t) \/ TaskStep(t) \/ Crash(t)

Spec == Init /\ [][Next]_vars

-----------------------------------------------------------------------------
(* Every variable keeps its type. *)
Labels == {"idle", "check", "finalize", "expire", "spend", "dispatch"}
Deed == [proposal: Proposals, scope: Scopes]

TypeOK ==
    /\ row \in [Quorums -> Row \cup {NoRow}]
    /\ now \in 0 .. MaxTime
    /\ pc \in [Tasks -> Labels]
    /\ req \in [Tasks -> Request \cup {NoRequest}]
    /\ seen \in [Tasks -> Row \cup {NoRow}]
    /\ at \in [Tasks -> Time]
    /\ issued \subseteq Payload
    /\ dispatched \in [Quorums -> Seq(Deed)]

(* One quorum authorises at most one provider call, whatever number of     *)
(* executions race for it and wherever an instance dies                    *)
(* (consumeForExecution: "one approval authorizes exactly one execution"). *)
AtMostOneDispatch ==
    \A q \in Quorums : Len(dispatched[q]) <= 1

(* Two users stood behind every provider call: a second approver different *)
(* from the initiator had signed this very quorum, for this very proposal, *)
(* action and target; no row written around the service is enough.         *)
DispatchUnderDualCustody ==
    \A q \in Quorums : \A i \in DOMAIN dispatched[q] :
        \E s \in issued :
            /\ s.quorum = q
            /\ s.approver # s.initiator
            /\ s.initiator = row[q].initiator
            /\ s.proposal = dispatched[q][i].proposal
            /\ s.scope = dispatched[q][i].scope

(* Of any number of concurrent second approvers one finalizes the quorum.  *)
OneFinalizer ==
    \A s1, s2 \in issued : s1.quorum = s2.quorum => s1 = s2

(* A live quorum is never expired early: the status EXPIRED is written     *)
(* from a read that may be stale by then, yet only past expires_at.        *)
ExpiredOnlyPastExpiry ==
    \A q \in Quorums : row[q].status = "EXPIRED" => now > row[q].expiresAt

(* CONSUMED and EXPIRED are final: no delayed approver, consumer or        *)
(* markExpired that read the row before revives or relabels it.            *)
TerminalIsFinal ==
    [][\A q \in Quorums : row[q].status \in Terminal => row'[q] = row[q]]_row

-----------------------------------------------------------------------------
(* The service as a single-use approval.  A row written around the service *)
(* is still open, or approved, as the service left it: only an issued      *)
(* signature approves.                                                     *)
IssuedFor(q) == {s \in issued : s.quorum = q}

PhaseOf(q) ==
    CASE row[q].status = "NONE" -> "absent"
      [] row[q].status = "CONSUMED" -> "claimed"
      [] row[q].status = "EXPIRED" -> "lapsed"
      [] OTHER -> IF IssuedFor(q) = {} THEN "open" ELSE "approved"

CountersignerOf(q) ==
    IF IssuedFor(q) = {} THEN None
    ELSE (CHOOSE s \in IssuedFor(q) : TRUE).approver

Approval == INSTANCE SingleUseApproval WITH
    Approvals <- Quorums,
    People <- Users,
    Nobody <- None,
    phase <- [q \in Quorums |-> PhaseOf(q)],
    opener <- [q \in Quorums |-> row[q].initiator],
    countersigner <- [q \in Quorums |-> CountersignerOf(q)],
    uses <- [q \in Quorums |-> Len(dispatched[q])]

(* Every behaviour of the service is one of a single-use approval: no      *)
(* interleaving of readers and conditional updates claims an approval that *)
(* was not countersigned by a second user, or uses it twice.               *)
ImplementsSingleUseApproval == Approval!Spec
=============================================================================
