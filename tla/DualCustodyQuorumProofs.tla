----------------------- MODULE DualCustodyQuorumProofs -----------------------
(***************************************************************************)
(* Proofs about DualCustodyQuorum, for any number of quorums, users,       *)
(* tasks and any clock.  The inductive invariant says what a task may      *)
(* still rely on, after other tasks moved, of the row it read.             *)
(***************************************************************************)
EXTENDS DualCustodyQuorum, TLAPS

(* The columns nothing ever rewrites are as the task read them. *)
SeenIsCurrent ==
    \A t \in Tasks : pc[t] # "idle" =>
        /\ req[t].quorum \in Quorums
        /\ row[req[t].quorum].status # "NONE"
        /\ seen[t].proposal = row[req[t].quorum].proposal
        /\ seen[t].scope = row[req[t].quorum].scope
        /\ seen[t].initiator = row[req[t].quorum].initiator
        /\ seen[t].expiresAt = row[req[t].quorum].expiresAt

(* An issued signature is of two users and of its row as it still is. *)
IssuedIsSound ==
    \A s \in issued :
        /\ s.approver # s.initiator
        /\ s.initiator = row[s.quorum].initiator
        /\ s.proposal = row[s.quorum].proposal
        /\ s.scope = row[s.quorum].scope
        /\ row[s.quorum].status \notin {"NONE", "PENDING_SECOND_SIGNATURE"}

(* Signatures can be copied from row to row, never made up. *)
SignaturesAreIssued ==
    /\ \A q \in Quorums : row[q].sig \in issued \cup {NoSig}
    /\ \A t \in Tasks : seen[t].sig \in issued \cup {NoSig}

(* What a task established before it awaits its update. *)
CheckedBeforeUpdate ==
    \A t \in Tasks :
        /\ pc[t] = "finalize" => /\ req[t].user \in Users
                                 /\ req[t].user # seen[t].initiator
        /\ pc[t] \in {"spend", "dispatch"} =>
               \E s \in issued : /\ s.quorum = req[t].quorum
                                 /\ s.proposal = req[t].proposal
                                 /\ s.scope = req[t].scope
        /\ pc[t] = "expire" => now > row[req[t].quorum].expiresAt

(* The right to dispatch: one task at a time holds it, it comes with       *)
(* CONSUMED, and it is gone once used.                                     *)
OneHolder ==
    /\ \A t \in Tasks : pc[t] = "dispatch" =>
           /\ row[req[t].quorum].status = "CONSUMED"
           /\ dispatched[req[t].quorum] = <<>>
    /\ \A t, u \in Tasks :
           /\ pc[t] = "dispatch" /\ pc[u] = "dispatch"
           /\ req[t].quorum = req[u].quorum
           => t = u
    /\ \A q \in Quorums : row[q].status # "CONSUMED" => dispatched[q] = <<>>

Safety ==
    /\ SeenIsCurrent
    /\ IssuedIsSound
    /\ OneFinalizer
    /\ SignaturesAreIssued
    /\ CheckedBeforeUpdate
    /\ OneHolder
    /\ AtMostOneDispatch
    /\ DispatchUnderDualCustody
    /\ ExpiredOnlyPastExpiry

IInv == TypeOK /\ Safety

-----------------------------------------------------------------------------
(* Types *)

LEMMA TimeType ==
  /\ 0 \in Time /\ Time \subseteq Nat
  /\ 0 .. MaxTime \subseteq Time
  /\ \A n \in 0 .. MaxTime, ttl \in Nat : n + Lifetime(ttl) \in Time
  BY ConstantsAssumption DEF Time, Lifetime

LEMMA InitType == Init => TypeOK
  BY TimeType, ConstantsAssumption DEF Init, TypeOK, Labels

LEMMA ReturnType ==
  ASSUME TypeOK, NEW t \in Tasks, Return(t)
  PROVE  /\ pc' \in [Tasks -> Labels]
         /\ req' \in [Tasks -> Request \cup {NoRequest}]
         /\ seen' \in [Tasks -> Row \cup {NoRow}]
         /\ at' \in [Tasks -> Time]
  BY TimeType DEF TypeOK, Return, Labels

LEMMA GotoType ==
  ASSUME TypeOK, NEW t \in Tasks, NEW l \in Labels, Goto(t, l) \/ GotoAt(t, l)
  PROVE  /\ pc' \in [Tasks -> Labels]
         /\ req' \in [Tasks -> Request \cup {NoRequest}]
         /\ seen' \in [Tasks -> Row \cup {NoRow}]
         /\ at' \in [Tasks -> Time]
  BY TimeType DEF TypeOK, Goto, GotoAt

(* Rewriting the columns an update sets keeps a row a row. *)
LEMMA RowUpdateType ==
  ASSUME NEW r \in Row, NEW st \in Live \cup Terminal, NEW u \in Users,
         NEW sig \in Payload \cup {NoSig}, NEW f \in Time
  PROVE  /\ [r EXCEPT !.status = st] \in Row
         /\ [r EXCEPT !.status = st, !.approver = u, !.sig = sig,
                      !.finalizedAt = f] \in Row
  BY DEF Row

LEMMA SetStatusType ==
  ASSUME TypeOK, NEW q \in Quorums, row[q] \in Row, NEW st \in Live \cup Terminal,
         row' = [row EXCEPT ![q].status = st] \/ row' = row
  PROVE  row' \in [Quorums -> Row \cup {NoRow}]
<1>1. [row[q] EXCEPT !.status = st] \in Row
  BY DEF Row
<1> QED
  BY <1>1 DEF TypeOK

LEMMA ExistingRow ==
  ASSUME TypeOK, NEW q \in Quorums, row[q].status # "NONE"
  PROVE  row[q] \in Row
  BY DEF TypeOK, NoRow

(* The row a busy task works on exists, and so does the one it read. *)
LEMMA BusyRow ==
  ASSUME TypeOK, SeenIsCurrent, NEW t \in Tasks, pc[t] # "idle"
  PROVE  /\ req[t].quorum \in Quorums
         /\ row[req[t].quorum] \in Row
         /\ seen[t] \in Row
<1>1. /\ req[t].quorum \in Quorums
      /\ row[req[t].quorum].status # "NONE"
      /\ seen[t].proposal = row[req[t].quorum].proposal
  BY DEF SeenIsCurrent
<1>2. row[req[t].quorum] \in Row
  BY <1>1, ExistingRow
<1>3. seen[t].proposal \in Proposals
  BY <1>1, <1>2 DEF Row
<1>4. seen[t] # NoRow
  BY <1>3, ConstantsAssumption DEF NoRow
<1> QED
  BY <1>1, <1>2, <1>4 DEF TypeOK

LEMMA StepType == IInv /\ [Next]_vars => TypeOK'
<1> USE DEF IInv, Safety
<1> SUFFICES ASSUME IInv, [Next]_vars
             PROVE  TypeOK'
  BY DEF IInv, Safety
<1>1. CASE UNCHANGED vars
  BY <1>1 DEF vars, TypeOK
<1>2. CASE Tick
  BY <1>2, ConstantsAssumption DEF Tick, TypeOK
<1>3. ASSUME NEW q \in Quorums, NEW u \in Users, NEW prop \in Proposals,
             NEW s \in Scopes, NEW ttl \in 0 .. (MaxTTL + 1),
             InitiateQuorum(q, u, prop, s, ttl)
      PROVE  TypeOK'
  <2>1. row'[q] \in Row
    BY <1>3, TimeType, ConstantsAssumption DEF InitiateQuorum, TypeOK, Row, Live
  <2>2. row' \in [Quorums -> Row \cup {NoRow}]
    BY <1>3, <2>1 DEF InitiateQuorum, TypeOK
  <2> QED
    BY <1>3, <2>2 DEF InitiateQuorum, TypeOK
<1>4. ASSUME NEW q \in Quorums, NEW u \in Users, NEW source \in Quorums,
             DirectWrite(q, u, source)
      PROVE  TypeOK'
  <2>1. row[q] \in Row
    BY <1>4, ExistingRow DEF DirectWrite, Live
  <2>2. row[source].sig \in Payload \cup {NoSig} /\ row[source].finalizedAt \in Time
    BY TimeType DEF TypeOK, Row, NoRow
  <2>3. row' \in [Quorums -> Row \cup {NoRow}]
    BY <1>4, <2>1, <2>2, RowUpdateType DEF DirectWrite, TypeOK, Live
  <2> QED
    BY <1>4, <2>3 DEF DirectWrite, TypeOK
<1>5. ASSUME NEW t \in Tasks, RequestArrives(t) PROVE TypeOK'
  <2>1. PICK r \in Request : ReadRow(t, r)
    BY <1>5 DEF RequestArrives, SignRequest, ValidateRequest, ConsumeRequest,
                Request
  <2> QED
    BY <2>1 DEF ReadRow, TypeOK, Labels, Request
<1>6. ASSUME NEW t \in Tasks, SignCheck(t) \/ ValidateCheck(t) \/ ConsumeCheck(t)
      PROVE  TypeOK'
  BY <1>6, ReturnType, GotoType
     DEF SignCheck, ValidateCheck, ConsumeCheck, TypeOK, Labels
<1>7. ASSUME NEW t \in Tasks, Finalize(t) PROVE TypeOK'
  <2> DEFINE q == req[t].quorum
             sig == PayloadOf(q, seen[t], req[t].user, at[t])
  <2>1. q \in Quorums /\ row[q] \in Row /\ seen[t] \in Row /\ req[t].user \in Users
    BY <1>7, BusyRow DEF Finalize, CheckedBeforeUpdate
  <2>2. sig \in Payload /\ at[t] \in Time
    BY <2>1 DEF PayloadOf, Payload, Row, TypeOK
  <2>3. CASE ~Finalizable(q, at[t])
    BY <1>7, <2>3, ReturnType DEF Finalize, TypeOK
  <2>4. CASE Finalizable(q, at[t])
    <3>1. row' = [row EXCEPT ![q] =
                    [row[q] EXCEPT !.status = "QUORUM_REACHED",
                                   !.approver = req[t].user,
                                   !.sig = sig, !.finalizedAt = at[t]]]
      BY <1>7, <2>4 DEF Finalize
    <3>2. row' \in [Quorums -> Row \cup {NoRow}]
      BY <3>1, <2>1, <2>2, RowUpdateType DEF TypeOK, Live
    <3>3. issued' \subseteq Payload
      BY <1>7, <2>2, <2>4 DEF Finalize, TypeOK
    <3> QED
      BY <1>7, <3>2, <3>3, ReturnType DEF Finalize, TypeOK
  <2> QED
    BY <2>3, <2>4
<1>8. ASSUME NEW t \in Tasks, Expire(t) PROVE TypeOK'
  <2>1. row' \in [Quorums -> Row \cup {NoRow}]
    BY <1>8, BusyRow, SetStatusType DEF Expire, Terminal
  <2> QED
    BY <1>8, <2>1, ReturnType DEF Expire, TypeOK
<1>9. ASSUME NEW t \in Tasks, Spend(t) PROVE TypeOK'
  <2>1. row' \in [Quorums -> Row \cup {NoRow}]
    BY <1>9, BusyRow, SetStatusType DEF Spend, Terminal, TypeOK
  <2> QED
    BY <1>9, <2>1, ReturnType, GotoType DEF Spend, TypeOK, Labels
<1>10. ASSUME NEW t \in Tasks, Dispatch(t) PROVE TypeOK'
  <2> DEFINE q == req[t].quorum
             d == [proposal |-> req[t].proposal, scope |-> req[t].scope]
  <2>1. d \in Deed
    <3>1. PICK s \in issued : s.proposal = req[t].proposal /\ s.scope = req[t].scope
      BY <1>10 DEF Dispatch, CheckedBeforeUpdate
    <3> QED
      BY <3>1 DEF TypeOK, Payload, Deed
  <2>2. dispatched' \in [Quorums -> Seq(Deed)]
    <3>1. dispatched' = [dispatched EXCEPT ![q] = Append(dispatched[q], d)]
      BY <1>10 DEF Dispatch
    <3> HIDE DEF d, q
    <3>2. \A r \in Quorums : dispatched[r] \in Seq(Deed) /\ Append(dispatched[r], d) \in Seq(Deed)
      BY <2>1 DEF TypeOK
    <3> QED
      BY <3>1, <3>2 DEF TypeOK
  <2> QED
    BY <1>10, <2>2, ReturnType DEF Dispatch, TypeOK
<1>11. ASSUME NEW t \in Tasks, DispatchUnavailable(t) \/ Crash(t) PROVE TypeOK'
  BY <1>11, ReturnType DEF DispatchUnavailable, Crash, TypeOK
<1> QED
  BY <1>1, <1>2, <1>3, <1>4, <1>5, <1>6, <1>7, <1>8, <1>9, <1>10, <1>11
     DEF Next, TaskStep

-----------------------------------------------------------------------------
(* What the steps do, pointwise *)

OthersKeep(t) ==
    \A u \in Tasks \ {t} : /\ pc'[u] = pc[u] /\ req'[u] = req[u]
                           /\ seen'[u] = seen[u]

Leaves(t) == pc'[t] = "idle" /\ seen'[t] = NoRow

Moves(t, label) == pc'[t] = label /\ req'[t] = req[t] /\ seen'[t] = seen[t]

(* The columns no update writes stay, and no row disappears. *)
ColumnsKept ==
    \A q \in Quorums : row[q].status # "NONE" =>
        /\ row'[q].status # "NONE"
        /\ row'[q].proposal = row[q].proposal
        /\ row'[q].scope = row[q].scope
        /\ row'[q].initiator = row[q].initiator
        /\ row'[q].expiresAt = row[q].expiresAt

(* Row q gets a status and perhaps other columns; the other rows stay. *)
Updated(q, status) ==
    /\ \A r \in Quorums \ {q} : row'[r] = row[r]
    /\ row'[q].status = status
    /\ ColumnsKept

LEMMA ReturnMeans ==
  ASSUME TypeOK, NEW t \in Tasks, Return(t)
  PROVE  OthersKeep(t) /\ Leaves(t)
  BY DEF TypeOK, Return, OthersKeep, Leaves

LEMMA GotoMeans ==
  ASSUME TypeOK, NEW t \in Tasks, NEW l, Goto(t, l) \/ GotoAt(t, l)
  PROVE  OthersKeep(t) /\ Moves(t, l)
  BY DEF TypeOK, Goto, GotoAt, OthersKeep, Moves

LEMMA SetStatusMeans ==
  ASSUME TypeOK, NEW q \in Quorums, row[q] \in Row, NEW st \in Live \cup Terminal,
         row' = [row EXCEPT ![q].status = st]
  PROVE  Updated(q, st) /\ row'[q].sig = row[q].sig
<1>1. row'[q] = [row[q] EXCEPT !.status = st] /\ \A r \in Quorums \ {q} : row'[r] = row[r]
  BY DEF TypeOK
<1>2. /\ row'[q].status = st /\ row'[q].sig = row[q].sig
      /\ row'[q].proposal = row[q].proposal /\ row'[q].scope = row[q].scope
      /\ row'[q].initiator = row[q].initiator /\ row'[q].expiresAt = row[q].expiresAt
  BY <1>1 DEF Row
<1>3. st # "NONE"
  BY DEF Live, Terminal
<1> QED
  BY <1>1, <1>2, <1>3 DEF Updated, ColumnsKept

LEMMA RewriteMeans ==
  ASSUME TypeOK, NEW q \in Quorums, row[q] \in Row, NEW u \in Users,
         NEW sig \in Payload \cup {NoSig}, NEW f \in Time,
         row' = [row EXCEPT ![q] =
                   [row[q] EXCEPT !.status = "QUORUM_REACHED", !.approver = u,
                                  !.sig = sig, !.finalizedAt = f]]
  PROVE  Updated(q, "QUORUM_REACHED") /\ row'[q].sig = sig
<1>1. /\ row'[q] = [row[q] EXCEPT !.status = "QUORUM_REACHED", !.approver = u,
                                  !.sig = sig, !.finalizedAt = f]
      /\ \A r \in Quorums \ {q} : row'[r] = row[r]
  BY DEF TypeOK
<1>2. /\ row'[q].status = "QUORUM_REACHED" /\ row'[q].sig = sig
      /\ row'[q].proposal = row[q].proposal /\ row'[q].scope = row[q].scope
      /\ row'[q].initiator = row[q].initiator /\ row'[q].expiresAt = row[q].expiresAt
  <2> DEFINE r == row[q]
             new == [r EXCEPT !.status = "QUORUM_REACHED", !.approver = u,
                              !.sig = sig, !.finalizedAt = f]
  <2>1. /\ new.status = "QUORUM_REACHED" /\ new.sig = sig
        /\ new.proposal = r.proposal /\ new.scope = r.scope
        /\ new.initiator = r.initiator /\ new.expiresAt = r.expiresAt
    <3> HIDE DEF r
    <3> QED
      BY DEF Row
  <2> QED
    BY <1>1, <2>1
<1> QED
  BY <1>1, <1>2 DEF Updated, ColumnsKept

-----------------------------------------------------------------------------
(* Safety, one lemma per action *)

(* The columns a busy task read stay current when rows only change status  *)
(* or signature and a task leaves, moves on or does nothing.               *)
LEMMA StaysCurrent ==
  ASSUME IInv, ColumnsKept, NEW t \in Tasks, OthersKeep(t),
         Leaves(t) \/ (pc[t] # "idle" /\ req'[t] = req[t] /\ seen'[t] = seen[t])
  PROVE  SeenIsCurrent'
  BY DEF IInv, Safety, SeenIsCurrent, ColumnsKept, OthersKeep, Leaves

(* What was dispatched stays approved when rows only change status or      *)
(* signature and signatures are only added.                                *)
LEMMA StaysApproved ==
  ASSUME IInv, ColumnsKept, issued \subseteq issued', dispatched' = dispatched
  PROVE  AtMostOneDispatch' /\ DispatchUnderDualCustody'
<1> USE DEF IInv, Safety
<1>1. AtMostOneDispatch'
  BY DEF AtMostOneDispatch
<1>2. ASSUME NEW q \in Quorums, NEW i \in DOMAIN dispatched[q]
      PROVE  \E s \in issued' :
                /\ s.quorum = q
                /\ s.approver # s.initiator
                /\ s.initiator = row'[q].initiator
                /\ s.proposal = dispatched[q][i].proposal
                /\ s.scope = dispatched[q][i].scope
  <2>1. PICK s \in issued : /\ s.quorum = q
                            /\ s.approver # s.initiator
                            /\ s.initiator = row[q].initiator
                            /\ s.proposal = dispatched[q][i].proposal
                            /\ s.scope = dispatched[q][i].scope
    BY DEF DispatchUnderDualCustody
  <2>2. row'[q].initiator = row[q].initiator
    BY <2>1 DEF IssuedIsSound, ColumnsKept
  <2> QED
    BY <2>1, <2>2
<1> QED
  BY <1>1, <1>2 DEF DispatchUnderDualCustody

(* Signatures issued before stay sound when no row falls back to pending.  *)
LEMMA StaysSound ==
  ASSUME IInv, ColumnsKept,
         \A q \in Quorums : row'[q].status = "PENDING_SECOND_SIGNATURE"
                              => row[q].status \in {"NONE", "PENDING_SECOND_SIGNATURE"}
  PROVE  \A s \in issued :
            /\ s.approver # s.initiator
            /\ s.initiator = row'[s.quorum].initiator
            /\ s.proposal = row'[s.quorum].proposal
            /\ s.scope = row'[s.quorum].scope
            /\ row'[s.quorum].status \notin {"NONE", "PENDING_SECOND_SIGNATURE"}
<1>1. \A s \in issued : s.quorum \in Quorums
  BY DEF IInv, TypeOK, Payload
<1> QED
  BY <1>1 DEF IInv, Safety, IssuedIsSound, ColumnsKept

LEMMA TickSafe ==
  ASSUME IInv, Tick
  PROVE  Safety'
<1> USE DEF IInv, Safety
<1>1. /\ row' = row /\ pc' = pc /\ req' = req /\ seen' = seen
      /\ issued' = issued /\ dispatched' = dispatched
  BY DEF Tick
<1>2. \A q \in Quorums : now > row[q].expiresAt => now' > row[q].expiresAt
  <2>1. now \in Nat /\ now' = now + 1
    BY ConstantsAssumption DEF Tick, TypeOK
  <2>2. ASSUME NEW q \in Quorums PROVE row[q].expiresAt \in Nat
    <3>1. row[q] \in Row => row[q].expiresAt \in Time
      BY DEF Row
    <3>2. row[q] = NoRow => row[q].expiresAt = 0
      BY DEF NoRow
    <3> QED
      BY <3>1, <3>2, TimeType DEF TypeOK
  <2> QED
    BY <2>1, <2>2
<1>3. CheckedBeforeUpdate'
  BY <1>1, <1>2 DEF CheckedBeforeUpdate, SeenIsCurrent
<1>4. ExpiredOnlyPastExpiry'
  BY <1>1, <1>2 DEF ExpiredOnlyPastExpiry
<1> QED
  BY <1>1, <1>3, <1>4
     DEF SeenIsCurrent, IssuedIsSound, OneFinalizer, SignaturesAreIssued,
         OneHolder, AtMostOneDispatch, DispatchUnderDualCustody

(* A check that succeeds sends the task to an update it is entitled to.    *)
ChecksOut(t) ==
    /\ pc[t] = "check"
    /\ \/ /\ Moves(t, "finalize")
          /\ req[t].user \in Users /\ req[t].user # seen[t].initiator
       \/ /\ Moves(t, "spend")
          /\ \E s \in issued : /\ s.quorum = req[t].quorum
                               /\ s.proposal = req[t].proposal
                               /\ s.scope = req[t].scope
       \/ /\ Moves(t, "expire")
          /\ now > row[req[t].quorum].expiresAt

(* Steps that only read or check: the tables and the clock stay, and task  *)
(* t either leaves or goes on to an update it has checked.                 *)
LEMMA QuietSafe ==
  ASSUME IInv, NEW t \in Tasks, OthersKeep(t),
         row' = row, now' = now, issued' = issued, dispatched' = dispatched,
         Leaves(t) \/ ChecksOut(t)
  PROVE  Safety'
<1> USE DEF IInv, Safety
<1>1. SeenIsCurrent'
  <2>1. ColumnsKept
    BY DEF ColumnsKept
  <2> QED
    BY <2>1, StaysCurrent DEF ChecksOut, Moves
<1>2. SignaturesAreIssued'
  BY DEF SignaturesAreIssued, OthersKeep, Leaves, ChecksOut, Moves, NoRow
<1>3. CheckedBeforeUpdate'
  BY DEF CheckedBeforeUpdate, OthersKeep, Leaves, ChecksOut, Moves
<1>4. OneHolder'
  BY DEF OneHolder, OthersKeep, Leaves, ChecksOut, Moves
<1> QED
  BY <1>1, <1>2, <1>3, <1>4
     DEF IssuedIsSound, OneFinalizer, AtMostOneDispatch,
         DispatchUnderDualCustody, ExpiredOnlyPastExpiry

LEMMA GiveUpSafe ==
  ASSUME IInv, NEW t \in Tasks, DispatchUnavailable(t) \/ Crash(t)
  PROVE  Safety'
  BY QuietSafe, ReturnMeans DEF DispatchUnavailable, Crash, IInv

LEMMA ReadSafe ==
  ASSUME IInv, NEW t \in Tasks, NEW r \in Request, ReadRow(t, r)
  PROVE  Safety'
<1> USE DEF IInv, Safety
<1>1. /\ OthersKeep(t)
      /\ pc'[t] = "check" /\ req'[t] = r /\ seen'[t] = row[r.quorum]
  BY DEF ReadRow, TypeOK, OthersKeep
<1>2. /\ row' = row /\ now' = now /\ issued' = issued
      /\ dispatched' = dispatched
  BY DEF ReadRow
<1>3. r.quorum \in Quorums /\ row[r.quorum].status # "NONE"
  <2>1. r.quorum \in Quorums
    BY DEF Request
  <2>2. row[r.quorum] \in Row
    BY <2>1 DEF ReadRow, TypeOK
  <2> QED
    BY <2>1, <2>2 DEF Row, Live, Terminal
<1>4. SeenIsCurrent'
  BY <1>1, <1>2, <1>3 DEF SeenIsCurrent, OthersKeep
<1>5. SignaturesAreIssued'
  BY <1>1, <1>2, <1>3 DEF SignaturesAreIssued, OthersKeep
<1>6. CheckedBeforeUpdate'
  BY <1>1, <1>2 DEF CheckedBeforeUpdate, OthersKeep
<1>7. OneHolder'
  BY <1>1, <1>2 DEF OneHolder, OthersKeep
<1> QED
  BY <1>2, <1>4, <1>5, <1>6, <1>7
     DEF IssuedIsSound, OneFinalizer, AtMostOneDispatch,
         DispatchUnderDualCustody, ExpiredOnlyPastExpiry

LEMMA SignCheckSafe ==
  ASSUME IInv, NEW t \in Tasks, SignCheck(t)
  PROVE  Safety'
<1> USE DEF IInv, Safety
<1>1. seen[t].expiresAt = row[req[t].quorum].expiresAt
  BY DEF SignCheck, SeenIsCurrent
<1>2. CASE Return(t)
  BY <1>2, QuietSafe, ReturnMeans DEF SignCheck
<1>3. CASE SeenExpired(t) /\ Goto(t, "expire")
  <2>1. ChecksOut(t) /\ OthersKeep(t)
    BY <1>1, <1>3, GotoMeans DEF SignCheck, ChecksOut, SeenExpired
  <2> QED
    BY <2>1, QuietSafe DEF SignCheck
<1>4. CASE MaySign(t) /\ GotoAt(t, "finalize")
  <2>1. req[t].user \in Users
    BY DEF SignCheck, TypeOK, Request, NoRequest
  <2>2. ChecksOut(t) /\ OthersKeep(t)
    BY <1>4, <2>1, GotoMeans DEF SignCheck, ChecksOut, MaySign
  <2> QED
    BY <2>2, QuietSafe DEF SignCheck
<1> QED
  BY <1>2, <1>3, <1>4 DEF SignCheck

LEMMA ValidateCheckSafe ==
  ASSUME IInv, NEW t \in Tasks, ValidateCheck(t)
  PROVE  Safety'
<1> USE DEF IInv, Safety
<1>1. seen[t].expiresAt = row[req[t].quorum].expiresAt
  BY DEF ValidateCheck, SeenIsCurrent
<1>2. CASE Return(t)
  BY <1>2, QuietSafe, ReturnMeans DEF ValidateCheck
<1>3. CASE SeenExpired(t) /\ Goto(t, "expire")
  <2>1. ChecksOut(t) /\ OthersKeep(t)
    BY <1>1, <1>3, GotoMeans DEF ValidateCheck, ChecksOut, SeenExpired
  <2> QED
    BY <2>1, QuietSafe DEF ValidateCheck
<1> QED
  BY <1>2, <1>3 DEF ValidateCheck

LEMMA ConsumeCheckSafe ==
  ASSUME IInv, NEW t \in Tasks, ConsumeCheck(t)
  PROVE  Safety'
<1> USE DEF IInv, Safety
<1>1. seen[t].expiresAt = row[req[t].quorum].expiresAt
  BY DEF ConsumeCheck, SeenIsCurrent
<1>2. CASE Return(t)
  BY <1>2, QuietSafe, ReturnMeans DEF ConsumeCheck
<1>3. CASE SeenExpired(t) /\ Goto(t, "expire")
  <2>1. ChecksOut(t) /\ OthersKeep(t)
    BY <1>1, <1>3, GotoMeans DEF ConsumeCheck, ChecksOut, SeenExpired
  <2> QED
    BY <2>1, QuietSafe DEF ConsumeCheck
<1>4. CASE Reached(t) /\ Covers(t) /\ GotoAt(t, "spend")
  <2>1. seen[t].sig \in issued
    BY <1>4 DEF Covers, SignatureVerifies, SignaturesAreIssued
  <2>2. /\ seen[t].sig.quorum = req[t].quorum
        /\ seen[t].sig.proposal = req[t].proposal
        /\ seen[t].sig.scope = req[t].scope
    BY <1>4 DEF Covers, Reached, SignatureVerifies, PayloadOf
  <2>3. ChecksOut(t) /\ OthersKeep(t)
    BY <1>4, <2>1, <2>2, GotoMeans DEF ConsumeCheck, ChecksOut
  <2> QED
    BY <2>3, QuietSafe DEF ConsumeCheck
<1> QED
  BY <1>2, <1>3, <1>4 DEF ConsumeCheck

LEMMA DispatchSafe ==
  ASSUME IInv, TypeOK', NEW t \in Tasks, Dispatch(t)
  PROVE  Safety'
<1> USE DEF IInv, Safety
<1> DEFINE q == req[t].quorum
           d == [proposal |-> req[t].proposal, scope |-> req[t].scope]
<1>1. OthersKeep(t) /\ Leaves(t)
  BY ReturnMeans DEF Dispatch
<1>2. row' = row /\ now' = now /\ issued' = issued
  BY DEF Dispatch
<1>3. q \in Quorums /\ dispatched[q] = <<>> /\ row[q].status = "CONSUMED"
  BY DEF Dispatch, SeenIsCurrent, OneHolder
<1>4. dispatched'[q] = <<d>> /\ \A r \in Quorums \ {q} : dispatched'[r] = dispatched[r]
  BY <1>3 DEF Dispatch, TypeOK
<1>5. PICK s \in issued : s.quorum = q /\ s.proposal = d.proposal /\ s.scope = d.scope
  BY DEF Dispatch, CheckedBeforeUpdate
<1> HIDE DEF d
<1>6. SeenIsCurrent'
  <2>1. ColumnsKept
    BY <1>2 DEF ColumnsKept
  <2> QED
    BY <1>1, <2>1, StaysCurrent
<1>7. SignaturesAreIssued'
  BY <1>1, <1>2 DEF SignaturesAreIssued, OthersKeep, Leaves, NoRow
<1>8. CheckedBeforeUpdate'
  BY <1>1, <1>2 DEF CheckedBeforeUpdate, OthersKeep, Leaves
<1>9. OneHolder'
  <2>1. \A u \in Tasks : pc'[u] = "dispatch" => u # t /\ req'[u].quorum # q
    BY <1>1 DEF OneHolder, OthersKeep, Leaves, Dispatch
  <2>2. \A u \in Tasks : pc'[u] = "dispatch" => req'[u].quorum \in Quorums
    BY <2>1, <1>1 DEF SeenIsCurrent, OthersKeep
  <2> HIDE DEF q
  <2> QED
    BY <1>1, <1>2, <1>3, <1>4, <2>1, <2>2 DEF OneHolder, OthersKeep
<1>10. AtMostOneDispatch'
  <2>1. Len(<<d>>) = 1
    OBVIOUS
  <2>2. Len(dispatched'[q]) <= 1
    BY <1>4, <2>1
  <2>3. \A r \in Quorums \ {q} : Len(dispatched'[r]) <= 1
    BY <1>4 DEF AtMostOneDispatch
  <2> HIDE DEF q
  <2> QED
    BY <2>2, <2>3 DEF AtMostOneDispatch
<1>11. DispatchUnderDualCustody'
  <2> SUFFICES ASSUME NEW r \in Quorums, NEW i \in DOMAIN dispatched'[r]
               PROVE  \E x \in issued :
                        /\ x.quorum = r
                        /\ x.approver # x.initiator
                        /\ x.initiator = row[r].initiator
                        /\ x.proposal = dispatched'[r][i].proposal
                        /\ x.scope = dispatched'[r][i].scope
    BY <1>2 DEF DispatchUnderDualCustody
  <2>1. CASE r = q
    <3>1. dispatched'[r][i] = d
      BY <2>1, <1>4
    <3> QED
      BY <2>1, <3>1, <1>5 DEF IssuedIsSound
  <2>2. CASE r # q
    BY <2>2, <1>4 DEF DispatchUnderDualCustody
  <2> QED
    BY <2>1, <2>2
<1> QED
  BY <1>2, <1>6, <1>7, <1>8, <1>9, <1>10, <1>11
     DEF IssuedIsSound, OneFinalizer, ExpiredOnlyPastExpiry

LEMMA ExpireSafe ==
  ASSUME IInv, NEW t \in Tasks, Expire(t)
  PROVE  Safety'
<1> USE DEF IInv, Safety
<1> DEFINE q == req[t].quorum
<1>1. OthersKeep(t) /\ Leaves(t)
  BY ReturnMeans DEF Expire
<1>2. now' = now /\ issued' = issued /\ dispatched' = dispatched
  BY DEF Expire
<1>3. CASE ~Expirable(q)
  BY <1>1, <1>2, <1>3, QuietSafe DEF Expire
<1>4. CASE Expirable(q)
  <2>1. q \in Quorums /\ now > row[q].expiresAt /\ row[q] \in Row
    BY BusyRow DEF Expire, CheckedBeforeUpdate
  <2>2. Updated(q, "EXPIRED") /\ row'[q].sig = row[q].sig
    BY <1>4, <2>1, SetStatusMeans DEF Expire, Terminal
  <2>3. row[q].status # "CONSUMED"
    BY <1>4 DEF Expirable, Live
  <2> HIDE DEF q
  <2>4. SeenIsCurrent'
    BY <1>1, <2>2, StaysCurrent DEF Updated
  <2>5. IssuedIsSound'
    BY <1>2, <2>1, <2>2, StaysSound DEF Updated, IssuedIsSound
  <2>6. SignaturesAreIssued'
    BY <1>1, <1>2, <2>2 DEF SignaturesAreIssued, OthersKeep, Leaves, NoRow, Updated
  <2>7. CheckedBeforeUpdate'
    BY <1>1, <1>2, <2>2
       DEF CheckedBeforeUpdate, SeenIsCurrent, OthersKeep, Leaves, Updated, ColumnsKept
  <2>8. OneHolder'
    BY <1>1, <1>2, <2>2, <2>3
       DEF OneHolder, SeenIsCurrent, OthersKeep, Leaves, Updated
  <2>9. AtMostOneDispatch' /\ DispatchUnderDualCustody'
    BY <1>2, <2>2, StaysApproved DEF Updated
  <2>10. ExpiredOnlyPastExpiry'
    <3>1. row'[q].expiresAt = row[q].expiresAt
      BY <1>4, <2>1, <2>2 DEF Updated, ColumnsKept, Row, Live, Terminal
    <3> QED
      BY <1>2, <2>1, <2>2, <3>1 DEF ExpiredOnlyPastExpiry, Updated
  <2> QED
    BY <1>2, <2>4, <2>5, <2>6, <2>7, <2>8, <2>9, <2>10 DEF OneFinalizer
<1> QED
  BY <1>3, <1>4

LEMMA SpendSafe ==
  ASSUME IInv, NEW t \in Tasks, Spend(t)
  PROVE  Safety'
<1> USE DEF IInv, Safety
<1> DEFINE q == req[t].quorum
<1>1. now' = now /\ issued' = issued /\ dispatched' = dispatched
  BY DEF Spend
<1>2. CASE ~Spendable(q, at[t])
  <2>1. OthersKeep(t) /\ Leaves(t) /\ row' = row
    BY <1>2, ReturnMeans DEF Spend
  <2> QED
    BY <1>1, <2>1, QuietSafe
<1>3. CASE Spendable(q, at[t])
  <2>1. OthersKeep(t) /\ Moves(t, "dispatch") /\ pc[t] = "spend"
    BY <1>3, GotoMeans DEF Spend
  <2>2. q \in Quorums /\ row[q] \in Row /\ row[q].status = "QUORUM_REACHED"
    BY <1>3, BusyRow DEF Spend, Spendable
  <2>3. Updated(q, "CONSUMED") /\ row'[q].sig = row[q].sig
    BY <1>3, <2>2, SetStatusMeans DEF Spend, Terminal
  <2>4. dispatched[q] = <<>> /\ \A u \in Tasks : pc[u] = "dispatch" => req[u].quorum # q
    BY <2>2 DEF OneHolder
  <2>5. req'[t] = req[t] /\ seen'[t] = seen[t] /\ pc'[t] = "dispatch"
    BY <2>1 DEF Moves
  <2>6. req'[t].quorum = q
    BY <2>5
  <2> HIDE DEF q
  <2>7. SeenIsCurrent'
    BY <2>1, <2>3, StaysCurrent DEF Updated, Moves
  <2>8. IssuedIsSound'
    BY <1>1, <2>3, StaysSound DEF Updated, IssuedIsSound
  <2>9. SignaturesAreIssued'
    BY <1>1, <2>1, <2>3, <2>5 DEF SignaturesAreIssued, OthersKeep, Updated
  <2>10. CheckedBeforeUpdate'
    BY <1>1, <2>1, <2>3, <2>5
       DEF CheckedBeforeUpdate, SeenIsCurrent, OthersKeep, Updated, ColumnsKept
  <2>11. OneHolder'
    <3>1. \A u \in Tasks \ {t} : pc'[u] = "dispatch" => /\ req'[u].quorum \in Quorums \ {q}
                                                       /\ pc[u] = "dispatch"
                                                       /\ req'[u].quorum = req[u].quorum
      BY <2>1, <2>4 DEF OthersKeep, SeenIsCurrent
    <3> QED
      BY <1>1, <2>3, <2>4, <2>5, <2>6, <3>1 DEF OneHolder, Updated
  <2>12. AtMostOneDispatch' /\ DispatchUnderDualCustody'
    BY <1>1, <2>3, StaysApproved DEF Updated
  <2>13. ExpiredOnlyPastExpiry'
    BY <1>1, <2>3 DEF ExpiredOnlyPastExpiry, Updated
  <2> QED
    BY <1>1, <2>7, <2>8, <2>9, <2>10, <2>11, <2>12, <2>13 DEF OneFinalizer
<1> QED
  BY <1>2, <1>3

LEMMA FinalizeSafe ==
  ASSUME IInv, TypeOK', NEW t \in Tasks, Finalize(t)
  PROVE  Safety'
<1> USE DEF IInv, Safety
<1> DEFINE q == req[t].quorum
           sig == PayloadOf(q, seen[t], req[t].user, at[t])
<1>1. now' = now /\ dispatched' = dispatched
  BY DEF Finalize
<1>2. OthersKeep(t) /\ Leaves(t)
  BY ReturnMeans DEF Finalize
<1>3. CASE ~Finalizable(q, at[t])
  BY <1>1, <1>2, <1>3, QuietSafe DEF Finalize
<1>4. CASE Finalizable(q, at[t])
  <2>1. /\ q \in Quorums /\ row[q] \in Row /\ seen[t] \in Row
        /\ row[q].status = "PENDING_SECOND_SIGNATURE"
        /\ req[t].user \in Users /\ req[t].user # seen[t].initiator
    BY <1>4, BusyRow DEF Finalize, Finalizable, CheckedBeforeUpdate
  <2>2. sig \in Payload /\ at[t] \in Time /\ issued' = issued \cup {sig}
    BY <1>4, <2>1 DEF Finalize, TypeOK, PayloadOf, Payload, Row
  <2>3. row' = [row EXCEPT ![q] =
                  [row[q] EXCEPT !.status = "QUORUM_REACHED",
                                 !.approver = req[t].user,
                                 !.sig = sig, !.finalizedAt = at[t]]]
    BY <1>4 DEF Finalize
  <2>4. Updated(q, "QUORUM_REACHED") /\ row'[q].sig = sig
    <3> DEFINE u == req[t].user
               f == at[t]
    <3>1. /\ q \in Quorums /\ row[q] \in Row /\ u \in Users
          /\ sig \in Payload \cup {NoSig} /\ f \in Time
          /\ row' = [row EXCEPT ![q] =
                [row[q] EXCEPT !.status = "QUORUM_REACHED", !.approver = u,
                               !.sig = sig, !.finalizedAt = f]]
      BY <2>1, <2>2, <2>3
    <3> HIDE DEF sig, q, u, f
    <3> QED
      BY <3>1, RewriteMeans
  <2>5. /\ sig.quorum = q /\ sig.approver # sig.initiator
        /\ sig.initiator = row[q].initiator
        /\ sig.proposal = row[q].proposal /\ sig.scope = row[q].scope
    BY <2>1 DEF PayloadOf, SeenIsCurrent, Finalize
  <2>6. \A s \in issued : s.quorum # q
    BY <2>1 DEF IssuedIsSound
  <2> HIDE DEF q, sig
  <2>7. SeenIsCurrent'
    BY <1>2, <2>4, StaysCurrent DEF Updated
  <2>8. IssuedIsSound'
    <3>1. \A s \in issued :
            /\ s.approver # s.initiator
            /\ s.initiator = row'[s.quorum].initiator
            /\ s.proposal = row'[s.quorum].proposal
            /\ s.scope = row'[s.quorum].scope
            /\ row'[s.quorum].status \notin {"NONE", "PENDING_SECOND_SIGNATURE"}
      BY <2>4, StaysSound DEF Updated
    <3>2. /\ row'[q].initiator = row[q].initiator
          /\ row'[q].proposal = row[q].proposal /\ row'[q].scope = row[q].scope
          /\ row'[q].status = "QUORUM_REACHED"
      BY <2>1, <2>4 DEF Updated, ColumnsKept
    <3> QED
      BY <2>2, <2>5, <3>1, <3>2 DEF IssuedIsSound
  <2>9. OneFinalizer'
    BY <2>2, <2>5, <2>6 DEF OneFinalizer
  <2>10. SignaturesAreIssued'
    BY <1>2, <2>2, <2>4 DEF SignaturesAreIssued, OthersKeep, Leaves, NoRow, Updated
  <2>11. CheckedBeforeUpdate'
    BY <1>1, <1>2, <2>2, <2>4
       DEF CheckedBeforeUpdate, SeenIsCurrent, OthersKeep, Leaves, Updated, ColumnsKept
  <2>12. OneHolder'
    BY <1>1, <1>2, <2>1, <2>4
       DEF OneHolder, SeenIsCurrent, OthersKeep, Leaves, Updated
  <2>13. AtMostOneDispatch' /\ DispatchUnderDualCustody'
    BY <1>1, <2>2, <2>4, StaysApproved DEF Updated
  <2>14. ExpiredOnlyPastExpiry'
    BY <1>1, <2>4 DEF ExpiredOnlyPastExpiry, Updated
  <2> QED
    BY <2>7, <2>8, <2>9, <2>10, <2>11, <2>12, <2>13, <2>14
<1> QED
  BY <1>3, <1>4

LEMMA DirectWriteSafe ==
  ASSUME IInv, TypeOK', NEW q \in Quorums, NEW u \in Users, NEW source \in Quorums,
         DirectWrite(q, u, source)
  PROVE  Safety'
<1> USE DEF IInv, Safety
<1>1. /\ now' = now /\ issued' = issued /\ dispatched' = dispatched
      /\ pc' = pc /\ req' = req /\ seen' = seen
  BY DEF DirectWrite
<1>2. row[q] \in Row /\ row[q].status # "CONSUMED"
  BY ExistingRow DEF DirectWrite, Live
<1>3. row[source].sig \in Payload \cup {NoSig} /\ row[source].finalizedAt \in Time
  BY TimeType DEF TypeOK, Row, NoRow
<1>4. Updated(q, "QUORUM_REACHED") /\ row'[q].sig = row[source].sig
  BY <1>2, <1>3, RewriteMeans DEF DirectWrite
<1>5. SeenIsCurrent'
  BY <1>1, <1>4 DEF SeenIsCurrent, Updated, ColumnsKept
<1>6. IssuedIsSound'
  BY <1>1, <1>4, StaysSound DEF Updated, IssuedIsSound
<1>7. SignaturesAreIssued'
  BY <1>1, <1>4 DEF SignaturesAreIssued, Updated
<1>8. CheckedBeforeUpdate'
  BY <1>1, <1>4 DEF CheckedBeforeUpdate, SeenIsCurrent, Updated, ColumnsKept
<1>9. OneHolder'
  BY <1>1, <1>2, <1>4 DEF OneHolder, SeenIsCurrent, Updated
<1>10. AtMostOneDispatch' /\ DispatchUnderDualCustody'
  BY <1>1, <1>4, StaysApproved DEF Updated
<1>11. ExpiredOnlyPastExpiry'
  BY <1>1, <1>4 DEF ExpiredOnlyPastExpiry, Updated
<1> QED
  BY <1>1, <1>5, <1>6, <1>7, <1>8, <1>9, <1>10, <1>11 DEF OneFinalizer

LEMMA InitiateSafe ==
  ASSUME IInv, TypeOK', NEW q \in Quorums, NEW u \in Users, NEW prop \in Proposals,
         NEW s \in Scopes, NEW ttl \in 0 .. (MaxTTL + 1),
         InitiateQuorum(q, u, prop, s, ttl)
  PROVE  Safety'
<1> USE DEF IInv, Safety
<1>1. /\ now' = now /\ issued' = issued /\ dispatched' = dispatched
      /\ pc' = pc /\ req' = req /\ seen' = seen
  BY DEF InitiateQuorum
<1>2. row[q].status = "NONE"
  BY DEF InitiateQuorum, NoRow
<1>3. Updated(q, "PENDING_SECOND_SIGNATURE") /\ row'[q].sig = NoSig
  BY <1>2 DEF InitiateQuorum, TypeOK, Updated, ColumnsKept
<1>4. SeenIsCurrent'
  BY <1>1, <1>3 DEF SeenIsCurrent, Updated, ColumnsKept
<1>5. IssuedIsSound'
  BY <1>1, <1>2, <1>3, StaysSound DEF Updated, IssuedIsSound
<1>6. SignaturesAreIssued'
  BY <1>1, <1>3 DEF SignaturesAreIssued, Updated
<1>7. CheckedBeforeUpdate'
  BY <1>1, <1>3 DEF CheckedBeforeUpdate, SeenIsCurrent, Updated, ColumnsKept
<1>8. OneHolder'
  BY <1>1, <1>2, <1>3 DEF OneHolder, SeenIsCurrent, Updated
<1>9. AtMostOneDispatch' /\ DispatchUnderDualCustody'
  BY <1>1, <1>3, StaysApproved DEF Updated
<1>10. ExpiredOnlyPastExpiry'
  BY <1>1, <1>3 DEF ExpiredOnlyPastExpiry, Updated
<1> QED
  BY <1>1, <1>4, <1>5, <1>6, <1>7, <1>8, <1>9, <1>10 DEF OneFinalizer

-----------------------------------------------------------------------------
(* The invariant and what follows from it *)

LEMMA InitSafe == Init => IInv
<1> SUFFICES ASSUME Init PROVE Safety
  BY InitType DEF IInv
<1>1. \A q \in Quorums : row[q] = NoRow /\ dispatched[q] = <<>>
  BY DEF Init
<1>2. \A t \in Tasks : pc[t] = "idle" /\ seen[t] = NoRow
  BY DEF Init
<1>3. issued = {}
  BY DEF Init
<1>4. AtMostOneDispatch
  <2> SUFFICES ASSUME NEW q \in Quorums PROVE Len(dispatched[q]) <= 1
    BY DEF AtMostOneDispatch
  <2>1. dispatched[q] = <<>>
    BY <1>1
  <2> QED
    BY <2>1
<1> QED
  BY <1>1, <1>2, <1>3, <1>4
     DEF Safety, SeenIsCurrent, IssuedIsSound, OneFinalizer, NoRow,
         SignaturesAreIssued, CheckedBeforeUpdate, OneHolder,
         DispatchUnderDualCustody, ExpiredOnlyPastExpiry

LEMMA StepSafe == IInv /\ [Next]_vars => IInv'
<1> SUFFICES ASSUME IInv, [Next]_vars PROVE Safety'
  BY StepType DEF IInv
<1>1. TypeOK'
  BY StepType
<1>2. CASE UNCHANGED vars
  BY <1>2 DEF vars, IInv, Safety, SeenIsCurrent, IssuedIsSound, OneFinalizer,
              SignaturesAreIssued, CheckedBeforeUpdate, OneHolder,
              AtMostOneDispatch, DispatchUnderDualCustody, ExpiredOnlyPastExpiry
<1>3. ASSUME NEW t \in Tasks, RequestArrives(t) PROVE Safety'
  <2>1. PICK r \in Request : ReadRow(t, r)
    BY <1>3 DEF RequestArrives, SignRequest, ValidateRequest, ConsumeRequest,
                Request
  <2> QED
    BY <2>1, ReadSafe
<1>4. ASSUME NEW t \in Tasks, TaskStep(t) \/ Crash(t) PROVE Safety'
  BY <1>1, <1>4, SignCheckSafe, FinalizeSafe, ExpireSafe, ValidateCheckSafe,
     ConsumeCheckSafe, SpendSafe, DispatchSafe, GiveUpSafe DEF TaskStep
<1> QED
  BY <1>1, <1>2, <1>3, <1>4, TickSafe, InitiateSafe, DirectWriteSafe DEF Next

(* The inductive invariant holds in every reachable state. *)
THEOREM Invariance == Spec => []IInv
  BY InitSafe, StepSafe, PTL DEF Spec

(* Every variable keeps its type, whatever the sizes of the instance. *)
THEOREM TypeCorrect == Spec => []TypeOK
<1>1. IInv => TypeOK
  BY DEF IInv
<1> QED
  BY <1>1, Invariance, PTL

(* One approval authorises at most one provider call: the second of any    *)
(* number of racing executions is refused, for every number of tasks.      *)
THEOREM SingleDispatch == Spec => []AtMostOneDispatch
<1>1. IInv => AtMostOneDispatch
  BY DEF IInv, Safety
<1> QED
  BY <1>1, Invariance, PTL

(* Every provider call had a second approver other than the initiator, who *)
(* signed this quorum for this proposal, action and target.                *)
THEOREM DualCustodyHolds == Spec => []DispatchUnderDualCustody
<1>1. IInv => DispatchUnderDualCustody
  BY DEF IInv, Safety
<1> QED
  BY <1>1, Invariance, PTL

(* At most one of any number of concurrent approvers finalizes a quorum.   *)
THEOREM UniqueFinalizer == Spec => []OneFinalizer
<1>1. IInv => OneFinalizer
  BY DEF IInv, Safety
<1> QED
  BY <1>1, Invariance, PTL

(* A quorum is marked EXPIRED only past its expiry.                        *)
THEOREM ExpiryIsReal == Spec => []ExpiredOnlyPastExpiry
<1>1. IInv => ExpiredOnlyPastExpiry
  BY DEF IInv, Safety
<1> QED
  BY <1>1, Invariance, PTL

(* A row in a final status is not the one a step rewrites. *)
LEMMA FinalRowKept ==
  ASSUME IInv, [Next]_vars, NEW q \in Quorums, row[q].status \in Terminal
  PROVE  row'[q] = row[q]
<1> USE DEF Terminal, Live
<1>0. row = [r \in Quorums |-> row[r]] /\ row[q] # NoRow
  BY DEF IInv, TypeOK, NoRow
<1>1. ASSUME NEW r \in Quorums, NEW u \in Users, NEW prop \in Proposals,
             NEW s \in Scopes, NEW ttl \in 0 .. (MaxTTL + 1),
             InitiateQuorum(r, u, prop, s, ttl)
      PROVE  row'[q] = row[q]
  BY <1>0, <1>1 DEF InitiateQuorum
<1>2. ASSUME NEW r \in Quorums, NEW u \in Users, NEW source \in Quorums,
             DirectWrite(r, u, source)
      PROVE  row'[q] = row[q]
  BY <1>0, <1>2 DEF DirectWrite
<1>3. ASSUME NEW t \in Tasks, Finalize(t) PROVE row'[q] = row[q]
  BY <1>0, <1>3 DEF Finalize, Finalizable
<1>4. ASSUME NEW t \in Tasks, Expire(t) PROVE row'[q] = row[q]
  BY <1>0, <1>4 DEF Expire, Expirable
<1>5. ASSUME NEW t \in Tasks, Spend(t) PROVE row'[q] = row[q]
  BY <1>0, <1>5 DEF Spend, Spendable
<1>6. ASSUME NEW t \in Tasks,
             \/ SignCheck(t) \/ ValidateCheck(t) \/ ConsumeCheck(t)
             \/ Dispatch(t) \/ DispatchUnavailable(t) \/ Crash(t)
             \/ RequestArrives(t)
      PROVE  row'[q] = row[q]
  BY <1>6 DEF SignCheck, ValidateCheck, ConsumeCheck, Dispatch,
              DispatchUnavailable, Crash, RequestArrives, ReadRow
<1>7. CASE Tick \/ UNCHANGED vars
  BY <1>7 DEF Tick, vars
<1> QED
  BY <1>1, <1>2, <1>3, <1>4, <1>5, <1>6, <1>7 DEF Next, TaskStep

(* CONSUMED and EXPIRED are final: no request that read the row before it  *)
(* reached one of them changes it, for any number of requests.             *)
THEOREM FinalityHolds == Spec => TerminalIsFinal
<1>1. IInv /\ [Next]_vars =>
        [\A q \in Quorums : row[q].status \in Terminal => row'[q] = row[q]]_row
  BY FinalRowKept
<1> QED
  BY <1>1, Invariance, PTL DEF Spec, TerminalIsFinal
-----------------------------------------------------------------------------
(* The service implements SingleUseApproval: every step is a step of one   *)
(* approval, or a stutter.                                                 *)

Phases == [q \in Quorums |-> PhaseOf(q)]
Openers == [q \in Quorums |-> row[q].initiator]
Countersigners == [q \in Quorums |-> CountersignerOf(q)]
Uses == [q \in Quorums |-> Len(dispatched[q])]

(* What is promised of an approval depends on these columns only. *)
LEMMA SameApproval ==
  ASSUME NEW q \in Quorums,
         \/ row'[q].status = row[q].status
         \/ row[q].status \in Live /\ row'[q].status \in Live,
         IssuedFor(q)' = IssuedFor(q)
  PROVE  PhaseOf(q)' = PhaseOf(q) /\ CountersignerOf(q)' = CountersignerOf(q)
BY DEF PhaseOf, CountersignerOf, Live

(* A step at one row leaves the other approvals alone. *)
LEMMA OtherApprovals ==
  ASSUME NEW q \in Quorums, \A r \in Quorums \ {q} : row'[r] = row[r],
         \A r \in Quorums \ {q} : IssuedFor(r)' = IssuedFor(r)
  PROVE  /\ Phases' = [Phases EXCEPT ![q] = PhaseOf(q)']
         /\ Openers' = [Openers EXCEPT ![q] = row'[q].initiator]
         /\ Countersigners' = [Countersigners EXCEPT ![q] = CountersignerOf(q)']
<1>1. \A r \in Quorums \ {q} : /\ PhaseOf(r)' = PhaseOf(r)
                               /\ CountersignerOf(r)' = CountersignerOf(r)
  BY SameApproval
<1> QED
  BY <1>1 DEF Phases, Openers, Countersigners

LEMMA ApprovalInit == Init => Approval!Init
<1> SUFFICES ASSUME Init PROVE Approval!Init
  OBVIOUS
<1>1. ASSUME NEW q \in Quorums
      PROVE  /\ PhaseOf(q) = "absent" /\ row[q].initiator = None
             /\ CountersignerOf(q) = None /\ Len(dispatched[q]) = 0
  <2>1. row[q] = NoRow /\ IssuedFor(q) = {} /\ dispatched[q] = <<>>
    BY DEF Init, IssuedFor
  <2> QED
    BY <2>1 DEF PhaseOf, CountersignerOf, NoRow
<1> QED
  BY <1>1 DEF Approval!Init

(* Rows that change columns other than those the promise is about *)
LEMMA ApprovalStutters ==
  ASSUME issued' = issued, dispatched' = dispatched,
         \A q \in Quorums : /\ row'[q].initiator = row[q].initiator
                            /\ \/ row'[q].status = row[q].status
                               \/ row[q].status \in Live /\ row'[q].status \in Live
  PROVE  UNCHANGED Approval!vars
<1>1. \A q \in Quorums : IssuedFor(q)' = IssuedFor(q)
  BY DEF IssuedFor
<1>2. \A q \in Quorums : PhaseOf(q)' = PhaseOf(q) /\ CountersignerOf(q)' = CountersignerOf(q)
  BY <1>1, SameApproval
<1> QED
  BY <1>2 DEF Approval!vars

LEMMA InitiateOpens ==
  ASSUME IInv, NEW q \in Quorums, NEW u \in Users, NEW prop \in Proposals,
         NEW s \in Scopes, NEW ttl \in 0 .. (MaxTTL + 1),
         InitiateQuorum(q, u, prop, s, ttl)
  PROVE  Approval!Next
<1>1. /\ row[q].status = "NONE" /\ row' = [row EXCEPT ![q] = row'[q]]
      /\ row'[q].status = "PENDING_SECOND_SIGNATURE" /\ row'[q].initiator = u
      /\ issued' = issued /\ dispatched' = dispatched
  BY DEF InitiateQuorum, NoRow, IInv, TypeOK
<1>2. IssuedFor(q) = {} /\ \A r \in Quorums : IssuedFor(r)' = IssuedFor(r)
  BY <1>1 DEF IInv, Safety, IssuedIsSound, IssuedFor
<1>3. PhaseOf(q) = "absent" /\ PhaseOf(q)' = "open"
  BY <1>1, <1>2 DEF PhaseOf
<1>4. CountersignerOf(q)' = CountersignerOf(q)
  BY <1>2 DEF CountersignerOf
<1>5. /\ Phases' = [Phases EXCEPT ![q] = "open"]
      /\ Openers' = [Openers EXCEPT ![q] = u]
      /\ Countersigners' = Countersigners /\ Uses' = Uses
  BY <1>1, <1>2, <1>3, <1>4, OtherApprovals DEF IInv, TypeOK, Countersigners, Uses
<1>6. Phases[q] = "absent"
  BY <1>3 DEF Phases
<1>7. Approval!Open(q, u)
  BY <1>5, <1>6 DEF Approval!Open, Phases, Openers, Countersigners, Uses
<1> QED
  BY <1>7 DEF Approval!Next

LEMMA FinalizeCountersigns ==
  ASSUME IInv, NEW t \in Tasks, Finalize(t), Finalizable(req[t].quorum, at[t])
  PROVE  Approval!Next
<1>1. /\ req[t].quorum \in Quorums /\ req[t].user \in Users
      /\ seen[t] \in Row /\ at[t] \in Time
  BY BusyRow DEF Finalize, IInv, Safety, CheckedBeforeUpdate, TypeOK
<1>2. PICK q \in Quorums, u \in Users, f \in Time :
         q = req[t].quorum /\ u = req[t].user /\ f = at[t]
  BY <1>1
<1>3. /\ u # row[q].initiator
      /\ row[q] \in Row /\ row[q].status = "PENDING_SECOND_SIGNATURE"
  BY <1>2, BusyRow DEF Finalize, Finalizable, IInv, Safety, CheckedBeforeUpdate, SeenIsCurrent
<1>4. PICK sig \in Payload : sig = PayloadOf(q, seen[t], u, f)
  BY <1>1 DEF PayloadOf, Payload, Row
<1>5. sig.quorum = q /\ sig.approver = u
  BY <1>4 DEF PayloadOf
<1>6. /\ issued' = issued \cup {sig} /\ dispatched' = dispatched
      /\ row' = [row EXCEPT ![q] =
            [row[q] EXCEPT !.status = "QUORUM_REACHED", !.approver = u,
                           !.sig = sig, !.finalizedAt = f]]
  BY <1>2, <1>4 DEF Finalize
<1>7. /\ \A r \in Quorums \ {q} : row'[r] = row[r]
      /\ row'[q].status = "QUORUM_REACHED" /\ row'[q].initiator = row[q].initiator
  <2>1. Updated(q, "QUORUM_REACHED")
    BY <1>3, <1>6, RewriteMeans DEF IInv
  <2> QED
    BY <1>3, <2>1 DEF Updated, ColumnsKept
<1>8. IssuedFor(q) = {} /\ IssuedFor(q)' = {sig}
      /\ \A r \in Quorums \ {q} : IssuedFor(r)' = IssuedFor(r)
  <2>1. \A s \in issued : s.quorum # q
    BY <1>3 DEF IInv, Safety, IssuedIsSound
  <2> QED
    BY <1>5, <1>6, <2>1 DEF IssuedFor
<1>9. PhaseOf(q) = "open" /\ PhaseOf(q)' = "approved" /\ CountersignerOf(q)' = u
  <2>1. PhaseOf(q) = "open"
    BY <1>3, <1>8 DEF PhaseOf
  <2>2. IssuedFor(q)' # {}
    BY <1>8
  <2>3. PhaseOf(q)' = "approved"
    BY <1>7, <2>2 DEF PhaseOf
  <2>4. (CHOOSE s \in {sig} : TRUE) = sig
    OBVIOUS
  <2>5. CountersignerOf(q)' = u
    BY <1>5, <1>8, <2>4 DEF CountersignerOf
  <2> QED
    BY <2>1, <2>3, <2>5
<1>10. /\ Phases' = [Phases EXCEPT ![q] = "approved"]
       /\ Countersigners' = [Countersigners EXCEPT ![q] = u]
  BY <1>7, <1>8, <1>9, OtherApprovals
<1>11. Openers' = Openers /\ Uses' = Uses
  BY <1>6, <1>7 DEF Openers, Uses
<1>12. Phases[q] = "open" /\ Openers[q] # u
  BY <1>3, <1>9 DEF Phases, Openers
<1>13. Approval!Countersign(q, u)
  BY <1>10, <1>11, <1>12 DEF Approval!Countersign, Phases, Openers, Countersigners, Uses
<1> QED
  BY <1>13 DEF Approval!Next

(* The two conditional updates that change the status only *)
LEMMA StatusMoves ==
  ASSUME IInv, NEW q \in Quorums, row[q] \in Row, NEW st \in Terminal,
         row' = [row EXCEPT ![q].status = st], issued' = issued, dispatched' = dispatched
  PROVE  /\ Phases' = [Phases EXCEPT ![q] = IF st = "CONSUMED" THEN "claimed" ELSE "lapsed"]
         /\ Openers' = Openers /\ Countersigners' = Countersigners /\ Uses' = Uses
<1>1. /\ \A r \in Quorums \ {q} : row'[r] = row[r]
      /\ row'[q].status = st /\ row'[q].initiator = row[q].initiator
  BY DEF IInv, TypeOK, Row
<1>2. IssuedFor(q)' = IssuedFor(q) /\ \A r \in Quorums : IssuedFor(r)' = IssuedFor(r)
  BY DEF IssuedFor
<1>3. PhaseOf(q)' = (IF st = "CONSUMED" THEN "claimed" ELSE "lapsed")
  BY <1>1 DEF PhaseOf, Terminal
<1>4. CountersignerOf(q)' = CountersignerOf(q)
  BY <1>2 DEF CountersignerOf
<1> QED
  <2>1. /\ Phases' = [Phases EXCEPT ![q] = PhaseOf(q)']
        /\ Countersigners' = [Countersigners EXCEPT ![q] = CountersignerOf(q)']
    BY <1>1, <1>2, OtherApprovals
  <2>2. Openers' = Openers /\ Uses' = Uses
    BY <1>1 DEF Openers, Uses
  <2>3. Countersigners' = Countersigners
    BY <1>4, <2>1 DEF Countersigners
  <2> QED
    BY <1>3, <2>1, <2>2, <2>3

LEMMA SpendClaims ==
  ASSUME IInv, NEW t \in Tasks, Spend(t), Spendable(req[t].quorum, at[t])
  PROVE  Approval!Next
<1>0. PICK q \in Quorums : q = req[t].quorum
  BY BusyRow DEF Spend, IInv, Safety
<1>1. /\ row[q] \in Row /\ row[q].status = "QUORUM_REACHED"
      /\ row' = [row EXCEPT ![q].status = "CONSUMED"]
      /\ issued' = issued /\ dispatched' = dispatched
  BY <1>0, BusyRow DEF Spend, Spendable, IInv, Safety
<1>2. IssuedFor(q) # {}
  BY <1>0 DEF Spend, IInv, Safety, CheckedBeforeUpdate, IssuedFor
<1>3. Phases[q] = "approved"
  BY <1>1, <1>2 DEF Phases, PhaseOf
<1>4. Phases' = [Phases EXCEPT ![q] = "claimed"]
      /\ Openers' = Openers /\ Countersigners' = Countersigners /\ Uses' = Uses
  BY <1>1, StatusMoves DEF Terminal
<1>5. Approval!Claim(q)
  BY <1>3, <1>4 DEF Approval!Claim, Phases, Openers, Countersigners, Uses
<1> QED
  BY <1>5 DEF Approval!Next

LEMMA ExpireLapses ==
  ASSUME IInv, NEW t \in Tasks, Expire(t), Expirable(req[t].quorum)
  PROVE  Approval!Next
<1>0. PICK q \in Quorums : q = req[t].quorum
  BY BusyRow DEF Expire, IInv, Safety
<1>1. /\ row[q] \in Row /\ row[q].status \in Live
      /\ row' = [row EXCEPT ![q].status = "EXPIRED"]
      /\ issued' = issued /\ dispatched' = dispatched
  BY <1>0, BusyRow DEF Expire, Expirable, IInv, Safety
<1>2. Phases[q] \in {"open", "approved"}
  BY <1>1 DEF Phases, PhaseOf, Live
<1>3. Phases' = [Phases EXCEPT ![q] = "lapsed"]
      /\ Openers' = Openers /\ Countersigners' = Countersigners /\ Uses' = Uses
  BY <1>1, StatusMoves DEF Terminal
<1>4. Approval!Lapse(q)
  BY <1>2, <1>3 DEF Approval!Lapse, Phases, Openers, Countersigners, Uses
<1> QED
  BY <1>4 DEF Approval!Next

LEMMA DispatchUses ==
  ASSUME IInv, NEW t \in Tasks, Dispatch(t)
  PROVE  Approval!Next
<1> DEFINE d == [proposal |-> req[t].proposal, scope |-> req[t].scope]
<1>0. PICK q \in Quorums : q = req[t].quorum
  BY DEF Dispatch, IInv, Safety, SeenIsCurrent
<1>1. /\ row[q].status = "CONSUMED" /\ dispatched[q] = <<>>
      /\ row' = row /\ issued' = issued
      /\ dispatched' = [dispatched EXCEPT ![q] = Append(dispatched[q], d)]
  BY <1>0 DEF Dispatch, IInv, Safety, OneHolder
<1> HIDE DEF d
<1>2. /\ Len(dispatched[q]) = 0 /\ Len(dispatched'[q]) = 1
      /\ \A r \in Quorums \ {q} : dispatched'[r] = dispatched[r]
  BY <1>1 DEF IInv, TypeOK
<1>3. Phases' = Phases /\ Openers' = Openers /\ Countersigners' = Countersigners
  BY <1>1 DEF Phases, Openers, Countersigners, PhaseOf, CountersignerOf, IssuedFor
<1>4. Uses' = [Uses EXCEPT ![q] = 1] /\ Uses[q] = 0
  BY <1>2 DEF Uses
<1>5. Phases[q] = "claimed"
  BY <1>1 DEF Phases, PhaseOf
<1>6. Approval!Use(q)
  BY <1>3, <1>4, <1>5 DEF Approval!Use, Phases, Openers, Countersigners, Uses
<1> QED
  BY <1>6 DEF Approval!Next

LEMMA ApprovalStep == IInv /\ [Next]_vars => [Approval!Next]_(Approval!vars)
<1> SUFFICES ASSUME IInv, [Next]_vars
             PROVE  Approval!Next \/ UNCHANGED Approval!vars
  OBVIOUS
<1>1. ASSUME NEW q \in Quorums, NEW u \in Users, NEW prop \in Proposals,
             NEW s \in Scopes, NEW ttl \in 0 .. (MaxTTL + 1),
             InitiateQuorum(q, u, prop, s, ttl)
      PROVE  Approval!Next
  BY <1>1, InitiateOpens
<1>2. ASSUME NEW q \in Quorums, NEW u \in Users, NEW source \in Quorums,
             DirectWrite(q, u, source)
      PROVE  UNCHANGED Approval!vars
  <2>1. row[q] \in Row /\ row[q].status \in Live
    BY <1>2, ExistingRow DEF DirectWrite, Live, IInv
  <2>2. row[source].sig \in Payload \cup {NoSig} /\ row[source].finalizedAt \in Time
    BY TimeType DEF IInv, TypeOK, Row, NoRow
  <2>3. Updated(q, "QUORUM_REACHED")
    BY <1>2, <2>1, <2>2, RewriteMeans DEF DirectWrite, IInv
  <2>4. row'[q].initiator = row[q].initiator
    BY <2>1, <2>3 DEF Updated, ColumnsKept, Live
  <2> QED
    BY <1>2, <2>1, <2>3, <2>4, ApprovalStutters DEF DirectWrite, Updated, Live
<1>3. ASSUME NEW t \in Tasks, Finalize(t)
      PROVE  Approval!Next \/ UNCHANGED Approval!vars
  BY <1>3, FinalizeCountersigns, ApprovalStutters DEF Finalize
<1>4. ASSUME NEW t \in Tasks, Expire(t)
      PROVE  Approval!Next \/ UNCHANGED Approval!vars
  BY <1>4, ExpireLapses, ApprovalStutters DEF Expire
<1>5. ASSUME NEW t \in Tasks, Spend(t)
      PROVE  Approval!Next \/ UNCHANGED Approval!vars
  BY <1>5, SpendClaims, ApprovalStutters DEF Spend
<1>6. ASSUME NEW t \in Tasks, Dispatch(t)
      PROVE  Approval!Next
  BY <1>6, DispatchUses
<1>7. ASSUME NEW t \in Tasks,
             \/ SignCheck(t) \/ ValidateCheck(t) \/ ConsumeCheck(t)
             \/ DispatchUnavailable(t) \/ Crash(t) \/ RequestArrives(t)
      PROVE  UNCHANGED Approval!vars
  BY <1>7, ApprovalStutters
     DEF SignCheck, ValidateCheck, ConsumeCheck, DispatchUnavailable, Crash,
         RequestArrives, ReadRow
<1>8. CASE Tick \/ UNCHANGED vars
  BY <1>8, ApprovalStutters DEF Tick, vars
<1> QED
  BY <1>1, <1>2, <1>3, <1>4, <1>5, <1>6, <1>7, <1>8 DEF Next, TaskStep

(* The quorum is a single-use approval whatever number of requests race    *)
(* for it: opened, countersigned by somebody else, claimed once and used   *)
(* once, also where rows are written around the service.                   *)
THEOREM ImplementsApproval == Spec => ImplementsSingleUseApproval
<1> QED
  BY ApprovalInit, ApprovalStep, Invariance, PTL
     DEF Spec, ImplementsSingleUseApproval, Approval!Spec
=============================================================================
