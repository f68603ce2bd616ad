----------------------------- MODULE AnchorChain -----------------------------
(***************************************************************************)
(* shield-anchor's checkpoints of one tenant (checkpoint-builder.service.ts *)
(* and tenant-anchor-head.service.ts).  A request reads the tenant's head, *)
(* signs, moves the head by compare-and-set together with the insert of    *)
(* the checkpoint, collects witness receipts and publishes.  The requester *)
(* may be gone by then: the anchor does not notice.                        *)
(***************************************************************************)
EXTENDS Naturals, FiniteSets

CONSTANTS
    Requests,       \* in-flight checkpoint requests
    MaxCheckpoints  \* bound on the checkpoints of the tenant

ASSUME MaxCheckpointsAssumption == MaxCheckpoints \in Nat

VARIABLES
    head,         \* TenantAnchorHead: last_anchor_sequence and version
    checkpoints,  \* the Checkpoint table
    building      \* what build holds for each request

anchorVars == <<head, checkpoints, building>>

NoBuild == [pc |-> "none"]

AnchorInit ==
    /\ head = [sequence |-> 0, version |-> 0]
    /\ checkpoints = {}
    /\ building = [r \in Requests |-> NoBuild]

Published == {c \in checkpoints : c.status = "PUBLISHED"}

-----------------------------------------------------------------------------
(* build up to the signature: the head is read here and used later.        *)
ReadHead(r, subject) ==
    /\ building[r] = NoBuild
    /\ head.sequence < MaxCheckpoints
    /\ building' = [building EXCEPT ![r] =
          [pc |-> "commit", subject |-> subject,
           sequence |-> head.sequence + 1, version |-> head.version]]
    /\ UNCHANGED <<head, checkpoints>>

(* The transaction: the head moves only from the version read, and         *)
(* [tenant_id, anchor_sequence] is unique.                                 *)
HeadAnywhere(r) == TRUE  \* deviation: neither compared nor unique

HeadUnmoved(r) ==
    /\ head.version = building[r].version
    /\ \A c \in checkpoints : c.sequence # building[r].sequence

CommitHead(r) ==
    /\ building[r].pc = "commit"
    /\ IF HeadUnmoved(r)
       THEN /\ head' = [sequence |-> building[r].sequence,
                        version |-> head.version + 1]
            /\ checkpoints' = checkpoints \cup
                  {[sequence |-> building[r].sequence,
                    subject |-> building[r].subject, status |-> "SIGNED"]}
            /\ building' = [building EXCEPT ![r].pc = "witness"]
       ELSE /\ building' = [building EXCEPT ![r].pc = "failed"]
            /\ UNCHANGED <<head, checkpoints>>

(* Receipts are in: PUBLISHED, or collecting them failed.                  *)
Publish(r) ==
    /\ building[r].pc = "witness"
    /\ \/ /\ checkpoints' =
                {IF c.sequence = building[r].sequence
                 THEN [c EXCEPT !.status = "PUBLISHED"] ELSE c : c \in checkpoints}
          /\ building' = [building EXCEPT ![r].pc = "answer"]
       \/ /\ building' = [building EXCEPT ![r].pc = "failed"]
          /\ UNCHANGED checkpoints
    /\ UNCHANGED head

(* The response, a proof or an error, leaves; somebody awaits it or not.   *)
AnsweredEarly(r) == building[r].pc \in {"witness", "answer"} \* deviation: unpublished
Answered(r) == building[r].pc = "answer"

(* The instance dies, which its client sees as a failed request.           *)
AnchorCrash(r) ==
    /\ building[r].pc \in {"commit", "witness", "answer"}
    /\ building' = [building EXCEPT ![r].pc = "failed"]
    /\ UNCHANGED <<head, checkpoints>>

AnchorNext == \E r \in Requests : CommitHead(r) \/ Publish(r) \/ AnchorCrash(r)
=============================================================================
