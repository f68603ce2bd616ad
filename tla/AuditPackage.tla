---------------------------- MODULE AuditPackage ----------------------------
(***************************************************************************)
(* Audit packages of one tenant (shield-core, modules/audit-package): a    *)
(* package is built, validated, approved by another person, frozen under a *)
(* checkpoint of shield-anchor, and superseded by a new one.  Every        *)
(* operation reads the package, awaits, and writes by id without looking   *)
(* at the row again; any two may run at once on one package.               *)
(* A hash stands for the content it is of.                                 *)
(***************************************************************************)
EXTENDS AnchorChain, Sequences, SequencesExt

CONSTANTS
    Packages,
    Originals,    \* the packages create makes; others succeed one of them
    Users,
    Authors,      \* users who author evaluators or perform manual tests
    Qualities,    \* what a manifest core can be worth, see Core
    None,
    MaxCores,     \* bound on the manifest contents produced
    MaxApprovals  \* bound on the approvals of a package

ASSUME AuditPackageAssumption ==
    /\ {MaxCores, MaxApprovals} \subseteq Nat
    /\ Originals \subseteq Packages
    /\ Qualities \subseteq {"ready", "unverified", "lacking"}
    /\ None \notin Users \cup Packages

VARIABLES
    row,        \* the AuditPackage table
    manifest,   \* AuditPackageManifest: the core, and the final content
    approvals,  \* AuditPackageApproval, by approved_at
    cores,      \* how many manifest contents there have been
    task,       \* what each request in shield-core holds
    stages      \* auxiliary: the Gates each package has been through

packageVars == <<row, manifest, approvals, cores, stages>>
vars == <<anchorVars, packageVars, task>>

Tasks == Requests

(* A manifest core.  "unverified" passes the completeness columns approve  *)
(* looks at but not validation; "lacking" passes neither.                  *)
Core == [n: Nat, quality: Qualities, authors: SUBSET Authors]

NoCore == [n |-> 0]
NoFinal == [core |-> NoCore]
NoPackage == [status |-> "NONE"]
Idle == [pc |-> "idle"]

Draft(u, original) ==
    [status |-> "DRAFT", createdBy |-> u, complete |-> FALSE, claim |-> FALSE,
     frozenHash |-> NoFinal, supersedes |-> original]

Init ==
    /\ AnchorInit
    /\ row = [p \in Packages |-> NoPackage]
    /\ manifest = [p \in Packages |-> [core |-> NoCore, final |-> NoFinal]]
    /\ approvals = [p \in Packages |-> <<>>]
    /\ cores = 0
    /\ task = [t \in Tasks |-> Idle]
    /\ stages = [p \in Packages |-> {}]

-----------------------------------------------------------------------------
(* ALLOWED_TRANSITIONS *)
CanMove(from, to) ==
    <<from, to>> \in
        ({"DRAFT", "INCOMPLETE"} \X {"BUILDING"})
        \cup {<<"BUILDING", "VALIDATING">>}
        \cup ({"VALIDATING"} \X {"READY_FOR_REVIEW", "INCOMPLETE"})
        \cup ({"READY_FOR_REVIEW", "REAPPROVAL_REQUIRED"} \X {"APPROVED"})
        \cup {<<"REAPPROVAL_REQUIRED", "READY_FOR_REVIEW">>}
        \cup ({"APPROVED"} \X {"FROZEN", "REAPPROVAL_REQUIRED"})
        \cup {<<"FROZEN", "SUPERSEDED">>}

Become(t, holding) == task' = [task EXCEPT ![t] = holding]
End(t) == Become(t, Idle)
Free(t) == task[t] = Idle /\ building[t] = NoBuild

Gates == {"VALIDATING", "READY_FOR_REVIEW", "APPROVED", "FROZEN"}

(* update by id: the status is written whatever it has become. *)
WriteRow(p, r) ==
    /\ row' = [row EXCEPT ![p] = r]
    /\ stages' = [stages EXCEPT ![p] = @ \cup ({r.status} \cap Gates)]

WriteStatus(p, status) == WriteRow(p, [row[p] EXCEPT !.status = status])

Create(p, u) ==
    /\ p \in Originals
    /\ row[p] = NoPackage
    /\ WriteRow(p, Draft(u, None))
    /\ UNCHANGED <<anchorVars, manifest, approvals, cores, task>>

-----------------------------------------------------------------------------
(* build *)

BuildRead(t, p) ==
    /\ Free(t)
    /\ CanMove(row[p].status, "BUILDING")
    /\ Become(t, [pc |-> "building", pkg |-> p])
    /\ UNCHANGED <<anchorVars, packageVars>>

BuildMark(t) ==
    /\ task[t].pc = "building"
    /\ WriteStatus(task[t].pkg, "BUILDING")
    /\ Become(t, [task[t] EXCEPT !.pc = "store"])
    /\ UNCHANGED <<anchorVars, manifest, approvals, cores>>

(* The content carries builtAt, so no two builds produce the same.         *)
BuildStore(t) ==
    /\ task[t].pc = "store"
    /\ cores < MaxCores
    /\ cores' = cores + 1
    /\ \E q \in Qualities, a \in SUBSET Authors :
          manifest' = [manifest EXCEPT ![task[t].pkg].core =
                          [n |-> cores + 1, quality |-> q, authors |-> a]]
    /\ Become(t, [task[t] EXCEPT !.pc = "built"])
    /\ UNCHANGED <<anchorVars, row, approvals, stages>>

BuildDone(t) ==
    /\ task[t].pc = "built"
    /\ WriteStatus(task[t].pkg, "VALIDATING")
    /\ End(t)
    /\ UNCHANGED <<anchorVars, manifest, approvals, cores>>

-----------------------------------------------------------------------------
(* validate *)

ValidateRead(t, p) ==
    /\ Free(t)
    /\ row[p].status \in {"VALIDATING", "REAPPROVAL_REQUIRED"}
    /\ Become(t, [pc |-> "validate", pkg |-> p, status |-> row[p].status])
    /\ UNCHANGED <<anchorVars, packageVars>>

Complete(core) == core.quality # "lacking"
Verdict(core) == IF core.quality = "ready" THEN "READY_FOR_REVIEW" ELSE "INCOMPLETE"

(* The manifest is judged, and the transition checked on the status read.  *)
ValidateManifest(t) ==
    LET core == manifest[task[t].pkg].core
    IN  /\ task[t].pc = "validate"
        /\ core # NoCore
        /\ CanMove(task[t].status, Verdict(core))
        /\ Become(t, [pc |-> "validated", pkg |-> task[t].pkg, core |-> core])
        /\ UNCHANGED <<anchorVars, packageVars>>

(* One transaction writes back the core it read, with or without the       *)
(* limitations that have arisen since, and what it concludes from it.      *)
ValidateWrite(t) ==
    LET p == task[t].pkg
    IN  /\ task[t].pc = "validated"
        /\ \/ /\ manifest' = [manifest EXCEPT ![p].core = task[t].core]
              /\ UNCHANGED cores
           \/ /\ cores < MaxCores
              /\ cores' = cores + 1
              /\ manifest' = [manifest EXCEPT ![p].core =
                                 [task[t].core EXCEPT !.n = cores + 1]]
        /\ WriteRow(p, [row[p] EXCEPT !.status = Verdict(task[t].core),
                                      !.complete = Complete(task[t].core),
                                      !.claim = FALSE])
        /\ End(t)
        /\ UNCHANGED <<anchorVars, approvals>>

-----------------------------------------------------------------------------
(* approve *)

ApprovableInAnyStatus(p, u) == \* deviation: no transition check
    row[p] # NoPackage /\ row[p].complete /\ row[p].createdBy # u

Approvable(p, u) ==
    /\ CanMove(row[p].status, "APPROVED")
    /\ row[p].complete
    /\ row[p].createdBy # u

ApproveRead(t, p, u) ==
    /\ Free(t)
    /\ Approvable(p, u)
    /\ Len(approvals[p]) < MaxApprovals
    /\ Become(t, [pc |-> "approve", pkg |-> p, user |-> u])
    /\ UNCHANGED <<anchorVars, packageVars>>

Independent(core, u) == u \notin core.authors

ApproveManifest(t) ==
    /\ task[t].pc = "approve"
    /\ manifest[task[t].pkg].core # NoCore
    /\ Independent(manifest[task[t].pkg].core, task[t].user)
    /\ Become(t, [pc |-> "permitted", pkg |-> task[t].pkg, user |-> task[t].user,
                  core |-> manifest[task[t].pkg].core])
    /\ UNCHANGED <<anchorVars, packageVars>>

(* The transaction, once the authorization decision is in. *)
ApproveWrite(t) ==
    LET p == task[t].pkg
    IN  /\ task[t].pc = "permitted"
        /\ approvals' = [approvals EXCEPT ![p] =
              Append(@, [core |-> task[t].core, approver |-> task[t].user])]
        /\ WriteStatus(p, "APPROVED")
        /\ End(t)
        /\ UNCHANGED <<anchorVars, manifest, cores>>

-----------------------------------------------------------------------------
(* freeze *)

FreezeRead(t, p) ==
    /\ Free(t)
    /\ CanMove(row[p].status, "FROZEN")
    /\ Become(t, [pc |-> "freeze", pkg |-> p])
    /\ UNCHANGED <<anchorVars, packageVars>>

FreezeManifest(t) ==
    /\ task[t].pc = "freeze"
    /\ manifest[task[t].pkg].core # NoCore
    /\ Become(t, [pc |-> "compare", pkg |-> task[t].pkg,
                  core |-> manifest[task[t].pkg].core])
    /\ UNCHANGED <<anchorVars, packageVars>>

NeverDrifted(core, approval) == FALSE \* deviation: the hash is not compared
Drifted(core, approval) == core # approval.core

(* The latest approval against the content read; then the ledger head.     *)
FreezeCompare(t) ==
    LET p == task[t].pkg
        latest == Last(approvals[p])
    IN  /\ task[t].pc = "compare"
        /\ approvals[p] # <<>>
        /\ IF Drifted(task[t].core, latest)
           THEN Become(t, [pc |-> "drifted", pkg |-> p])
           ELSE Become(t, [pc |-> "request", pkg |-> p, core |-> task[t].core,
                           approval |-> latest])
        /\ UNCHANGED <<anchorVars, packageVars>>

FreezeDrifted(t) ==
    /\ task[t].pc = "drifted"
    /\ WriteStatus(task[t].pkg, "REAPPROVAL_REQUIRED")
    /\ End(t)
    /\ UNCHANGED <<anchorVars, manifest, approvals, cores>>

RequestCheckpoint(t) ==
    /\ task[t].pc = "request"
    /\ ReadHead(t, [package |-> task[t].pkg, core |-> task[t].core])
    /\ Become(t, [task[t] EXCEPT !.pc = "anchor"])
    /\ UNCHANGED packageVars

CheckpointAnswer(t) ==
    /\ task[t].pc = "anchor"
    /\ Answered(t)
    /\ Become(t, [pc |-> "final", pkg |-> task[t].pkg,
                  final |-> [core |-> task[t].core, approval |-> task[t].approval,
                             proof |-> building[t].sequence]])
    /\ building' = [building EXCEPT ![t] = NoBuild]
    /\ UNCHANGED <<head, checkpoints, packageVars>>

CheckpointFailed(t) ==
    /\ building[t].pc = "failed"
    /\ building' = [building EXCEPT ![t] = NoBuild]
    /\ IF task[t].pc = "anchor" THEN End(t) ELSE UNCHANGED task
    /\ UNCHANGED <<head, checkpoints, packageVars>>

(* The answer to a request nobody awaits any more. *)
AnswerLost(t) ==
    /\ task[t].pc # "anchor"
    /\ Answered(t)
    /\ building' = [building EXCEPT ![t] = NoBuild]
    /\ UNCHANGED <<head, checkpoints, packageVars, task>>

FreezeStore(t) ==
    /\ task[t].pc = "final"
    /\ manifest' = [manifest EXCEPT ![task[t].pkg].final = task[t].final]
    /\ Become(t, [task[t] EXCEPT !.pc = "mark"])
    /\ UNCHANGED <<anchorVars, row, approvals, cores, stages>>

FreezeMark(t) ==
    LET p == task[t].pkg
    IN  /\ task[t].pc = "mark"
        /\ WriteRow(p, [row[p] EXCEPT !.status = "FROZEN",
                                      !.frozenHash = task[t].final])
        /\ Become(t, [pc |-> "assess", pkg |-> p])
        /\ UNCHANGED <<anchorVars, manifest, approvals, cores>>

(* assess, which freeze calls last: two reads, then one transaction *)
AssessRead(t) ==
    /\ task[t].pc = "assess"
    /\ Become(t, [pc |-> "weigh", pkg |-> task[t].pkg,
                  frozen |-> row[task[t].pkg].status = "FROZEN"])
    /\ UNCHANGED <<anchorVars, packageVars>>

AssessManifest(t) ==
    /\ task[t].pc = "weigh"
    /\ Become(t, [pc |-> "conclude", pkg |-> task[t].pkg, frozen |-> task[t].frozen,
                  seen |-> manifest[task[t].pkg]])
    /\ UNCHANGED <<anchorVars, packageVars>>

Eligible(frozen, core) == frozen /\ core.quality = "ready"

AssessWrite(t) ==
    LET p == task[t].pkg
        seen == task[t].seen
    IN  /\ task[t].pc = "conclude"
        /\ row' = [row EXCEPT
              ![p].complete = Complete(seen.core),
              ![p].claim = Eligible(task[t].frozen, seen.core),
              ![p].frozenHash = IF task[t].frozen THEN seen.final ELSE @]
        /\ End(t)
        /\ UNCHANGED <<anchorVars, manifest, approvals, cores, stages>>

-----------------------------------------------------------------------------
SupersedeRead(t, p) ==
    /\ Free(t)
    /\ row[p].status = "FROZEN"
    /\ Become(t, [pc |-> "supersede", pkg |-> p])
    /\ UNCHANGED <<anchorVars, packageVars>>

(* One transaction: the old package and its successor. *)
SupersedeWrite(t, q, u) ==
    LET p == task[t].pkg
    IN  /\ task[t].pc = "supersede"
        /\ row[q] = NoPackage
        /\ row' = [row EXCEPT ![p].status = "SUPERSEDED", ![q] = Draft(u, p)]
        /\ End(t)
        /\ UNCHANGED <<anchorVars, manifest, approvals, cores, stages>>

(* An error, a refused authorization or the death of the instance: the     *)
(* request ends where it is; a request under way at the anchor goes on.    *)
TaskFails(t) ==
    /\ task[t] # Idle
    /\ End(t)
    /\ UNCHANGED <<anchorVars, packageVars>>

Step(t) ==
    \/ BuildMark(t) \/ BuildStore(t) \/ BuildDone(t)
    \/ ValidateManifest(t) \/ ValidateWrite(t)
    \/ ApproveManifest(t) \/ ApproveWrite(t)
    \/ FreezeManifest(t) \/ FreezeCompare(t) \/ FreezeDrifted(t)
    \/ RequestCheckpoint(t) \/ CheckpointAnswer(t) \/ CheckpointFailed(t)
    \/ AnswerLost(t) \/ FreezeStore(t) \/ FreezeMark(t)
    \/ AssessRead(t) \/ AssessManifest(t) \/ AssessWrite(t)
    \/ TaskFails(t)

Start(t, p) ==
    \/ BuildRead(t, p) \/ ValidateRead(t, p) \/ FreezeRead(t, p) \/ SupersedeRead(t, p)
    \/ \E u \in Users : ApproveRead(t, p, u)

Next ==
    \/ AnchorNext /\ UNCHANGED <<packageVars, task>>
    \/ \E p \in Packages, u \in Users : Create(p, u)
    \/ \E t \in Tasks : \/ Step(t)
                        \/ \E p \in Packages : Start(t, p)
                        \/ \E q \in Packages, u \in Users : SupersedeWrite(t, q, u)

Spec == Init /\ [][Next]_vars

-----------------------------------------------------------------------------
Statuses == {"DRAFT", "BUILDING", "VALIDATING", "INCOMPLETE", "READY_FOR_REVIEW",
             "APPROVED", "REAPPROVAL_REQUIRED", "FROZEN", "SUPERSEDED"}

Approval == [core: Core, approver: Users]
Final == [core: Core, approval: Approval, proof: Nat] \cup {NoFinal}

(* Every variable keeps its type. *)
TypeOK ==
    /\ head \in [sequence: 0 .. MaxCheckpoints, version: 0 .. MaxCheckpoints]
    /\ checkpoints \subseteq [sequence: 1 .. head.sequence,
                              subject: [package: Packages, core: Core],
                              status: {"SIGNED", "PUBLISHED"}]
    /\ row \in [Packages ->
          [status: Statuses, createdBy: Users, complete: BOOLEAN, claim: BOOLEAN,
           frozenHash: Final, supersedes: Packages \cup {None}] \cup {NoPackage}]
    /\ manifest \in [Packages -> [core: Core \cup {NoCore}, final: Final]]
    /\ approvals \in [Packages -> Seq(Approval)]
    /\ cores \in 0 .. MaxCores
    /\ stages \in [Packages -> SUBSET Gates]

(* The envelopes a package shows: the manifest's, and the one its row      *)
(* recorded the hash of, which overlapping freezes can tell apart.         *)
Envelopes(p) ==
    ({manifest[p].final} \cup
     {row[q].frozenHash : q \in {p} \ {q \in Packages : row[q] = NoPackage}})
    \ {NoFinal}

(* An envelope holds exactly the content somebody other than its creator,  *)
(* and other than the authors of its evaluators, approved, however         *)
(* rebuilds, approvals and freezes overlap ("the exact manifestCoreHash a  *)
(* human approved", AuditPackageApproval).                                 *)
FrozenWasApproved ==
    \A p \in Packages : \A final \in Envelopes(p) :
        /\ final.approval \in ToSet(approvals[p])
        /\ final.core = final.approval.core
        /\ final.approval.approver # row[p].createdBy
        /\ final.approval.approver \notin final.core.authors

(* Its proof is a published checkpoint of this very content and package,   *)
(* though answers get lost and requests race for the head.                 *)
FrozenWasAnchored ==
    \A p \in Packages : \A final \in Envelopes(p) :
        \E c \in Published :
            /\ c.sequence = final.proof
            /\ c.subject = [package |-> p, core |-> final.core]

(* "DRAFT can never reach FROZEN without passing through VALIDATING,       *)
(* READY_FOR_REVIEW, APPROVED" (AuditPackageStateMachineService): of the   *)
(* status, it holds whatever overlaps.                                     *)
StagesArePassed ==
    \A p \in Packages : "FROZEN" \in stages[p] =>
        {"VALIDATING", "READY_FOR_REVIEW", "APPROVED"} \subseteq stages[p]

(* "A frozen package never mutates" (assertMutable): status and manifest   *)
(* stay, but for supersession.                                             *)
FrozenNeverMutates ==
    [][\A p \in Packages : row[p].status = "FROZEN" =>
          /\ row'[p].status \in {"FROZEN", "SUPERSEDED"}
          /\ manifest'[p] = manifest[p]]_vars
=============================================================================
