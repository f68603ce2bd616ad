-------------------------- MODULE AuditPackageProofs --------------------------
(***************************************************************************)
(* Proofs about AuditPackage and the AnchorChain under it, for any number  *)
(* of packages, requests, users, builds, approvals and checkpoints.        *)
(***************************************************************************)
EXTENDS AuditPackage, TLAPS

Rows == [status: Statuses, createdBy: Users, complete: BOOLEAN, claim: BOOLEAN,
         frozenHash: Final, supersedes: Packages \cup {None}]
Manifests == [core: Core \cup {NoCore}, final: Final]
Sealed == [core: Core, approval: Approval, proof: Nat]
Subjects == [package: Packages, core: Core]
Checkpoints == [sequence: Nat, subject: Subjects, status: {"SIGNED", "PUBLISHED"}]
Builds == [pc: {"commit", "witness", "answer", "failed"}, subject: Subjects,
           sequence: Nat, version: Nat]

(* What a request holds, by the point it is at. *)
AtPackage == [pc: {"building", "store", "built", "freeze", "drifted", "assess", "supersede"},
              pkg: Packages]
Validating == [pc: {"validate"}, pkg: Packages, status: {"VALIDATING", "REAPPROVAL_REQUIRED"}]
Judged == [pc: {"validated", "compare"}, pkg: Packages, core: Core]
Approving == [pc: {"approve"}, pkg: Packages, user: Users]
Permitted == [pc: {"permitted"}, pkg: Packages, user: Users, core: Core]
Anchoring == [pc: {"request", "anchor"}, pkg: Packages, core: Core, approval: Approval]
Sealing == [pc: {"final", "mark"}, pkg: Packages, final: Sealed]
Weighing == [pc: {"weigh"}, pkg: Packages, frozen: BOOLEAN]
Concluding == [pc: {"conclude"}, pkg: Packages, frozen: BOOLEAN, seen: Manifests]

Holdings == AtPackage \cup Validating \cup Judged \cup Approving \cup Permitted
            \cup Anchoring \cup Sealing \cup Weighing \cup Concluding \cup {Idle}

-----------------------------------------------------------------------------
(* The inductive invariant *)

Recorded(s, sequence, subject) ==
    \E c \in s : c.sequence = sequence /\ c.subject = subject

BuildOK(r) ==
    /\ building[r] # NoBuild => /\ building[r].sequence = building[r].version + 1
                                /\ building[r].sequence <= MaxCheckpoints
    /\ building[r].pc = "witness" =>
          Recorded(checkpoints, building[r].sequence, building[r].subject)
    /\ building[r].pc = "answer" =>
          Recorded(Published, building[r].sequence, building[r].subject)

AnchorOK ==
    /\ head \in [sequence: Nat, version: Nat]
    /\ head.version = head.sequence /\ head.sequence <= MaxCheckpoints
    /\ checkpoints \subseteq Checkpoints
    /\ \A c \in checkpoints : c.sequence \in 1 .. head.sequence
    /\ building \in [Requests -> Builds \cup {NoBuild}]
    /\ \A r \in Requests : BuildOK(r)

(* An envelope of a package: approved by somebody and anchored. *)
EnvelopeOK(p, f) ==
    /\ f \in Sealed
    /\ f.approval \in ToSet(approvals[p])
    /\ f.core = f.approval.core
    /\ Recorded(Published, f.proof, [package |-> p, core |-> f.core])

PackageOK(p) ==
    /\ \A a \in ToSet(approvals[p]) :
          /\ row[p] # NoPackage
          /\ a.approver # row[p].createdBy
          /\ a.approver \notin a.core.authors
    /\ manifest[p].final # NoFinal => EnvelopeOK(p, manifest[p].final)
    /\ row[p] # NoPackage /\ row[p].frozenHash # NoFinal => EnvelopeOK(p, row[p].frozenHash)
    /\ row[p].status \in Gates => row[p].status \in stages[p]
    /\ row[p].status = "REAPPROVAL_REQUIRED" => "APPROVED" \in stages[p]
    /\ "READY_FOR_REVIEW" \in stages[p] => "VALIDATING" \in stages[p]
    /\ "APPROVED" \in stages[p] => "READY_FOR_REVIEW" \in stages[p]
    /\ "FROZEN" \in stages[p] => "APPROVED" \in stages[p]

TablesOK ==
    /\ row \in [Packages -> Rows \cup {NoPackage}]
    /\ manifest \in [Packages -> Manifests]
    /\ approvals \in [Packages -> Seq(Approval)]
    /\ cores \in 0 .. MaxCores
    /\ stages \in [Packages -> SUBSET Gates]
    /\ task \in [Tasks -> Holdings]

(* What a request that holds h has read is still true, as far as it will   *)
(* be relied on: approvals are never taken back, nor checkpoints, and a    *)
(* package keeps its creator and the stages it has been through.           *)
HoldingOK(t, h) ==
    /\ h \in Holdings
    /\ h # Idle => row[h.pkg] # NoPackage
    /\ h.pc = "validate" => "VALIDATING" \in stages[h.pkg]
    /\ h.pc = "validated" => "VALIDATING" \in stages[h.pkg]
    /\ h.pc \in {"approve", "permitted"} =>
          "READY_FOR_REVIEW" \in stages[h.pkg] /\ h.user # row[h.pkg].createdBy
    /\ h.pc = "permitted" => h.user \notin h.core.authors
    /\ h.pc \in {"freeze", "compare", "drifted", "request", "anchor", "final", "mark"} =>
          "APPROVED" \in stages[h.pkg]
    /\ h.pc \in {"request", "anchor"} =>
          h.approval \in ToSet(approvals[h.pkg]) /\ h.core = h.approval.core
    /\ h.pc = "anchor" =>
          building[t] # NoBuild /\ building[t].subject = [package |-> h.pkg, core |-> h.core]
    /\ h.pc \in {"final", "mark"} => EnvelopeOK(h.pkg, h.final)
    /\ h.pc = "conclude" /\ h.seen.final # NoFinal => EnvelopeOK(h.pkg, h.seen.final)

IInv ==
    /\ AnchorOK
    /\ TablesOK
    /\ \A p \in Packages : PackageOK(p)
    /\ \A t \in Tasks : HoldingOK(t, task[t])

LEMMA Shapes ==
  /\ NoPackage.status = "NONE" /\ NoPackage \notin Rows /\ Idle.pc = "idle" /\ NoBuild.pc = "none"
  /\ NoBuild \notin Builds
  /\ \A h \in Holdings : h.pc # "idle" <=> h # Idle
  /\ \A h \in Holdings : h # Idle => h.pkg \in Packages
BY DEF NoPackage, Rows, Statuses, Idle, NoBuild, Builds, Holdings, AtPackage, Validating, Judged, Approving,
       Permitted, Anchoring, Sealing, Weighing, Concluding

LEMMA ByPoint ==
  ASSUME NEW h \in Holdings
  PROVE  /\ h.pc \in {"building", "store", "built", "freeze", "drifted", "assess", "supersede"} => h \in AtPackage
         /\ h.pc = "validate" => h \in Validating
         /\ h.pc \in {"validated", "compare"} => h \in Judged
         /\ h.pc = "approve" => h \in Approving
         /\ h.pc = "permitted" => h \in Permitted
         /\ h.pc \in {"request", "anchor"} => h \in Anchoring
         /\ h.pc \in {"final", "mark"} => h \in Sealing
         /\ h.pc = "weigh" => h \in Weighing
         /\ h.pc = "conclude" => h \in Concluding
BY DEF Idle, Holdings, AtPackage, Validating, Judged, Approving, Permitted, Anchoring, Sealing,
       Weighing, Concluding

-----------------------------------------------------------------------------
(* What no step takes back. *)
Kept ==
    /\ \A p \in Packages : ToSet(approvals[p]) \subseteq ToSet(approvals'[p])
    /\ \A p \in Packages : stages[p] \subseteq stages'[p]
    /\ \A p \in Packages : row[p] # NoPackage =>
          row'[p] # NoPackage /\ row'[p].createdBy = row[p].createdBy
    /\ \A n, s : Recorded(Published, n, s) => Recorded(Published', n, s)

LEMMA EnvelopeKept ==
  ASSUME Kept, NEW p \in Packages, NEW f, EnvelopeOK(p, f)
  PROVE  EnvelopeOK(p, f)'
BY DEF Kept, EnvelopeOK

LEMMA HoldingKept ==
  ASSUME Kept, NEW t \in Tasks, NEW h, HoldingOK(t, h),
         h.pc = "anchor" => building'[t] # NoBuild /\ building'[t].subject = building[t].subject
  PROVE  HoldingOK(t, h)'
<1>1. CASE h = Idle
  BY <1>1, Shapes DEF HoldingOK
<1>2. CASE h # Idle
  <2>1. h \in Holdings /\ h.pkg \in Packages
    BY <1>2, Shapes DEF HoldingOK
  <2>2. /\ row'[h.pkg] # NoPackage /\ row'[h.pkg].createdBy = row[h.pkg].createdBy
        /\ stages[h.pkg] \subseteq stages'[h.pkg]
        /\ ToSet(approvals[h.pkg]) \subseteq ToSet(approvals'[h.pkg])
    BY <1>2, <2>1 DEF Kept, HoldingOK
  <2>3. \A f : EnvelopeOK(h.pkg, f) => EnvelopeOK(h.pkg, f)'
    BY <2>1, EnvelopeKept
  <2> QED BY <2>1, <2>2, <2>3 DEF HoldingOK
<1> QED BY <1>1, <1>2

LEMMA PackageKept ==
  ASSUME Kept, NEW p \in Packages, PackageOK(p),
         row'[p] = row[p], manifest'[p] = manifest[p], approvals'[p] = approvals[p],
         stages'[p] = stages[p]
  PROVE  PackageOK(p)'
<1>1. \A f : EnvelopeOK(p, f) => EnvelopeOK(p, f)'
  BY EnvelopeKept
<1> QED BY <1>1 DEF PackageOK

(* Each request is untouched, or right where it has got to. *)
LEMMA StepSafe ==
  ASSUME IInv, Kept, AnchorOK', TablesOK', \A p \in Packages : PackageOK(p)',
         \A t \in Tasks : \/ HoldingOK(t, task[t])'
                          \/ task'[t] = task[t] /\ building'[t] = building[t]
  PROVE  IInv'
<1>1. \A t \in Tasks : HoldingOK(t, task[t])'
  <2> SUFFICES ASSUME NEW t \in Tasks, task'[t] = task[t], building'[t] = building[t]
               PROVE  HoldingOK(t, task[t])'
    OBVIOUS
  <2>1. PICK h : h = task[t]
    OBVIOUS
  <2>2. HoldingOK(t, h)
    BY <2>1 DEF IInv
  <2>3. HoldingOK(t, h)'
    BY <2>2, HoldingKept DEF HoldingOK
  <2> QED BY <2>1, <2>3
<1> QED BY <1>1 DEF IInv

LEMMA NothingLost == UNCHANGED <<row, approvals, stages, checkpoints>> => Kept
BY DEF Kept, Published

(* Only what a request holds changes. *)
LEMMA ThinkSafe ==
  ASSUME IInv, NEW t \in Tasks, NEW h, HoldingOK(t, h), Become(t, h),
         UNCHANGED <<anchorVars, packageVars>>
  PROVE  IInv'
<1>1. UNCHANGED <<head, checkpoints, building, row, manifest, approvals, cores, stages>>
  BY DEF anchorVars, packageVars
<1>2. Kept
  BY <1>1, NothingLost
<1>3. /\ task' = [task EXCEPT ![t] = h] /\ h \in Holdings
  BY DEF Become, HoldingOK
<1>4. task' \in [Tasks -> Holdings] /\ task'[t] = h /\ \A u \in Tasks \ {t} : task'[u] = task[u]
  BY <1>3 DEF IInv, TablesOK
<1>5. AnchorOK'
  BY <1>1 DEF IInv, AnchorOK, BuildOK, Published
<1>6. TablesOK'
  BY <1>1, <1>4 DEF IInv, TablesOK
<1>7. \A p \in Packages : PackageOK(p)'
  BY <1>1, <1>2, PackageKept DEF IInv
<1>8. \A u \in Tasks : HoldingOK(u, task[u])'
  <2> TAKE u \in Tasks
  <2>1. PICK g : g = task'[u]
    OBVIOUS
  <2>2. HoldingOK(u, g)
    BY <1>4, <2>1 DEF IInv
  <2>3. g.pc = "anchor" => building'[u] # NoBuild /\ building'[u].subject = building[u].subject
    BY <1>1, <2>2 DEF HoldingOK
  <2>4. HoldingOK(u, g)'
    BY <1>2, <2>2, <2>3, HoldingKept
  <2> QED BY <2>1, <2>4
<1> QED BY <1>5, <1>6, <1>7, <1>8 DEF IInv

LEMMA EndsSafe ==
  ASSUME IInv, NEW t \in Tasks, TaskFails(t)
  PROVE  IInv'
<1>1. HoldingOK(t, Idle)
  BY Shapes DEF HoldingOK, Holdings
<1> QED BY <1>1, ThinkSafe DEF TaskFails, End

(* The reads that begin an operation. *)
LEMMA StartSafe ==
  ASSUME IInv, NEW t \in Tasks, NEW p \in Packages, Start(t, p)
  PROVE  IInv'
<1> USE Shapes
<1>0. PackageOK(p) /\ (row[p] = NoPackage => row[p].status = "NONE")
  BY DEF IInv
<1>1. CASE BuildRead(t, p)
  <2>1. row[p] # NoPackage
    BY <1>0, <1>1 DEF BuildRead, CanMove
  <2> DEFINE h == [pc |-> "building", pkg |-> p]
  <2>2. h \in Holdings /\ h.pc = "building" /\ h.pkg = p
    BY DEF Holdings, AtPackage
  <2> HIDE DEF h
  <2>3. HoldingOK(t, h)
    BY <2>1, <2>2 DEF HoldingOK
  <2> QED BY <1>1, <2>3, ThinkSafe DEF BuildRead, h
<1>2. CASE ValidateRead(t, p)
  <2>1. row[p] # NoPackage /\ row[p].status \in {"VALIDATING", "REAPPROVAL_REQUIRED"}
    BY <1>0, <1>2 DEF ValidateRead
  <2>2. "VALIDATING" \in stages[p]
    BY <1>0, <2>1 DEF PackageOK, Gates
  <2> DEFINE h == [pc |-> "validate", pkg |-> p, status |-> row[p].status]
  <2>3. h \in Holdings /\ h.pc = "validate" /\ h.pkg = p
    BY <2>1 DEF Holdings, Validating
  <2> HIDE DEF h
  <2>4. HoldingOK(t, h)
    BY <2>1, <2>2, <2>3 DEF HoldingOK
  <2> QED BY <1>2, <2>4, ThinkSafe DEF ValidateRead, h
<1>3. CASE FreezeRead(t, p)
  <2>1. row[p] # NoPackage /\ row[p].status = "APPROVED"
    BY <1>0, <1>3 DEF FreezeRead, CanMove
  <2>2. "APPROVED" \in stages[p]
    BY <1>0, <2>1 DEF PackageOK, Gates
  <2> DEFINE h == [pc |-> "freeze", pkg |-> p]
  <2>3. h \in Holdings /\ h.pc = "freeze" /\ h.pkg = p
    BY DEF Holdings, AtPackage
  <2> HIDE DEF h
  <2>4. HoldingOK(t, h)
    BY <2>1, <2>2, <2>3 DEF HoldingOK
  <2> QED BY <1>3, <2>4, ThinkSafe DEF FreezeRead, h
<1>4. CASE SupersedeRead(t, p)
  <2>1. row[p] # NoPackage
    BY <1>0, <1>4 DEF SupersedeRead
  <2> DEFINE h == [pc |-> "supersede", pkg |-> p]
  <2>2. h \in Holdings /\ h.pc = "supersede" /\ h.pkg = p
    BY DEF Holdings, AtPackage
  <2> HIDE DEF h
  <2>3. HoldingOK(t, h)
    BY <2>1, <2>2 DEF HoldingOK
  <2> QED BY <1>4, <2>3, ThinkSafe DEF SupersedeRead, h
<1>5. ASSUME NEW u \in Users, ApproveRead(t, p, u)
      PROVE  IInv'
  <2>1. /\ row[p] # NoPackage /\ u # row[p].createdBy
        /\ row[p].status \in {"READY_FOR_REVIEW", "REAPPROVAL_REQUIRED"}
    BY <1>0, <1>5 DEF ApproveRead, Approvable, CanMove
  <2>2. "READY_FOR_REVIEW" \in stages[p]
    BY <1>0, <2>1 DEF PackageOK, Gates
  <2> DEFINE h == [pc |-> "approve", pkg |-> p, user |-> u]
  <2>3. h \in Holdings /\ h.pc = "approve" /\ h.pkg = p /\ h.user = u
    BY DEF Holdings, Approving
  <2> HIDE DEF h
  <2>4. HoldingOK(t, h)
    BY <2>1, <2>2, <2>3 DEF HoldingOK
  <2> QED BY <1>5, <2>4, ThinkSafe DEF ApproveRead, h
<1> QED BY <1>1, <1>2, <1>3, <1>4, <1>5 DEF Start

(* What a request at work can rely on. *)
LEMMA Held ==
  ASSUME IInv, NEW t \in Tasks, NEW h, h = task[t]
  PROVE  /\ HoldingOK(t, h) /\ h \in Holdings
         /\ h.pc # "idle" =>
              /\ h.pkg \in Packages /\ row[h.pkg] # NoPackage /\ row[h.pkg] \in Rows
              /\ PackageOK(h.pkg) /\ manifest[h.pkg] \in Manifests
              /\ approvals[h.pkg] \in Seq(Approval)
<1>1. HoldingOK(t, h) /\ h \in Holdings
  BY DEF IInv, HoldingOK
<1> QED BY <1>1, Shapes DEF IInv, TablesOK, HoldingOK

(* The reads and checks in the middle of an operation. *)
LEMMA ValidateManifestSafe ==
  ASSUME IInv, NEW t \in Tasks, ValidateManifest(t)
  PROVE  IInv'
<1>1. PICK h : h = task[t]
  OBVIOUS
<1>2. h.pc = "validate" /\ h \in Validating /\ manifest[h.pkg].core \in Core
  <2>1. h.pc = "validate" /\ manifest[h.pkg].core # NoCore
    BY <1>1 DEF ValidateManifest
  <2> QED BY <1>1, <2>1, Held, ByPoint DEF Manifests
<1> DEFINE g == [pc |-> "validated", pkg |-> h.pkg, core |-> manifest[h.pkg].core]
<1>3. g \in Holdings /\ g.pc = "validated" /\ g.pkg = h.pkg
  BY <1>2 DEF Holdings, Judged, Validating
<1>4. Become(t, g) /\ UNCHANGED <<anchorVars, packageVars>>
  BY <1>1 DEF ValidateManifest
<1> HIDE DEF g
<1>5. HoldingOK(t, g)
  <2>1. HoldingOK(t, h) /\ row[h.pkg] # NoPackage
    BY <1>1, <1>2, Held
  <2> QED BY <1>2, <1>3, <2>1 DEF HoldingOK
<1> QED BY <1>4, <1>5, ThinkSafe

LEMMA ApproveManifestSafe ==
  ASSUME IInv, NEW t \in Tasks, ApproveManifest(t)
  PROVE  IInv'
<1>1. PICK h : h = task[t]
  OBVIOUS
<1>2. h.pc = "approve" /\ h \in Approving /\ manifest[h.pkg].core \in Core
  <2>1. h.pc = "approve" /\ manifest[h.pkg].core # NoCore
    BY <1>1 DEF ApproveManifest
  <2> QED BY <1>1, <2>1, Held, ByPoint DEF Manifests
<1> DEFINE g == [pc |-> "permitted", pkg |-> h.pkg, user |-> h.user, core |-> manifest[h.pkg].core]
<1>3. /\ g \in Holdings /\ g.pc = "permitted" /\ g.pkg = h.pkg /\ g.user = h.user
      /\ g.core = manifest[h.pkg].core
  BY <1>2 DEF Holdings, Permitted, Approving
<1>4. Become(t, g) /\ UNCHANGED <<anchorVars, packageVars>> /\ h.user \notin manifest[h.pkg].core.authors
  BY <1>1 DEF ApproveManifest, Independent
<1> HIDE DEF g
<1>5. HoldingOK(t, g)
  <2>1. HoldingOK(t, h) /\ row[h.pkg] # NoPackage
    BY <1>1, <1>2, Held
  <2> QED BY <1>2, <1>3, <1>4, <2>1 DEF HoldingOK
<1> QED BY <1>4, <1>5, ThinkSafe

LEMMA FreezeManifestSafe ==
  ASSUME IInv, NEW t \in Tasks, FreezeManifest(t)
  PROVE  IInv'
<1>1. PICK h : h = task[t]
  OBVIOUS
<1>2. h.pc = "freeze" /\ h \in AtPackage /\ manifest[h.pkg].core \in Core
  <2>1. h.pc = "freeze" /\ manifest[h.pkg].core # NoCore
    BY <1>1 DEF FreezeManifest
  <2> QED BY <1>1, <2>1, Held, ByPoint DEF Manifests
<1> DEFINE g == [pc |-> "compare", pkg |-> h.pkg, core |-> manifest[h.pkg].core]
<1>3. g \in Holdings /\ g.pc = "compare" /\ g.pkg = h.pkg
  BY <1>2 DEF Holdings, Judged, AtPackage
<1>4. Become(t, g) /\ UNCHANGED <<anchorVars, packageVars>>
  BY <1>1 DEF FreezeManifest
<1> HIDE DEF g
<1>5. HoldingOK(t, g)
  <2>1. HoldingOK(t, h) /\ row[h.pkg] # NoPackage
    BY <1>1, <1>2, Held
  <2> QED BY <1>2, <1>3, <2>1 DEF HoldingOK
<1> QED BY <1>4, <1>5, ThinkSafe

LEMMA LastApproval ==
  ASSUME NEW s \in Seq(Approval), s # <<>>
  PROVE  Last(s) \in ToSet(s) /\ Last(s) \in Approval
<1>1. Len(s) \in Nat \ {0} /\ DOMAIN s = 1 .. Len(s)
  OBVIOUS
<1>2. Len(s) \in DOMAIN s
  BY <1>1
<1> QED BY <1>2 DEF Last, ToSet

LEMMA FreezeCompareSafe ==
  ASSUME IInv, NEW t \in Tasks, FreezeCompare(t)
  PROVE  IInv'
<1>1. PICK h : h = task[t]
  OBVIOUS
<1>2. h.pc = "compare" /\ h \in Judged /\ approvals[h.pkg] # <<>> /\ h.pkg \in Packages
  BY <1>1, Held, ByPoint DEF FreezeCompare
<1>3. PICK a : a = Last(approvals[h.pkg])
  OBVIOUS
<1>4. a \in ToSet(approvals[h.pkg]) /\ a \in Approval
  BY <1>1, <1>2, <1>3, Held, LastApproval
<1>5. "APPROVED" \in stages[h.pkg] /\ row[h.pkg] # NoPackage
  BY <1>1, <1>2, Held DEF HoldingOK
<1>6. UNCHANGED <<anchorVars, packageVars>>
  BY DEF FreezeCompare
<1>7. CASE h.core # a.core
  <2> DEFINE g == [pc |-> "drifted", pkg |-> h.pkg]
  <2>1. g \in Holdings /\ g.pc = "drifted" /\ g.pkg = h.pkg
    BY <1>2 DEF Holdings, AtPackage
  <2>2. Become(t, g)
    BY <1>1, <1>3, <1>7 DEF FreezeCompare, Drifted
  <2> HIDE DEF g
  <2>3. HoldingOK(t, g)
    BY <1>5, <2>1 DEF HoldingOK
  <2> QED BY <1>6, <2>2, <2>3, ThinkSafe
<1>8. CASE h.core = a.core
  <2> DEFINE g == [pc |-> "request", pkg |-> h.pkg, core |-> h.core, approval |-> a]
  <2>1. g \in Holdings /\ g.pc = "request" /\ g.pkg = h.pkg /\ g.core = h.core /\ g.approval = a
    BY <1>2, <1>4 DEF Holdings, Anchoring, Judged
  <2>2. Become(t, g)
    BY <1>1, <1>3, <1>8 DEF FreezeCompare, Drifted
  <2> HIDE DEF g
  <2>3. HoldingOK(t, g)
    BY <1>4, <1>5, <1>8, <2>1 DEF HoldingOK
  <2> QED BY <1>6, <2>2, <2>3, ThinkSafe
<1> QED BY <1>7, <1>8

LEMMA AssessReadSafe ==
  ASSUME IInv, NEW t \in Tasks, AssessRead(t)
  PROVE  IInv'
<1>1. PICK h : h = task[t]
  OBVIOUS
<1>2. h.pc = "assess" /\ h \in AtPackage
  BY <1>1, Held, ByPoint DEF AssessRead
<1> DEFINE g == [pc |-> "weigh", pkg |-> h.pkg, frozen |-> row[h.pkg].status = "FROZEN"]
<1>3. g \in Holdings /\ g.pc = "weigh" /\ g.pkg = h.pkg
  BY <1>2 DEF Holdings, Weighing, AtPackage
<1>4. Become(t, g) /\ UNCHANGED <<anchorVars, packageVars>>
  BY <1>1 DEF AssessRead
<1> HIDE DEF g
<1>5. HoldingOK(t, g)
  <2>1. HoldingOK(t, h) /\ row[h.pkg] # NoPackage
    BY <1>1, <1>2, Held
  <2> QED BY <1>2, <1>3, <2>1 DEF HoldingOK
<1> QED BY <1>4, <1>5, ThinkSafe

LEMMA AssessManifestSafe ==
  ASSUME IInv, NEW t \in Tasks, AssessManifest(t)
  PROVE  IInv'
<1>1. PICK h : h = task[t]
  OBVIOUS
<1>2. h.pc = "weigh" /\ h \in Weighing /\ h.pkg \in Packages /\ manifest[h.pkg] \in Manifests
  BY <1>1, Held, ByPoint DEF AssessManifest
<1> DEFINE g == [pc |-> "conclude", pkg |-> h.pkg, frozen |-> h.frozen, seen |-> manifest[h.pkg]]
<1>3. g \in Holdings /\ g.pc = "conclude" /\ g.pkg = h.pkg /\ g.seen = manifest[h.pkg]
  BY <1>2 DEF Holdings, Weighing, Concluding
<1>4. Become(t, g) /\ UNCHANGED <<anchorVars, packageVars>>
  BY <1>1 DEF AssessManifest
<1> HIDE DEF g
<1>5. HoldingOK(t, g)
  <2>1. HoldingOK(t, h) /\ row[h.pkg] # NoPackage /\ PackageOK(h.pkg)
    BY <1>1, <1>2, Held
  <2> QED BY <1>2, <1>3, <2>1 DEF HoldingOK, PackageOK
<1> QED BY <1>4, <1>5, ThinkSafe

-----------------------------------------------------------------------------
(* Writes to the tables *)
LEMMA AnchorUntouched ==
  ASSUME AnchorOK, UNCHANGED <<head, checkpoints, building>>
  PROVE  AnchorOK'
BY DEF AnchorOK, BuildOK, Published

LEMMA StatusWritten ==
  ASSUME NEW r \in Rows, NEW s \in Statuses, NEW n, n = [r EXCEPT !.status = s]
  PROVE  n \in Rows /\ n.status = s /\ n.createdBy = r.createdBy /\ n.frozenHash = r.frozenHash
BY DEF Rows

LEMMA ManifestCore ==
  ASSUME IInv, NEW p \in Packages, NEW c \in Core, manifest' = [manifest EXCEPT ![p].core = c]
  PROVE  /\ manifest' \in [Packages -> Manifests] /\ manifest'[p].final = manifest[p].final
         /\ \A q \in Packages \ {p} : manifest'[q] = manifest[q]
<1>1. manifest \in [Packages -> Manifests] /\ manifest[p] \in Manifests
  BY DEF IInv, TablesOK
<1>2. PICK m : m = [manifest[p] EXCEPT !.core = c]
  OBVIOUS
<1>3. m \in Manifests /\ m.final = manifest[p].final
  BY <1>1, <1>2 DEF Manifests
<1>4. manifest' = [manifest EXCEPT ![p] = m]
  BY <1>2
<1> QED BY <1>1, <1>3, <1>4

LEMMA ManifestFinal ==
  ASSUME IInv, NEW p \in Packages, NEW f \in Final, manifest' = [manifest EXCEPT ![p].final = f]
  PROVE  /\ manifest' \in [Packages -> Manifests] /\ manifest'[p].final = f
         /\ \A q \in Packages \ {p} : manifest'[q] = manifest[q]
<1>1. manifest \in [Packages -> Manifests] /\ manifest[p] \in Manifests
  BY DEF IInv, TablesOK
<1>2. PICK m : m = [manifest[p] EXCEPT !.final = f]
  OBVIOUS
<1>3. m \in Manifests /\ m.final = f
  BY <1>1, <1>2 DEF Manifests
<1>4. manifest' = [manifest EXCEPT ![p] = m]
  BY <1>2
<1> QED BY <1>1, <1>3, <1>4

LEMMA AppendToSet ==
  ASSUME NEW s \in Seq(Approval), NEW a \in Approval
  PROVE  ToSet(Append(s, a)) = ToSet(s) \cup {a}
<1> DEFINE u == Append(s, a)
<1>1. /\ u \in Seq(Approval) /\ Len(u) = Len(s) + 1 /\ Len(s) \in Nat /\ u[Len(s) + 1] = a
      /\ \A i \in 1 .. Len(s) : u[i] = s[i]
      /\ DOMAIN s = 1 .. Len(s) /\ DOMAIN u = 1 .. Len(s) + 1
  OBVIOUS
<1> HIDE DEF u
<1>2. ToSet(u) = ToSet(s) \cup {a}
  BY <1>1 DEF ToSet
<1> QED BY <1>2 DEF u

(* An update by id, by a request that goes on to h: what of the package    *)
(* has to be right for it.                                                 *)
LEMMA WriteSafe ==
  ASSUME IInv, NEW t \in Tasks, NEW p \in Packages, NEW r \in Rows, NEW h \in AtPackage \cup {Idle},
         row[p] \in Rows, WriteRow(p, r), r.createdBy = row[p].createdBy,
         r.frozenHash = row[p].frozenHash \/ EnvelopeOK(p, r.frozenHash),
         r.status \in {"REAPPROVAL_REQUIRED", "FROZEN"} => "APPROVED" \in stages[p],
         r.status = "READY_FOR_REVIEW" => "VALIDATING" \in stages[p],
         r.status = "APPROVED" => "READY_FOR_REVIEW" \in stages[p],
         Become(t, h), h.pc \in {"idle", "store", "assess"}, h # Idle => h.pkg = p,
         UNCHANGED anchorVars, cores' \in 0 .. MaxCores,
         manifest' \in [Packages -> Manifests], manifest'[p].final = manifest[p].final,
         approvals' \in [Packages -> Seq(Approval)],
         ToSet(approvals[p]) \subseteq ToSet(approvals'[p]),
         \A a \in ToSet(approvals'[p]) :
            a.approver # row[p].createdBy /\ a.approver \notin a.core.authors,
         \A q \in Packages \ {p} : manifest'[q] = manifest[q] /\ approvals'[q] = approvals[q]
  PROVE  IInv'
<1>1. /\ row \in [Packages -> Rows \cup {NoPackage}] /\ stages \in [Packages -> SUBSET Gates]
      /\ task \in [Tasks -> Holdings] /\ UNCHANGED <<head, checkpoints, building>>
  BY DEF IInv, TablesOK, anchorVars
<1>2. /\ row' \in [Packages -> Rows \cup {NoPackage}] /\ row'[p] = r /\ row'[p] # NoPackage
      /\ \A q \in Packages \ {p} : row'[q] = row[q]
      /\ row[p] # NoPackage
  BY <1>1, Shapes DEF WriteRow
<1>3. /\ stages' \in [Packages -> SUBSET Gates] /\ stages'[p] = stages[p] \cup ({r.status} \cap Gates)
      /\ \A q \in Packages \ {p} : stages'[q] = stages[q]
  BY <1>1 DEF WriteRow
<1>4. task' \in [Tasks -> Holdings] /\ task'[t] = h /\ \A u \in Tasks \ {t} : task'[u] = task[u]
  BY <1>1 DEF Become, Holdings
<1>5. TablesOK' /\ AnchorOK'
  BY <1>1, <1>2, <1>3, <1>4, AnchorUntouched DEF IInv, TablesOK
<1>6. Kept
  <2>1. Published' = Published
    BY <1>1 DEF Published
  <2> QED BY <1>2, <1>3, <2>1 DEF Kept
<1>7. PackageOK(p)'
  <2>1. PackageOK(p)
    BY DEF IInv
  <2>2. \A f : EnvelopeOK(p, f) => EnvelopeOK(p, f)'
    BY <1>6, EnvelopeKept
  <2>3. manifest'[p].final # NoFinal => EnvelopeOK(p, manifest[p].final)'
    BY <2>1, <2>2 DEF PackageOK
  <2>4. r.frozenHash # NoFinal => EnvelopeOK(p, r.frozenHash)'
    BY <1>2, <2>1, <2>2 DEF PackageOK
  <2>5. /\ r.status \in Gates => r.status \in stages'[p]
        /\ r.status = "REAPPROVAL_REQUIRED" => "APPROVED" \in stages'[p]
        /\ "READY_FOR_REVIEW" \in stages'[p] => "VALIDATING" \in stages'[p]
        /\ "APPROVED" \in stages'[p] => "READY_FOR_REVIEW" \in stages'[p]
        /\ "FROZEN" \in stages'[p] => "APPROVED" \in stages'[p]
    BY <1>3, <2>1 DEF PackageOK
  <2>6. PICK m : m = manifest'[p].final
    OBVIOUS
  <2>7. m # NoFinal => EnvelopeOK(p, m)'
    BY <2>2, <2>1, <2>6 DEF PackageOK
  <2> QED BY <1>2, <2>4, <2>5, <2>6, <2>7 DEF PackageOK
<1>8. \A q \in Packages : PackageOK(q)'
  BY <1>2, <1>3, <1>6, <1>7, PackageKept DEF IInv
<1>9. HoldingOK(t, h)'
  BY <1>2, Shapes DEF HoldingOK, Holdings
<1>10. HoldingOK(t, task[t])'
  BY <1>4, <1>9
<1> QED BY <1>1, <1>4, <1>5, <1>6, <1>8, <1>10, StepSafe

LEMMA ApprovalsOf ==
  ASSUME IInv, NEW p \in Packages
  PROVE  \A a \in ToSet(approvals[p]) :
            a.approver # row[p].createdBy /\ a.approver \notin a.core.authors
BY DEF IInv, PackageOK

LEMMA BuildMarkSafe ==
  ASSUME IInv, NEW t \in Tasks, BuildMark(t)
  PROVE  IInv'
<1>1. PICK h : h = task[t]
  OBVIOUS
<1>2. /\ h.pc = "building" /\ h \in AtPackage /\ h.pkg \in Packages /\ row[h.pkg] \in Rows
  BY <1>1, Held, ByPoint DEF BuildMark
<1>3. PICK p \in Packages : p = h.pkg
  BY <1>2
<1>4. PICK r : r = [row[p] EXCEPT !.status = "BUILDING"]
  OBVIOUS
<1>5. r \in Rows /\ r.status = "BUILDING" /\ r.createdBy = row[p].createdBy /\ r.frozenHash = row[p].frozenHash
  <2>1. "BUILDING" \in Statuses /\ row[p] \in Rows
    BY <1>2, <1>3 DEF Statuses
  <2> QED BY <1>4, <2>1, StatusWritten
<1>6. PICK g : g = [h EXCEPT !.pc = "store"]
  OBVIOUS
<1>7. g \in AtPackage /\ g.pc = "store" /\ g.pkg = p
  BY <1>2, <1>3, <1>6 DEF AtPackage
<1>8. /\ WriteRow(p, r) /\ Become(t, g) /\ UNCHANGED <<anchorVars, manifest, approvals, cores>>
  BY <1>1, <1>3, <1>4, <1>6 DEF BuildMark, WriteStatus
<1>9. ToSet(approvals'[p]) = ToSet(approvals[p])
  BY <1>8
<1> QED BY <1>2, <1>3, <1>5, <1>7, <1>8, <1>9, WriteSafe, ApprovalsOf DEF IInv, TablesOK

LEMMA BuildDoneSafe ==
  ASSUME IInv, NEW t \in Tasks, BuildDone(t)
  PROVE  IInv'
<1>1. PICK h : h = task[t]
  OBVIOUS
<1>2. h.pc = "built" /\ h.pkg \in Packages /\ row[h.pkg] \in Rows
  BY <1>1, Held DEF BuildDone
<1>3. PICK p \in Packages : p = h.pkg
  BY <1>2
<1>4. PICK r : r = [row[p] EXCEPT !.status = "VALIDATING"]
  OBVIOUS
<1>5. r \in Rows /\ r.status = "VALIDATING" /\ r.createdBy = row[p].createdBy /\ r.frozenHash = row[p].frozenHash
  <2>1. "VALIDATING" \in Statuses /\ row[p] \in Rows
    BY <1>2, <1>3 DEF Statuses
  <2> QED BY <1>4, <2>1, StatusWritten
<1>6. /\ WriteRow(p, r) /\ Become(t, Idle) /\ UNCHANGED <<anchorVars, manifest, approvals, cores>>
  BY <1>1, <1>3, <1>4 DEF BuildDone, WriteStatus, End
<1>7. ToSet(approvals'[p]) = ToSet(approvals[p])
  BY <1>6
<1> QED BY <1>2, <1>3, <1>5, <1>6, <1>7, WriteSafe, ApprovalsOf, Shapes DEF IInv, TablesOK

LEMMA FreezeDriftedSafe ==
  ASSUME IInv, NEW t \in Tasks, FreezeDrifted(t)
  PROVE  IInv'
<1>1. PICK h : h = task[t]
  OBVIOUS
<1>2. h.pc = "drifted" /\ h.pkg \in Packages /\ row[h.pkg] \in Rows /\ HoldingOK(t, h)
  BY <1>1, Held DEF FreezeDrifted
<1>3. PICK p \in Packages : p = h.pkg
  BY <1>2
<1>4. PICK r : r = [row[p] EXCEPT !.status = "REAPPROVAL_REQUIRED"]
  OBVIOUS
<1>5. /\ r \in Rows /\ r.status = "REAPPROVAL_REQUIRED" /\ r.createdBy = row[p].createdBy
      /\ r.frozenHash = row[p].frozenHash /\ "APPROVED" \in stages[p]
  <2>1. "APPROVED" \in stages[p]
    BY <1>2, <1>3 DEF HoldingOK
  <2>2. "REAPPROVAL_REQUIRED" \in Statuses /\ row[p] \in Rows
    BY <1>2, <1>3 DEF Statuses
  <2> QED BY <1>4, <2>1, <2>2, StatusWritten
<1>6. /\ WriteRow(p, r) /\ Become(t, Idle) /\ UNCHANGED <<anchorVars, manifest, approvals, cores>>
  BY <1>1, <1>3, <1>4 DEF FreezeDrifted, WriteStatus, End
<1>7. ToSet(approvals'[p]) = ToSet(approvals[p])
  BY <1>6
<1> QED BY <1>2, <1>3, <1>5, <1>6, <1>7, WriteSafe, ApprovalsOf, Shapes DEF IInv, TablesOK

LEMMA FreezeMarkSafe ==
  ASSUME IInv, NEW t \in Tasks, FreezeMark(t)
  PROVE  IInv'
<1>1. PICK h : h = task[t]
  OBVIOUS
<1>2. h.pc = "mark" /\ h.pkg \in Packages /\ row[h.pkg] \in Rows /\ HoldingOK(t, h)
  BY <1>1, Held DEF FreezeMark
<1>3. PICK p \in Packages : p = h.pkg
  BY <1>2
<1>4. EnvelopeOK(p, h.final) /\ "APPROVED" \in stages[p] /\ h.final \in Final
  BY <1>2, <1>3 DEF HoldingOK, EnvelopeOK, Final, Sealed
<1>5. PICK r : r = [row[p] EXCEPT !.status = "FROZEN", !.frozenHash = h.final]
  OBVIOUS
<1>6. r \in Rows /\ r.status = "FROZEN" /\ r.createdBy = row[p].createdBy /\ r.frozenHash = h.final
  <2>1. "FROZEN" \in Statuses /\ row[p] \in Rows
    BY <1>2, <1>3 DEF Statuses
  <2>2. PICK old \in Rows, f \in Final : old = row[p] /\ f = h.final
    BY <1>4, <2>1
  <2>3. r = [old EXCEPT !.status = "FROZEN", !.frozenHash = f]
    BY <1>5, <2>2
  <2>4. r \in Rows /\ r.status = "FROZEN" /\ r.createdBy = old.createdBy /\ r.frozenHash = f
    BY <2>1, <2>3 DEF Rows
  <2> QED BY <2>2, <2>4
<1>7. PICK g : g = [pc |-> "assess", pkg |-> p]
  OBVIOUS
<1>8. g \in AtPackage /\ g.pc = "assess" /\ g.pkg = p
  BY <1>7 DEF AtPackage
<1>9. /\ WriteRow(p, r) /\ Become(t, g) /\ UNCHANGED <<anchorVars, manifest, approvals, cores>>
  BY <1>1, <1>3, <1>5, <1>7 DEF FreezeMark
<1>10. ToSet(approvals'[p]) = ToSet(approvals[p])
  BY <1>9
<1> QED BY <1>2, <1>3, <1>4, <1>6, <1>8, <1>9, <1>10, WriteSafe, ApprovalsOf DEF IInv, TablesOK

LEMMA ValidateWriteSafe ==
  ASSUME IInv, NEW t \in Tasks, ValidateWrite(t)
  PROVE  IInv'
<1>1. PICK h : h = task[t]
  OBVIOUS
<1>2. /\ h.pc = "validated" /\ h \in Judged /\ h.pkg \in Packages /\ h.core \in Core
      /\ row[h.pkg] \in Rows /\ HoldingOK(t, h) /\ manifest[h.pkg] \in Manifests
  <2>1. h.pc = "validated"
    BY <1>1 DEF ValidateWrite
  <2>2. h \in Judged
    BY <1>1, <2>1, Held, ByPoint
  <2> QED BY <1>1, <2>1, <2>2, Held DEF Judged
<1>3. PICK p \in Packages : p = h.pkg
  BY <1>2
<1>4. PICK s \in {"READY_FOR_REVIEW", "INCOMPLETE"} : s = Verdict(h.core)
  BY DEF Verdict
<1>5. PICK b \in BOOLEAN : b = Complete(h.core)
  BY DEF Complete
<1>6. PICK r : r = [row[p] EXCEPT !.status = s, !.complete = b, !.claim = FALSE]
  OBVIOUS
<1>7. r \in Rows /\ r.status = s /\ r.createdBy = row[p].createdBy /\ r.frozenHash = row[p].frozenHash
  <2>1. s \in Statuses /\ row[p] \in Rows
    BY <1>2, <1>3 DEF Statuses
  <2>2. PICK old \in Rows : old = row[p]
    BY <2>1
  <2>3. r = [old EXCEPT !.status = s, !.complete = b, !.claim = FALSE]
    BY <1>6, <2>2
  <2>4. r \in Rows /\ r.status = s /\ r.createdBy = old.createdBy /\ r.frozenHash = old.frozenHash
    BY <2>1, <2>3 DEF Rows
  <2> QED BY <2>2, <2>4
<1>8. WriteRow(p, r) /\ Become(t, Idle) /\ UNCHANGED <<anchorVars, approvals>>
  BY <1>1, <1>3, <1>4, <1>5, <1>6 DEF ValidateWrite, End
<1>9. "VALIDATING" \in stages[p]
  BY <1>2, <1>3 DEF HoldingOK
<1>10. PICK c \in Core : /\ manifest' = [manifest EXCEPT ![p].core = c]
                         /\ cores' \in 0 .. MaxCores
  <2>1. cores \in 0 .. MaxCores /\ MaxCores \in Nat
    BY AuditPackageAssumption DEF IInv, TablesOK
  <2>2. CASE cores' = cores /\ manifest' = [manifest EXCEPT ![p].core = h.core]
    BY <1>2, <2>1, <2>2
  <2>3. CASE /\ cores < MaxCores /\ cores' = cores + 1
             /\ manifest' = [manifest EXCEPT ![p].core = [h.core EXCEPT !.n = cores + 1]]
    <3>1. [h.core EXCEPT !.n = cores + 1] \in Core
      BY <1>2, <2>1 DEF Core
    <3>2. cores' \in 0 .. MaxCores
      BY <2>1, <2>3
    <3> QED BY ONLY <2>3, <3>1, <3>2
  <2> QED BY <1>1, <1>3, <2>2, <2>3 DEF ValidateWrite
<1>11. /\ manifest' \in [Packages -> Manifests] /\ manifest'[p].final = manifest[p].final
       /\ \A q \in Packages \ {p} : manifest'[q] = manifest[q]
  BY <1>10, ManifestCore
<1>12. ToSet(approvals'[p]) = ToSet(approvals[p])
  BY <1>8
<1> QED BY <1>2, <1>3, <1>7, <1>8, <1>9, <1>10, <1>11, <1>12, WriteSafe, ApprovalsOf, Shapes
        DEF IInv, TablesOK

(* An approval joins those of the package. *)
LEMMA ApproveWriteSafe ==
  ASSUME IInv, NEW t \in Tasks, ApproveWrite(t)
  PROVE  IInv'
<1>1. PICK h : h = task[t]
  OBVIOUS
<1>2. /\ h.pc = "permitted" /\ h \in Permitted /\ h.pkg \in Packages /\ h.core \in Core /\ h.user \in Users
      /\ row[h.pkg] \in Rows /\ HoldingOK(t, h)
  <2>1. h.pc = "permitted"
    BY <1>1 DEF ApproveWrite
  <2>2. h \in Permitted
    BY <1>1, <2>1, Held, ByPoint
  <2> QED BY <1>1, <2>1, <2>2, Held DEF Permitted
<1>3. PICK p \in Packages : p = h.pkg
  BY <1>2
<1>4. PICK a : a = [core |-> h.core, approver |-> h.user]
  OBVIOUS
<1>5. /\ a \in Approval /\ a.approver # row[p].createdBy /\ a.approver \notin a.core.authors
      /\ "READY_FOR_REVIEW" \in stages[p]
  BY <1>2, <1>3, <1>4 DEF HoldingOK, Approval
<1>6. PICK r : r = [row[p] EXCEPT !.status = "APPROVED"]
  OBVIOUS
<1>7. r \in Rows /\ r.status = "APPROVED" /\ r.createdBy = row[p].createdBy /\ r.frozenHash = row[p].frozenHash
  <2>1. "APPROVED" \in Statuses /\ row[p] \in Rows
    BY <1>2, <1>3 DEF Statuses
  <2> QED BY <1>6, <2>1, StatusWritten
<1>8. /\ WriteRow(p, r) /\ Become(t, Idle) /\ UNCHANGED <<anchorVars, manifest, cores>>
      /\ approvals' = [approvals EXCEPT ![p] = Append(@, a)]
  BY <1>1, <1>3, <1>4, <1>6 DEF ApproveWrite, WriteStatus, End
<1>9. approvals \in [Packages -> Seq(Approval)]
  BY DEF IInv, TablesOK
<1>10. /\ approvals' \in [Packages -> Seq(Approval)] /\ approvals'[p] = Append(approvals[p], a)
       /\ \A q \in Packages \ {p} : approvals'[q] = approvals[q]
  BY <1>5, <1>8, <1>9
<1>11. ToSet(approvals'[p]) = ToSet(approvals[p]) \cup {a}
  BY <1>5, <1>9, <1>10, AppendToSet
<1> QED BY <1>2, <1>3, <1>5, <1>7, <1>8, <1>10, <1>11, WriteSafe, ApprovalsOf, Shapes
        DEF IInv, TablesOK

(* The manifest of a package is written, by a request that goes on to h.   *)
LEMMA StoreSafe ==
  ASSUME IInv, NEW t \in Tasks, NEW p \in Packages, NEW h, HoldingOK(t, h), Become(t, h),
         UNCHANGED <<anchorVars, row, approvals, stages>>, cores' \in 0 .. MaxCores,
         manifest' \in [Packages -> Manifests],
         \A q \in Packages \ {p} : manifest'[q] = manifest[q],
         manifest'[p].final = manifest[p].final \/ EnvelopeOK(p, manifest'[p].final)
  PROVE  IInv'
<1>1. /\ UNCHANGED <<head, checkpoints, building>> /\ h \in Holdings
      /\ task' \in [Tasks -> Holdings] /\ task'[t] = h /\ \A u \in Tasks \ {t} : task'[u] = task[u]
  BY DEF IInv, TablesOK, HoldingOK, Become, anchorVars
<1>2. Kept
  BY <1>1, NothingLost
<1>3. TablesOK' /\ AnchorOK'
  BY <1>1, AnchorUntouched DEF IInv, TablesOK
<1>4. PackageOK(p)'
  <2>1. PICK m : m = manifest'[p].final
    OBVIOUS
  <2>2. PackageOK(p) /\ (m # NoFinal => EnvelopeOK(p, m))
    BY <2>1 DEF IInv, PackageOK
  <2>3. \A f : EnvelopeOK(p, f) => EnvelopeOK(p, f)'
    BY <1>2, EnvelopeKept
  <2>4. PICK r : r = row[p].frozenHash
    OBVIOUS
  <2>5. row[p] # NoPackage /\ r # NoFinal => EnvelopeOK(p, r)'
    BY <2>2, <2>3, <2>4 DEF PackageOK
  <2>6. m # NoFinal => EnvelopeOK(p, m)'
    BY <2>2, <2>3
  <2> QED BY <2>1, <2>2, <2>4, <2>5, <2>6 DEF PackageOK
<1>5. \A q \in Packages : PackageOK(q)'
  BY <1>2, <1>4, PackageKept DEF IInv
<1>6. HoldingOK(t, h)'
  BY <1>1, <1>2, HoldingKept DEF HoldingOK
<1>7. HoldingOK(t, task[t])'
  BY <1>1, <1>6
<1> QED BY <1>1, <1>2, <1>3, <1>5, <1>7, StepSafe

LEMMA BuildStoreSafe ==
  ASSUME IInv, NEW t \in Tasks, BuildStore(t)
  PROVE  IInv'
<1>1. PICK h : h = task[t]
  OBVIOUS
<1>2. h.pc = "store" /\ h \in AtPackage /\ h.pkg \in Packages /\ HoldingOK(t, h)
  BY <1>1, Held, ByPoint DEF BuildStore
<1>3. PICK p \in Packages : p = h.pkg
  BY <1>2
<1>4. cores < MaxCores /\ cores' = cores + 1 /\ cores \in 0 .. MaxCores /\ MaxCores \in Nat
  BY AuditPackageAssumption DEF BuildStore, IInv, TablesOK
<1>5. PICK q \in Qualities, a \in SUBSET Authors :
         manifest' = [manifest EXCEPT ![p].core = [n |-> cores + 1, quality |-> q, authors |-> a]]
  BY <1>1, <1>3 DEF BuildStore
<1>6. PICK c \in Core : manifest' = [manifest EXCEPT ![p].core = c]
  <2>1. [n |-> cores + 1, quality |-> q, authors |-> a] \in Core
    BY <1>4 DEF Core
  <2> QED BY <1>5, <2>1
<1>7. /\ manifest' \in [Packages -> Manifests] /\ manifest'[p].final = manifest[p].final
      /\ \A r \in Packages \ {p} : manifest'[r] = manifest[r]
  BY <1>6, ManifestCore
<1>8. PICK g : g = [h EXCEPT !.pc = "built"]
  OBVIOUS
<1>9. g \in AtPackage /\ g.pc = "built" /\ g.pkg = p
  BY <1>2, <1>3, <1>8 DEF AtPackage
<1>10. HoldingOK(t, g)
  <2>1. row[p] # NoPackage
    BY <1>2, <1>3, Shapes DEF HoldingOK
  <2> QED BY <1>9, <2>1 DEF HoldingOK, Holdings
<1>11. Become(t, g) /\ UNCHANGED <<anchorVars, row, approvals, stages>>
  BY <1>1, <1>8 DEF BuildStore
<1>12. cores' \in 0 .. MaxCores
  BY <1>4
<1> QED BY <1>7, <1>10, <1>11, <1>12, StoreSafe

LEMMA FreezeStoreSafe ==
  ASSUME IInv, NEW t \in Tasks, FreezeStore(t)
  PROVE  IInv'
<1>1. PICK h : h = task[t]
  OBVIOUS
<1>2. h.pc = "final" /\ h \in Sealing /\ h.pkg \in Packages /\ HoldingOK(t, h)
  BY <1>1, Held, ByPoint DEF FreezeStore
<1>3. PICK p \in Packages, f \in Sealed : p = h.pkg /\ f = h.final
  BY <1>2 DEF Sealing
<1>4. EnvelopeOK(p, f) /\ f \in Final
  BY <1>2, <1>3 DEF HoldingOK, Final, Sealed
<1>5. manifest' = [manifest EXCEPT ![p].final = f]
  BY <1>1, <1>3 DEF FreezeStore
<1>6. /\ manifest' \in [Packages -> Manifests] /\ manifest'[p].final = f
      /\ \A r \in Packages \ {p} : manifest'[r] = manifest[r]
  BY <1>4, <1>5, ManifestFinal
<1>7. PICK g : g = [h EXCEPT !.pc = "mark"]
  OBVIOUS
<1>8. g \in Sealing /\ g.pc = "mark" /\ g.pkg = p /\ g.final = f
  BY <1>2, <1>3, <1>7 DEF Sealing
<1>9. HoldingOK(t, g)
  <2>1. row[p] # NoPackage /\ "APPROVED" \in stages[p]
    BY <1>2, <1>3, Shapes DEF HoldingOK
  <2> QED BY <1>4, <1>8, <2>1 DEF HoldingOK, Holdings
<1>10. Become(t, g) /\ UNCHANGED <<anchorVars, row, approvals, cores, stages>>
  BY <1>1, <1>7 DEF FreezeStore
<1>11. cores' \in 0 .. MaxCores
  BY <1>10 DEF IInv, TablesOK
<1> QED BY <1>4, <1>6, <1>9, <1>10, <1>11, StoreSafe

LEMMA IdleSafe == \A t : HoldingOK(t, Idle)'
BY Shapes DEF HoldingOK, Holdings

LEMMA AssessWriteSafe ==
  ASSUME IInv, NEW t \in Tasks, AssessWrite(t)
  PROVE  IInv'
<1>1. PICK h : h = task[t]
  OBVIOUS
<1>2. /\ h.pc = "conclude" /\ h \in Concluding /\ h.pkg \in Packages /\ HoldingOK(t, h)
      /\ row[h.pkg] \in Rows
  BY <1>1, Held, ByPoint DEF AssessWrite
<1>3. PICK p \in Packages, m \in Manifests : p = h.pkg /\ m = h.seen
  BY <1>2 DEF Concluding
<1>4. PICK x \in BOOLEAN, y \in BOOLEAN : x = Complete(m.core) /\ y = Eligible(h.frozen, m.core)
  BY <1>2 DEF Complete, Eligible, Concluding
<1>5. PICK f \in Final : /\ f = (IF h.frozen THEN m.final ELSE row[p].frozenHash)
                         /\ f = row[p].frozenHash \/ f = NoFinal \/ EnvelopeOK(p, f)
  <2>1. m.final \in Final /\ row[p].frozenHash \in Final
    BY <1>2, <1>3 DEF Manifests, Rows
  <2>2. m.final # NoFinal => EnvelopeOK(p, m.final)
    BY <1>2, <1>3 DEF HoldingOK
  <2> QED BY <2>1, <2>2
<1>6. row \in [Packages -> Rows \cup {NoPackage}] /\ task \in [Tasks -> Holdings]
  BY DEF IInv, TablesOK
<1>7. PICK old \in Rows : old = row[p]
  BY <1>2, <1>3
<1>8. PICK r : r = [old EXCEPT !.complete = x, !.claim = y, !.frozenHash = f]
  OBVIOUS
<1>9. r \in Rows /\ r.status = old.status /\ r.createdBy = old.createdBy /\ r.frozenHash = f
  BY <1>8 DEF Rows
<1>10. row' = [row EXCEPT ![p] = r]
  <2>1. row' = [row EXCEPT ![p].complete = x, ![p].claim = y,
                           ![p].frozenHash = IF h.frozen THEN m.final ELSE @]
    BY <1>1, <1>3, <1>4 DEF AssessWrite
  <2>2. row' = [row EXCEPT ![p] = [row[p] EXCEPT !.complete = x, !.claim = y,
                                     !.frozenHash = IF h.frozen THEN m.final ELSE @]]
    BY <1>6, <2>1
  <2>3. row'[p] = [old EXCEPT !.complete = x, !.claim = y,
                                     !.frozenHash = IF h.frozen THEN m.final ELSE @]
    BY <1>6, <1>7, <2>2
  <2>4. row'[p] = r
    BY <1>5, <1>7, <1>8, <2>3 DEF Rows
  <2>5. row' = [row EXCEPT ![p] = row'[p]]
    BY <1>6, <2>2
  <2> QED BY <2>4, <2>5
<1>11. /\ UNCHANGED <<head, checkpoints, building, manifest, approvals, cores, stages>>
       /\ task' \in [Tasks -> Holdings] /\ task'[t] = Idle /\ \A u \in Tasks \ {t} : task'[u] = task[u]
  BY <1>6 DEF AssessWrite, End, Become, anchorVars, Holdings
<1>12. /\ row' \in [Packages -> Rows \cup {NoPackage}] /\ row'[p] = r /\ r # NoPackage
       /\ \A q \in Packages \ {p} : row'[q] = row[q]
  BY <1>6, <1>9, <1>10, Shapes
<1>13. Kept
  BY <1>7, <1>9, <1>11, <1>12 DEF Kept, Published
<1>14. PackageOK(p)'
  <2>1. PackageOK(p)
    BY DEF IInv
  <2>2. \A g : EnvelopeOK(p, g) => EnvelopeOK(p, g)'
    BY <1>13, EnvelopeKept
  <2>3. f # NoFinal => EnvelopeOK(p, f)'
    BY <1>5, <1>7, <2>1, <2>2, Shapes DEF PackageOK
  <2>4. PICK g : g = manifest[p].final
    OBVIOUS
  <2>5. g # NoFinal => EnvelopeOK(p, g)'
    BY <2>1, <2>2, <2>4 DEF PackageOK
  <2> QED BY <1>7, <1>9, <1>11, <1>12, <2>1, <2>3, <2>4, <2>5, Shapes DEF PackageOK
<1>15. \A q \in Packages : PackageOK(q)'
  BY <1>11, <1>12, <1>13, <1>14, PackageKept DEF IInv
<1>16. TablesOK' /\ AnchorOK'
  BY <1>11, <1>12, AnchorUntouched DEF IInv, TablesOK
<1>17. HoldingOK(t, task[t])'
  BY <1>11, IdleSafe
<1> QED BY <1>11, <1>13, <1>15, <1>16, <1>17, StepSafe

-----------------------------------------------------------------------------
(* New packages *)
LEMMA DraftSafe ==
  ASSUME IInv, NEW q \in Packages, NEW u \in Users, NEW o \in Packages \cup {None},
         row[q] = NoPackage, row'[q] = Draft(u, o),
         manifest'[q] = manifest[q], approvals'[q] = approvals[q], stages'[q] = stages[q]
  PROVE  PackageOK(q)'
<1>1. PackageOK(q)
  BY DEF IInv
<1>2. ToSet(approvals[q]) = {} /\ manifest[q].final = NoFinal
  BY <1>1 DEF PackageOK, EnvelopeOK
<1>3. row'[q].status = "DRAFT" /\ row'[q].frozenHash = NoFinal
  BY DEF Draft
<1> QED BY <1>1, <1>2, <1>3 DEF PackageOK, Gates

LEMMA DraftIsRow ==
  ASSUME NEW u \in Users, NEW o \in Packages \cup {None}
  PROVE  Draft(u, o) \in Rows /\ Draft(u, o).status = "DRAFT"
BY DEF Draft, Rows, Statuses, Final

LEMMA CreateSafe ==
  ASSUME IInv, NEW p \in Packages, NEW u \in Users, Create(p, u)
  PROVE  IInv'
<1>1. PICK r : r = Draft(u, None)
  OBVIOUS
<1>2. r \in Rows /\ r.status = "DRAFT"
  BY <1>1, DraftIsRow
<1>3. /\ row \in [Packages -> Rows \cup {NoPackage}] /\ stages \in [Packages -> SUBSET Gates]
  BY DEF IInv, TablesOK
<1>4. /\ row[p] = NoPackage /\ row' = [row EXCEPT ![p] = r]
      /\ stages' = [stages EXCEPT ![p] = @ \cup ({r.status} \cap Gates)]
      /\ UNCHANGED <<head, checkpoints, building, manifest, approvals, cores, task>>
  BY <1>1 DEF Create, WriteRow, anchorVars
<1>5. stages' = stages
  <2>1. {r.status} \cap Gates = {}
    BY <1>2 DEF Gates
  <2> QED BY <1>3, <1>4, <2>1
<1>6. row' \in [Packages -> Rows \cup {NoPackage}] /\ row'[p] = r /\ \A q \in Packages \ {p} : row'[q] = row[q]
  BY <1>2, <1>3, <1>4
<1>7. Kept
  BY <1>4, <1>5, <1>6 DEF Kept, Published
<1>8. PackageOK(p)'
  BY <1>1, <1>4, <1>5, <1>6, DraftSafe
<1>9. \A q \in Packages : PackageOK(q)'
  BY <1>4, <1>5, <1>6, <1>7, <1>8, PackageKept DEF IInv
<1>10. TablesOK' /\ AnchorOK'
  BY <1>4, <1>5, <1>6, AnchorUntouched DEF IInv, TablesOK
<1> QED BY <1>4, <1>7, <1>9, <1>10, StepSafe

LEMMA SupersedeWriteSafe ==
  ASSUME IInv, NEW t \in Tasks, NEW q \in Packages, NEW u \in Users, SupersedeWrite(t, q, u)
  PROVE  IInv'
<1>1. PICK h : h = task[t]
  OBVIOUS
<1>2. h.pc = "supersede" /\ h.pkg \in Packages /\ row[h.pkg] \in Rows /\ row[h.pkg] # NoPackage
  BY <1>1, Held DEF SupersedeWrite
<1>3. PICK p \in Packages, old \in Rows : p = h.pkg /\ old = row[p]
  BY <1>2
<1>4. row[q] = NoPackage /\ p # q
  BY <1>2, <1>3 DEF SupersedeWrite
<1>5. PICK d : d = Draft(u, p)
  OBVIOUS
<1>6. d \in Rows
  BY <1>5, DraftIsRow
<1>7. PICK r : r = [old EXCEPT !.status = "SUPERSEDED"]
  OBVIOUS
<1>8. r \in Rows /\ r.status = "SUPERSEDED" /\ r.createdBy = old.createdBy /\ r.frozenHash = old.frozenHash
  BY <1>7 DEF Rows, Statuses
<1>9. row \in [Packages -> Rows \cup {NoPackage}] /\ task \in [Tasks -> Holdings]
  BY DEF IInv, TablesOK
<1>10. /\ row' \in [Packages -> Rows \cup {NoPackage}] /\ row'[p] = r /\ row'[q] = d
       /\ \A x \in Packages \ {p, q} : row'[x] = row[x]
  <2>1. row' = [row EXCEPT ![p].status = "SUPERSEDED", ![q] = d]
    BY <1>1, <1>3, <1>5 DEF SupersedeWrite
  <2>2. row' = [[row EXCEPT ![p] = r] EXCEPT ![q] = d]
    BY <1>3, <1>7, <2>1
  <2> QED BY <1>4, <1>6, <1>8, <1>9, <2>2
<1>11. /\ UNCHANGED <<head, checkpoints, building, manifest, approvals, cores, stages>>
       /\ task' \in [Tasks -> Holdings] /\ task'[t] = Idle /\ \A v \in Tasks \ {t} : task'[v] = task[v]
  BY <1>9 DEF SupersedeWrite, End, Become, anchorVars, Holdings
<1>12. Kept
  <2>1. r # NoPackage
    BY <1>8, Shapes
  <2> QED BY <1>3, <1>4, <1>8, <1>10, <1>11, <2>1 DEF Kept, Published
<1>13. PackageOK(q)'
  BY <1>4, <1>5, <1>10, <1>11, DraftSafe
<1>14. PackageOK(p)'
  <2>1. PackageOK(p)
    BY DEF IInv
  <2>2. \A g : EnvelopeOK(p, g) => EnvelopeOK(p, g)'
    BY <1>12, EnvelopeKept
  <2>3. PICK f, g : f = manifest[p].final /\ g = old.frozenHash
    OBVIOUS
  <2>4. (f # NoFinal => EnvelopeOK(p, f)') /\ (g # NoFinal => EnvelopeOK(p, g)')
    BY <1>3, <2>1, <2>2, <2>3, Shapes DEF PackageOK
  <2>5. r # NoPackage /\ old # NoPackage
    BY <1>8, Shapes
  <2> QED BY <1>3, <1>8, <1>10, <1>11, <2>1, <2>3, <2>4, <2>5 DEF PackageOK, Gates
<1>15. \A x \in Packages : PackageOK(x)'
  BY <1>10, <1>11, <1>12, <1>13, <1>14, PackageKept DEF IInv
<1>16. TablesOK' /\ AnchorOK'
  BY <1>10, <1>11, AnchorUntouched DEF IInv, TablesOK
<1>17. HoldingOK(t, task[t])'
  BY <1>11, IdleSafe
<1> QED BY <1>11, <1>12, <1>15, <1>16, <1>17, StepSafe

-----------------------------------------------------------------------------
(* The anchor: checkpoints are only added or published. *)
LEMMA CheckpointsKept ==
  ASSUME NEW s, NEW z, \A c \in s : \E d \in z : d.sequence = c.sequence /\ d.subject = c.subject
  PROVE  \A n, x : Recorded(s, n, x) => Recorded(z, n, x)
BY DEF Recorded

LEMMA CommitHeadSafe ==
  ASSUME AnchorOK, NEW r \in Requests, CommitHead(r)
  PROVE  /\ AnchorOK' /\ \A c \in Published : c \in Published'
         /\ building'[r] # NoBuild /\ building'[r].subject = building[r].subject
         /\ \A q \in Requests \ {r} : building'[q] = building[q]
<1> USE MaxCheckpointsAssumption
<1>1. PICK b : b = building[r]
  OBVIOUS
<1>2. /\ b \in Builds /\ b.pc = "commit" /\ b.sequence = b.version + 1 /\ b.sequence <= MaxCheckpoints
  BY <1>1, Shapes DEF CommitHead, AnchorOK, BuildOK
<1>3. building \in [Requests -> Builds \cup {NoBuild}]
  BY DEF AnchorOK
<1>4. CASE HeadUnmoved(r)
  <2>1. PICK c : c = [sequence |-> b.sequence, subject |-> b.subject, status |-> "SIGNED"]
    OBVIOUS
  <2>2. PICK g : g = [b EXCEPT !.pc = "witness"]
    OBVIOUS
  <2>3. /\ head' = [sequence |-> b.sequence, version |-> head.version + 1]
        /\ checkpoints' = checkpoints \cup {c} /\ building' = [building EXCEPT ![r] = g]
        /\ head.version = b.version
    BY <1>1, <1>4, <2>1, <2>2 DEF CommitHead, HeadUnmoved
  <2>4. c \in Checkpoints /\ c.sequence = b.sequence /\ c.subject = b.subject
    BY <1>2, <2>1 DEF Builds, Checkpoints
  <2>5. /\ g \in Builds /\ g.pc = "witness" /\ g.subject = b.subject /\ g.sequence = b.sequence
        /\ g.version = b.version /\ g # NoBuild
    BY <1>2, <2>2, Shapes DEF Builds
  <2>6. building' \in [Requests -> Builds \cup {NoBuild}] /\ building'[r] = g
        /\ \A q \in Requests \ {r} : building'[q] = building[q]
    BY <1>3, <2>3, <2>5
  <2>7. \A x \in Published : x \in Published'
    BY <2>3 DEF Published
  <2>8. b.sequence \in Nat /\ b.version \in Nat
    BY <1>2 DEF Builds
  <2>9. /\ head' \in [sequence: Nat, version: Nat] /\ head'.version = head'.sequence
        /\ head'.sequence <= MaxCheckpoints /\ head'.sequence = head.sequence + 1
        /\ head'.sequence = b.sequence
    BY <1>2, <2>3, <2>8 DEF AnchorOK
  <2>10. checkpoints' \subseteq Checkpoints /\ \A x \in checkpoints' : x.sequence \in 1 .. head'.sequence
    BY <2>3, <2>4, <2>8, <2>9, <1>2 DEF AnchorOK, Checkpoints
  <2>11. \A q \in Requests : BuildOK(q)'
    <3> TAKE q \in Requests
    <3>1. CASE q = r
      BY <3>1, <1>2, <2>3, <2>4, <2>5, <2>6 DEF BuildOK, Recorded
    <3>2. CASE q # r
      BY <3>2, <2>3, <2>6, <2>7 DEF AnchorOK, BuildOK, Recorded
    <3> QED BY <3>1, <3>2
  <2> QED BY <1>1, <2>5, <2>6, <2>7, <2>9, <2>10, <2>11 DEF AnchorOK
<1>5. CASE ~HeadUnmoved(r)
  <2>1. PICK g : g = [b EXCEPT !.pc = "failed"]
    OBVIOUS
  <2>2. building' = [building EXCEPT ![r] = g] /\ UNCHANGED <<head, checkpoints>>
    BY <1>1, <1>5, <2>1 DEF CommitHead
  <2>3. /\ g \in Builds /\ g.pc = "failed" /\ g.subject = b.subject /\ g.sequence = b.sequence
        /\ g.version = b.version /\ g # NoBuild
    BY <1>2, <2>1, Shapes DEF Builds
  <2>4. building' \in [Requests -> Builds \cup {NoBuild}] /\ building'[r] = g
        /\ \A q \in Requests \ {r} : building'[q] = building[q]
    BY <1>3, <2>2, <2>3
  <2> QED BY <1>1, <1>2, <2>2, <2>3, <2>4 DEF AnchorOK, BuildOK, Published
<1> QED BY <1>4, <1>5

(* A build that fails, wherever it is. *)
LEMMA BuildFails ==
  ASSUME AnchorOK, NEW r \in Requests, building[r].pc # "none",
         building' = [building EXCEPT ![r].pc = "failed"], UNCHANGED <<head, checkpoints>>
  PROVE  /\ AnchorOK' /\ \A c \in Published : c \in Published'
         /\ building'[r] # NoBuild /\ building'[r].subject = building[r].subject
         /\ \A q \in Requests \ {r} : building'[q] = building[q]
<1>1. PICK b : b = building[r]
  OBVIOUS
<1>2. PICK g : g = [b EXCEPT !.pc = "failed"]
  OBVIOUS
<1>3. b \in Builds /\ b.sequence = b.version + 1 /\ b.sequence <= MaxCheckpoints
  BY <1>1, Shapes DEF AnchorOK, BuildOK
<1>4. /\ g \in Builds /\ g.pc = "failed" /\ g.subject = b.subject /\ g.sequence = b.sequence
      /\ g.version = b.version /\ g # NoBuild
  BY <1>2, <1>3, Shapes DEF Builds
<1>5. building' \in [Requests -> Builds \cup {NoBuild}] /\ building'[r] = g
      /\ \A q \in Requests \ {r} : building'[q] = building[q]
  BY <1>1, <1>2, <1>4 DEF AnchorOK
<1> QED BY <1>1, <1>3, <1>4, <1>5 DEF AnchorOK, BuildOK, Published

LEMMA PublishSafe ==
  ASSUME AnchorOK, NEW r \in Requests, Publish(r)
  PROVE  /\ AnchorOK'
         /\ \A c \in checkpoints : \E d \in checkpoints' : d.sequence = c.sequence /\ d.subject = c.subject
         /\ \A c \in Published : \E d \in Published' : d.sequence = c.sequence /\ d.subject = c.subject
         /\ building'[r] # NoBuild /\ building'[r].subject = building[r].subject
         /\ \A q \in Requests \ {r} : building'[q] = building[q]
<1>1. PICK b : b = building[r]
  OBVIOUS
<1>2. /\ b \in Builds /\ b.pc = "witness" /\ b.sequence = b.version + 1 /\ b.sequence <= MaxCheckpoints
      /\ Recorded(checkpoints, b.sequence, b.subject)
  BY <1>1, Shapes DEF Publish, AnchorOK, BuildOK
<1>3. CASE building' = [building EXCEPT ![r].pc = "failed"] /\ UNCHANGED checkpoints
  BY <1>1, <1>2, <1>3, BuildFails DEF Publish
<1>4. CASE /\ checkpoints' = {IF c.sequence = building[r].sequence
                              THEN [c EXCEPT !.status = "PUBLISHED"] ELSE c : c \in checkpoints}
           /\ building' = [building EXCEPT ![r].pc = "answer"]
  <2>1. PICK g : g = [b EXCEPT !.pc = "answer"]
    OBVIOUS
  <2>2. /\ g \in Builds /\ g.pc = "answer" /\ g.subject = b.subject /\ g.sequence = b.sequence
        /\ g.version = b.version /\ g # NoBuild
    BY <1>2, <2>1, Shapes DEF Builds
  <2>3. building' \in [Requests -> Builds \cup {NoBuild}] /\ building'[r] = g
        /\ \A q \in Requests \ {r} : building'[q] = building[q]
    BY <1>1, <1>4, <2>1, <2>2 DEF AnchorOK
  <2> DEFINE Promoted(c) == IF c.sequence = b.sequence THEN [c EXCEPT !.status = "PUBLISHED"] ELSE c
  <2>4. \A c \in Checkpoints :
           /\ Promoted(c) \in Checkpoints /\ Promoted(c).sequence = c.sequence
           /\ Promoted(c).subject = c.subject
           /\ c.sequence = b.sequence \/ c.status = "PUBLISHED" => Promoted(c).status = "PUBLISHED"
    BY DEF Checkpoints
  <2>5. checkpoints' = {Promoted(c) : c \in checkpoints}
    BY <1>1, <1>4
  <2> HIDE DEF Promoted
  <2>6. checkpoints \subseteq Checkpoints
    BY DEF AnchorOK
  <2>7. /\ checkpoints' \subseteq Checkpoints
        /\ \A d \in checkpoints' : \E c \in checkpoints : d.sequence = c.sequence
    BY <2>4, <2>5, <2>6
  <2>8. \A c \in checkpoints : \E d \in checkpoints' : d.sequence = c.sequence /\ d.subject = c.subject
    BY <2>4, <2>5, <2>6
  <2>9. \A c \in Published : \E d \in Published' : d.sequence = c.sequence /\ d.subject = c.subject
    BY <2>4, <2>5, <2>6 DEF Published
  <2>10. Recorded(Published', b.sequence, b.subject)
    <3>1. PICK c \in checkpoints : c.sequence = b.sequence /\ c.subject = b.subject
      BY <1>2 DEF Recorded
    <3>2. Promoted(c) \in Published'
      BY <2>4, <2>5, <2>6, <3>1 DEF Published
    <3> QED BY <2>4, <2>6, <3>1, <3>2 DEF Recorded
  <2>11. head' = head
    BY DEF Publish
  <2>12. \A q \in Requests : BuildOK(q)'
    <3> TAKE q \in Requests
    <3>1. CASE q = r
      BY <3>1, <1>2, <2>2, <2>3, <2>10 DEF BuildOK
    <3>2. CASE q # r
      <4>1. BuildOK(q) /\ building'[q] = building[q]
        BY <3>2, <2>3 DEF AnchorOK
      <4> QED BY <4>1, <2>8, <2>9 DEF BuildOK, Recorded
    <3> QED BY <3>1, <3>2
  <2>13. \A d \in checkpoints' : d.sequence \in 1 .. head'.sequence
    BY <2>7, <2>11 DEF AnchorOK
  <2> QED BY <1>1, <2>2, <2>3, <2>7, <2>8, <2>9, <2>11, <2>12, <2>13 DEF AnchorOK
<1> QED BY <1>3, <1>4 DEF Publish

(* The anchor goes on while requests of shield-core stay where they are.   *)
LEMMA AnchorSafe ==
  ASSUME IInv, AnchorNext, UNCHANGED <<packageVars, task>>
  PROVE  IInv'
<1>1. AnchorOK /\ TablesOK
  BY DEF IInv
<1>2. PICK r \in Requests : CommitHead(r) \/ Publish(r) \/ AnchorCrash(r)
  BY DEF AnchorNext
<1>3. UNCHANGED <<row, manifest, approvals, cores, stages, task>>
  BY DEF packageVars
<1>4. /\ AnchorOK'
      /\ \A c \in Published : \E d \in Published' : d.sequence = c.sequence /\ d.subject = c.subject
      /\ building'[r] # NoBuild /\ building'[r].subject = building[r].subject
      /\ \A q \in Requests \ {r} : building'[q] = building[q]
  <2>1. CASE CommitHead(r)
    BY <1>1, <2>1, CommitHeadSafe
  <2>2. CASE Publish(r)
    BY <1>1, <2>2, PublishSafe
  <2>3. CASE AnchorCrash(r)
    BY <1>1, <2>3, BuildFails DEF AnchorCrash
  <2> QED BY <1>2, <2>1, <2>2, <2>3
<1>5. Kept
  <2>1. \A n, x : Recorded(Published, n, x) => Recorded(Published', n, x)
    BY <1>4, CheckpointsKept
  <2> QED BY <1>3, <2>1 DEF Kept
<1>6. TablesOK'
  BY <1>1, <1>3 DEF TablesOK
<1>7. \A p \in Packages : PackageOK(p)'
  BY <1>3, <1>5, PackageKept DEF IInv
<1>8. \A t \in Tasks : HoldingOK(t, task[t])'
  <2> TAKE t \in Tasks
  <2>1. PICK h : h = task[t]
    OBVIOUS
  <2>2. HoldingOK(t, h)
    BY <2>1 DEF IInv
  <2>3. h.pc = "anchor" => building'[t] # NoBuild /\ building'[t].subject = building[t].subject
    <3>1. CASE t = r
      BY <3>1, <1>4
    <3>2. CASE t # r
      BY <3>2, <1>4, <2>2 DEF HoldingOK, Tasks
    <3> QED BY <3>1, <3>2
  <2>4. HoldingOK(t, h)'
    BY <1>5, <2>2, <2>3, HoldingKept
  <2> QED BY <1>3, <2>1, <2>4
<1> QED BY <1>4, <1>6, <1>7, <1>8 DEF IInv

(* A request of shield-core and its build move together. *)
LEMMA TogetherSafe ==
  ASSUME IInv, NEW t \in Tasks, NEW h, NEW b \in Builds \cup {NoBuild},
         building' = [building EXCEPT ![t] = b], UNCHANGED <<head, checkpoints, packageVars>>,
         Become(t, h), BuildOK(t)', HoldingOK(t, h)'
  PROVE  IInv'
<1>1. /\ UNCHANGED <<row, manifest, approvals, cores, stages>> /\ h \in Holdings
  BY DEF packageVars, HoldingOK
<1>2. /\ task' \in [Tasks -> Holdings] /\ task'[t] = h /\ \A u \in Tasks \ {t} : task'[u] = task[u]
  BY <1>1 DEF IInv, TablesOK, Become
<1>3. /\ building' \in [Requests -> Builds \cup {NoBuild}] /\ building'[t] = b
      /\ \A u \in Tasks \ {t} : building'[u] = building[u]
  BY DEF IInv, AnchorOK, Tasks
<1>4. Kept
  BY <1>1, NothingLost
<1>5. \A u \in Requests : BuildOK(u)'
  BY <1>3 DEF IInv, AnchorOK, BuildOK, Tasks, Published
<1>6. AnchorOK'
  BY <1>3, <1>5 DEF IInv, AnchorOK
<1>7. TablesOK'
  BY <1>1, <1>2 DEF IInv, TablesOK
<1>8. \A p \in Packages : PackageOK(p)'
  BY <1>1, <1>4, PackageKept DEF IInv
<1>9. HoldingOK(t, task[t])'
  BY <1>2
<1> QED BY <1>2, <1>3, <1>4, <1>6, <1>7, <1>8, <1>9, StepSafe

LEMMA RequestCheckpointSafe ==
  ASSUME IInv, NEW t \in Tasks, RequestCheckpoint(t)
  PROVE  IInv'
<1>1. PICK h : h = task[t]
  OBVIOUS
<1>2. h.pc = "request" /\ h \in Anchoring /\ HoldingOK(t, h) /\ h.pkg \in Packages /\ row[h.pkg] # NoPackage
  BY <1>1, Held, ByPoint DEF RequestCheckpoint
<1>3. PICK b : b = [pc |-> "commit", subject |-> [package |-> h.pkg, core |-> h.core],
                    sequence |-> head.sequence + 1, version |-> head.version]
  OBVIOUS
<1>4. head \in [sequence: Nat, version: Nat] /\ head.version = head.sequence
  BY DEF IInv, AnchorOK
<1>5. /\ b \in Builds /\ b.pc = "commit" /\ b.sequence = b.version + 1
      /\ b.subject = [package |-> h.pkg, core |-> h.core]
  BY <1>2, <1>3, <1>4 DEF Builds, Subjects, Anchoring
<1>6. PICK g : g = [h EXCEPT !.pc = "anchor"]
  OBVIOUS
<1>7. /\ g \in Anchoring /\ g.pc = "anchor" /\ g.pkg = h.pkg /\ g.core = h.core
      /\ g.approval = h.approval
  BY <1>2, <1>6 DEF Anchoring
<1>8. /\ building' = [building EXCEPT ![t] = b] /\ UNCHANGED <<head, checkpoints, packageVars>>
      /\ Become(t, g) /\ head.sequence < MaxCheckpoints
  BY <1>1, <1>3, <1>6 DEF RequestCheckpoint, ReadHead
<1>9. building'[t] = b /\ b # NoBuild
  BY <1>5, <1>8, Shapes DEF IInv, AnchorOK, Tasks
<1>10. BuildOK(t)'
  BY <1>3, <1>4, <1>5, <1>8, <1>9, MaxCheckpointsAssumption DEF BuildOK
<1>11. HoldingOK(t, g)'
  <2>1. UNCHANGED <<row, stages, approvals>> /\ g # Idle
    BY <1>7, <1>8, Shapes DEF packageVars
  <2>2. g \in Holdings
    BY <1>7 DEF Holdings
  <2> QED BY <1>2, <1>5, <1>7, <1>9, <2>1, <2>2 DEF HoldingOK
<1> QED BY <1>5, <1>8, <1>10, <1>11, TogetherSafe

LEMMA CheckpointAnswerSafe ==
  ASSUME IInv, NEW t \in Tasks, CheckpointAnswer(t)
  PROVE  IInv'
<1>1. PICK h : h = task[t]
  OBVIOUS
<1>2. h.pc = "anchor" /\ h \in Anchoring /\ HoldingOK(t, h) /\ h.pkg \in Packages /\ row[h.pkg] # NoPackage
  BY <1>1, Held, ByPoint DEF CheckpointAnswer
<1>3. PICK b : b = building[t]
  OBVIOUS
<1>4. /\ b.pc = "answer" /\ b \in Builds /\ b.subject = [package |-> h.pkg, core |-> h.core]
      /\ Recorded(Published, b.sequence, b.subject)
  BY <1>2, <1>3 DEF CheckpointAnswer, Answered, HoldingOK, IInv, AnchorOK, BuildOK, Tasks
<1>5. PICK f : f = [core |-> h.core, approval |-> h.approval, proof |-> b.sequence]
  OBVIOUS
<1>6. PICK g : g = [pc |-> "final", pkg |-> h.pkg, final |-> f]
  OBVIOUS
<1>7. EnvelopeOK(h.pkg, f)
  BY <1>2, <1>4, <1>5 DEF EnvelopeOK, HoldingOK, Sealed, Anchoring, Builds
<1>8. g \in Holdings /\ g.pc = "final" /\ g.pkg = h.pkg /\ g.final = f
  BY <1>2, <1>6, <1>7 DEF Holdings, Sealing, EnvelopeOK
<1>9. /\ building' = [building EXCEPT ![t] = NoBuild] /\ UNCHANGED <<head, checkpoints, packageVars>>
      /\ Become(t, g)
  BY <1>1, <1>3, <1>5, <1>6 DEF CheckpointAnswer
<1>10. HoldingOK(t, g)
  BY <1>2, <1>7, <1>8 DEF HoldingOK
<1>11. Kept
  BY <1>9, NothingLost DEF packageVars
<1>12. HoldingOK(t, g)'
  BY <1>8, <1>10, <1>11, HoldingKept
<1>13. BuildOK(t)'
  <2>1. building'[t] = NoBuild
    BY <1>9 DEF IInv, AnchorOK, Tasks
  <2> QED BY <2>1, Shapes DEF BuildOK
<1> QED BY <1>9, <1>12, <1>13, TogetherSafe

(* The build is over, and whoever awaited it ends. *)
LEMMA BuildOver ==
  ASSUME IInv, NEW t \in Tasks, building' = [building EXCEPT ![t] = NoBuild],
         UNCHANGED <<head, checkpoints, packageVars>>,
         Become(t, Idle) \/ (UNCHANGED task /\ task[t].pc # "anchor")
  PROVE  IInv'
<1>1. BuildOK(t)'
  <2>1. building'[t] = NoBuild
    BY DEF IInv, AnchorOK, Tasks
  <2> QED BY <2>1, Shapes DEF BuildOK
<1>2. CASE Become(t, Idle)
  BY <1>1, <1>2, IdleSafe, TogetherSafe
<1>3. CASE UNCHANGED task /\ task[t].pc # "anchor"
  <2>1. PICK h : h = task[t]
    OBVIOUS
  <2>2. HoldingOK(t, h) /\ Become(t, h)
    BY <1>3, <2>1 DEF IInv, TablesOK, Become
  <2>3. Kept
    BY NothingLost DEF packageVars
  <2>4. HoldingOK(t, h)'
    BY <1>3, <2>1, <2>2, <2>3, HoldingKept
  <2> QED BY <1>1, <2>2, <2>4, TogetherSafe
<1> QED BY <1>2, <1>3

-----------------------------------------------------------------------------
LEMMA InitHolds == Init => IInv
<1> SUFFICES ASSUME Init
             PROVE  IInv
  OBVIOUS
<1>1. AnchorOK
  BY MaxCheckpointsAssumption, Shapes DEF Init, AnchorInit, AnchorOK, BuildOK
<1>2. TablesOK
  BY AuditPackageAssumption DEF Init, TablesOK, Manifests, Final, Holdings
<1>3. \A p \in Packages : PackageOK(p)
  <2> TAKE p \in Packages
  <2>1. row[p] = NoPackage /\ manifest[p].final = NoFinal /\ approvals[p] = <<>> /\ stages[p] = {}
    BY DEF Init
  <2>2. ToSet(approvals[p]) = {}
    BY <2>1 DEF ToSet
  <2> QED BY <2>1, <2>2, Shapes DEF PackageOK, Gates
<1>4. \A t \in Tasks : HoldingOK(t, task[t])
  BY Shapes DEF Init, HoldingOK, Holdings
<1> QED BY <1>1, <1>2, <1>3, <1>4 DEF IInv

LEMMA NextSafe == IInv /\ [Next]_vars => IInv'
<1> SUFFICES ASSUME IInv, [Next]_vars
             PROVE  IInv'
  OBVIOUS
<1>1. CASE AnchorNext /\ UNCHANGED <<packageVars, task>>
  BY <1>1, AnchorSafe
<1>2. ASSUME NEW p \in Packages, NEW u \in Users, Create(p, u)
      PROVE  IInv'
  BY <1>2, CreateSafe
<1>3. ASSUME NEW t \in Tasks, NEW p \in Packages, Start(t, p)
      PROVE  IInv'
  BY <1>3, StartSafe
<1>4. ASSUME NEW t \in Tasks, NEW q \in Packages, NEW u \in Users, SupersedeWrite(t, q, u)
      PROVE  IInv'
  BY <1>4, SupersedeWriteSafe
<1>5. ASSUME NEW t \in Tasks, Step(t)
      PROVE  IInv'
  <2>1. CASE CheckpointFailed(t)
    <3>1. /\ building' = [building EXCEPT ![t] = NoBuild] /\ UNCHANGED <<head, checkpoints, packageVars>>
          /\ Become(t, Idle) \/ (UNCHANGED task /\ task[t].pc # "anchor")
      BY <2>1 DEF CheckpointFailed, End
    <3> QED BY <3>1, BuildOver
  <2>2. CASE AnswerLost(t)
    BY <2>2, BuildOver DEF AnswerLost
  <2>3. CASE \/ BuildMark(t) \/ BuildStore(t) \/ BuildDone(t)
             \/ ValidateManifest(t) \/ ValidateWrite(t) \/ ApproveManifest(t) \/ ApproveWrite(t)
    BY <2>3, BuildMarkSafe, BuildStoreSafe, BuildDoneSafe, ValidateManifestSafe,
       ValidateWriteSafe, ApproveManifestSafe, ApproveWriteSafe
  <2>4. CASE \/ FreezeManifest(t) \/ FreezeCompare(t) \/ FreezeDrifted(t) \/ RequestCheckpoint(t)
             \/ CheckpointAnswer(t) \/ FreezeStore(t) \/ FreezeMark(t)
    BY <2>4, FreezeManifestSafe, FreezeCompareSafe, FreezeDriftedSafe, RequestCheckpointSafe,
       CheckpointAnswerSafe, FreezeStoreSafe, FreezeMarkSafe
  <2>5. CASE AssessRead(t) \/ AssessManifest(t) \/ AssessWrite(t) \/ TaskFails(t)
    BY <2>5, AssessReadSafe, AssessManifestSafe, AssessWriteSafe, EndsSafe
  <2> QED BY <1>5, <2>1, <2>2, <2>3, <2>4, <2>5 DEF Step
<1>6. CASE UNCHANGED vars
  <2>1. UNCHANGED <<head, checkpoints, building, row, manifest, approvals, cores, stages, task>>
    BY <1>6 DEF vars, anchorVars, packageVars
  <2>2. Kept
    BY <2>1, NothingLost
  <2>3. AnchorOK' /\ TablesOK'
    BY <2>1, AnchorUntouched DEF IInv, TablesOK
  <2>4. \A p \in Packages : PackageOK(p)'
    BY <2>1, <2>2, PackageKept DEF IInv
  <2> QED BY <2>1, <2>2, <2>3, <2>4, StepSafe
<1> QED BY <1>1, <1>2, <1>3, <1>4, <1>5, <1>6 DEF Next

LEMMA Invariance == Spec => []IInv
BY InitHolds, NextSafe, PTL DEF Spec

-----------------------------------------------------------------------------
(* Every reachable state is well-typed. *)
THEOREM TypeCorrect == Spec => []TypeOK
<1>1. IInv => TypeOK
  <2> SUFFICES ASSUME IInv
               PROVE  TypeOK
    OBVIOUS
  <2>1. head \in [sequence: 0 .. MaxCheckpoints, version: 0 .. MaxCheckpoints]
    BY MaxCheckpointsAssumption DEF IInv, AnchorOK
  <2>2. checkpoints \subseteq [sequence: 1 .. head.sequence, subject: Subjects,
                               status: {"SIGNED", "PUBLISHED"}]
    BY DEF IInv, AnchorOK, Checkpoints
  <2> QED BY <2>1, <2>2 DEF IInv, TablesOK, TypeOK, Rows, Manifests, Subjects
<1> QED BY <1>1, Invariance, PTL

(* The envelopes of a package, those its row or its manifest holds, are    *)
(* approved and anchored.                                                  *)
LEMMA EnvelopesOK ==
  ASSUME IInv, NEW p \in Packages, NEW f \in Envelopes(p)
  PROVE  /\ EnvelopeOK(p, f)
         /\ f.approval.approver # row[p].createdBy /\ f.approval.approver \notin f.core.authors
<1>1. PackageOK(p)
  BY DEF IInv
<1>2. f # NoFinal /\ (f = manifest[p].final \/ (row[p] # NoPackage /\ f = row[p].frozenHash))
  BY DEF Envelopes
<1>3. EnvelopeOK(p, f)
  BY <1>1, <1>2 DEF PackageOK
<1> QED BY <1>1, <1>3 DEF PackageOK, EnvelopeOK

(* However builds, validations, approvals and freezes overlap, the content *)
(* under a frozen package's envelope is the one somebody independent       *)
(* approved: freeze compares what it read, and seals that.                 *)
THEOREM SealedIsApproved == Spec => []FrozenWasApproved
<1>1. IInv => FrozenWasApproved
  BY EnvelopesOK DEF FrozenWasApproved, EnvelopeOK
<1> QED BY <1>1, Invariance, PTL

(* However requests race for the head, and answers get lost, an envelope's *)
(* proof is a published checkpoint of its package and content.             *)
THEOREM SealedIsAnchored == Spec => []FrozenWasAnchored
<1>1. IInv => FrozenWasAnchored
  BY EnvelopesOK DEF FrozenWasAnchored, EnvelopeOK, Recorded
<1> QED BY <1>1, Invariance, PTL

(* No overlap of operations takes a package to FROZEN past a stage. *)
THEOREM NoStageIsSkipped == Spec => []StagesArePassed
<1>1. IInv => StagesArePassed
  BY DEF IInv, PackageOK, StagesArePassed
<1> QED BY <1>1, Invariance, PTL

-----------------------------------------------------------------------------
(* The checkpoints of the tenant are one chain: no sequence number is left *)
(* out and none is used twice, so that the number in an envelope names one *)
(* checkpoint.                                                             *)
ChainIsWhole ==
    /\ \A n \in 1 .. head.sequence : \E c \in checkpoints : c.sequence = n
    /\ \A c, d \in checkpoints : c.sequence = d.sequence => c = d

PublishedStays == [][Published \subseteq Published']_vars

LEMMA CommitExtendsChain ==
  ASSUME IInv, ChainIsWhole, NEW r \in Requests, CommitHead(r)
  PROVE  ChainIsWhole' /\ Published \subseteq Published'
<1>1. PICK b : b = building[r]
  OBVIOUS
<1>2. AnchorOK /\ b \in Builds /\ b.sequence = b.version + 1
  BY <1>1, Shapes DEF CommitHead, IInv, AnchorOK, BuildOK
<1>3. CASE ~HeadUnmoved(r)
  BY <1>3 DEF CommitHead, ChainIsWhole, Published
<1>4. CASE HeadUnmoved(r)
  <2>1. PICK c : c = [sequence |-> b.sequence, subject |-> b.subject, status |-> "SIGNED"]
    OBVIOUS
  <2>2. /\ head' = [sequence |-> b.sequence, version |-> head.version + 1]
        /\ checkpoints' = checkpoints \cup {c}
        /\ head.version = b.version
    BY <1>1, <1>4, <2>1 DEF CommitHead, HeadUnmoved
  <2>3. /\ head'.sequence = b.sequence /\ c.sequence = b.sequence
        /\ b.sequence = head.sequence + 1 /\ head.sequence \in Nat
    BY <1>2, <2>1, <2>2 DEF AnchorOK, Builds
  <2>4. \A d \in checkpoints : d.sequence \in 1 .. head.sequence
    BY <1>2 DEF AnchorOK
  <2>5. \A d \in checkpoints : d.sequence # c.sequence
    BY <2>3, <2>4
  <2>6. \A n \in 1 .. head'.sequence : n \in 1 .. head.sequence \/ n = c.sequence
    BY <2>3
  <2>7. ChainIsWhole'
    BY <2>2, <2>5, <2>6 DEF ChainIsWhole
  <2> QED BY <2>2, <2>7 DEF Published
<1> QED BY <1>3, <1>4

LEMMA PublishKeepsChain ==
  ASSUME IInv, ChainIsWhole, NEW r \in Requests, Publish(r)
  PROVE  ChainIsWhole' /\ Published \subseteq Published'
<1>1. CASE UNCHANGED checkpoints
  BY <1>1 DEF Publish, ChainIsWhole, Published
<1>2. CASE checkpoints' = {IF c.sequence = building[r].sequence
                           THEN [c EXCEPT !.status = "PUBLISHED"] ELSE c : c \in checkpoints}
  <2> DEFINE Promoted(c) == IF c.sequence = building[r].sequence
                            THEN [c EXCEPT !.status = "PUBLISHED"] ELSE c
  <2>1. \A c \in Checkpoints :
           /\ Promoted(c).sequence = c.sequence
           /\ c.status = "PUBLISHED" => Promoted(c) = c
    BY DEF Checkpoints
  <2>2. checkpoints' = {Promoted(c) : c \in checkpoints} /\ head' = head
    BY <1>2 DEF Publish
  <2> HIDE DEF Promoted
  <2>3. checkpoints \subseteq Checkpoints
    BY DEF IInv, AnchorOK
  <2>4. ASSUME NEW n \in 1 .. head'.sequence PROVE \E c \in checkpoints' : c.sequence = n
    BY <2>1, <2>2, <2>3 DEF ChainIsWhole
  <2>5. ASSUME NEW c \in checkpoints', NEW d \in checkpoints', c.sequence = d.sequence PROVE c = d
    BY <2>1, <2>2, <2>3, <2>5 DEF ChainIsWhole
  <2>6. Published \subseteq Published'
    BY <2>1, <2>2, <2>3 DEF Published
  <2> QED BY <2>4, <2>5, <2>6 DEF ChainIsWhole
<1> QED BY <1>1, <1>2 DEF Publish

LEMMA ChainNext == IInv /\ ChainIsWhole /\ [Next]_vars => ChainIsWhole' /\ Published \subseteq Published'
<1> SUFFICES ASSUME IInv, ChainIsWhole, [Next]_vars
             PROVE  ChainIsWhole' /\ Published \subseteq Published'
  OBVIOUS
<1>1. ASSUME UNCHANGED <<head, checkpoints>> PROVE ChainIsWhole' /\ Published \subseteq Published'
  BY <1>1 DEF ChainIsWhole, Published
<1>2. CASE AnchorNext
  BY <1>1, <1>2, CommitExtendsChain, PublishKeepsChain DEF AnchorNext, AnchorCrash
<1>3. ASSUME NEW t \in Tasks, Step(t) PROVE UNCHANGED <<head, checkpoints>>
  BY <1>3 DEF Step, BuildMark, BuildStore, BuildDone, ValidateManifest, ValidateWrite, ApproveManifest,
     ApproveWrite, FreezeManifest, FreezeCompare, FreezeDrifted, RequestCheckpoint, ReadHead,
     CheckpointAnswer, CheckpointFailed, AnswerLost, FreezeStore, FreezeMark, AssessRead,
     AssessManifest, AssessWrite, TaskFails, anchorVars
<1>4. ASSUME NEW t \in Tasks, NEW p \in Packages, NEW u \in Users,
             Create(p, u) \/ Start(t, p) \/ SupersedeWrite(t, p, u)
      PROVE  UNCHANGED <<head, checkpoints>>
  BY <1>4 DEF Create, Start, BuildRead, ValidateRead, FreezeRead, SupersedeRead, ApproveRead,
     SupersedeWrite, anchorVars
<1>5. ASSUME NEW t \in Tasks, NEW p \in Packages, Start(t, p) PROVE UNCHANGED <<head, checkpoints>>
  BY <1>5 DEF Start, BuildRead, ValidateRead, FreezeRead, SupersedeRead, ApproveRead, anchorVars
<1>6. ASSUME NEW p \in Packages, NEW u \in Users, Create(p, u) PROVE UNCHANGED <<head, checkpoints>>
  BY <1>6 DEF Create, anchorVars
<1>7. CASE UNCHANGED vars
  BY <1>1, <1>7 DEF vars, anchorVars
<1> QED BY <1>1, <1>2, <1>3, <1>4, <1>5, <1>6, <1>7 DEF Next

(* Requests that race for the head of a tenant leave one chain of          *)
(* checkpoints: none is skipped, and no number stands for two, although    *)
(* the head is read long before it is moved (checkpoint-builder.service.ts,*)
(* tenant-anchor-head.service.ts).                                         *)
THEOREM CheckpointsAreOneChain == Spec => []ChainIsWhole
<1>1. Init => ChainIsWhole
  BY DEF Init, AnchorInit, ChainIsWhole
<1>2. IInv /\ ChainIsWhole /\ [Next]_vars => ChainIsWhole'
  BY ChainNext
<1> QED BY <1>1, <1>2, Invariance, PTL DEF Spec

(* What was published is never changed or withdrawn, so that an envelope's *)
(* proof can be verified at any later time.                                *)
THEOREM PublishedForGood == Spec => PublishedStays
<1>1. IInv /\ ChainIsWhole /\ [Next]_vars => Published \subseteq Published'
  BY ChainNext
<1>2. UNCHANGED vars => Published \subseteq Published'
  BY DEF vars, anchorVars, Published
<1> QED BY <1>1, <1>2, Invariance, CheckpointsAreOneChain, PTL DEF Spec, PublishedStays

-----------------------------------------------------------------------------
(* What is left of "a frozen package never mutates" (section 4 of the      *)
(* README has the counterexample): once no operation that read the package *)
(* before it was frozen is still at work on it, it never does.             *)

Calm == {"assess", "weigh", "conclude", "supersede"}

AtRest(p) ==
    /\ row[p].status \in {"FROZEN", "SUPERSEDED"}
    /\ \A t \in Tasks : task[t].pc # "idle" /\ task[t].pkg = p => task[t].pc \in Calm

StaysAtRest(p) ==
    /\ AtRest(p)'
    /\ row'[p].status \in {row[p].status, "SUPERSEDED"}
    /\ manifest'[p] = manifest[p] /\ approvals'[p] = approvals[p]

RestIsLasting == [][\A p \in Packages : AtRest(p) => StaysAtRest(p)]_vars

(* A step of one request, as far as it concerns the package. *)
LEMMA RestKept ==
  ASSUME NEW p \in Packages, AtRest(p), NEW t \in Tasks,
         \A u \in Tasks \ {t} : task'[u] = task[u],
         task'[t].pc # "idle" /\ task'[t].pkg = p => task'[t].pc \in Calm,
         row'[p].status \in {row[p].status, "SUPERSEDED"},
         manifest'[p] = manifest[p], approvals'[p] = approvals[p]
  PROVE  StaysAtRest(p)
<1>1. row'[p].status \in {"FROZEN", "SUPERSEDED"}
  BY DEF AtRest
<1>2. ASSUME NEW u \in Tasks, task'[u].pc # "idle", task'[u].pkg = p PROVE task'[u].pc \in Calm
  BY <1>2 DEF AtRest
<1> QED BY <1>1, <1>2 DEF StaysAtRest, AtRest

(* Who goes on from a point that is not calm is at another package. *)
Elsewhere(t) ==
    /\ task[t].pc \notin Calm \cup {"idle"}
    /\ \A u \in Tasks \ {t} : task'[u] = task[u]
    /\ task'[t].pc # "idle" => task'[t].pkg = task[t].pkg
    /\ \A p \in Packages \ {task[t].pkg} :
          row'[p] = row[p] /\ manifest'[p] = manifest[p] /\ approvals'[p] = approvals[p]

LEMMA ElsewhereAtRest ==
  ASSUME NEW t \in Tasks, Elsewhere(t), NEW p \in Packages, AtRest(p)
  PROVE  StaysAtRest(p)
<1>1. task[t].pkg # p
  BY DEF Elsewhere, AtRest
<1>2. row'[p] = row[p] /\ manifest'[p] = manifest[p] /\ approvals'[p] = approvals[p]
  BY <1>1 DEF Elsewhere
<1> QED BY <1>1, <1>2, RestKept DEF Elsewhere

LEMMA TaskBecomes ==
  ASSUME IInv, NEW t \in Tasks, NEW h, Become(t, h)
  PROVE  task'[t] = h /\ \A u \in Tasks \ {t} : task'[u] = task[u]
BY DEF Become, IInv, TablesOK

LEMMA RowsWritten ==
  ASSUME IInv, NEW p, NEW q \in Packages \ {p}, NEW r
  PROVE  /\ WriteRow(p, r) => row'[q] = row[q]
         /\ WriteStatus(p, r) => row'[q] = row[q]
BY DEF WriteStatus, WriteRow, IInv, TablesOK

LEMMA ManifestWritten ==
  ASSUME IInv, NEW p, NEW q \in Packages \ {p}, NEW x
  PROVE  /\ manifest' = [manifest EXCEPT ![p].core = x] => manifest'[q] = manifest[q]
         /\ manifest' = [manifest EXCEPT ![p].final = x] => manifest'[q] = manifest[q]
         /\ approvals' = [approvals EXCEPT ![p] = Append(@, x)] => approvals'[q] = approvals[q]
BY DEF IInv, TablesOK

LEMMA SamePackage ==
  ASSUME NEW h \in Holdings, h.pc # "idle", NEW pc
  PROVE  [h EXCEPT !.pc = pc].pkg = h.pkg
BY Shapes DEF Holdings, AtPackage, Validating, Judged, Approving, Permitted, Anchoring, Sealing,
   Weighing, Concluding, Idle

LEMMA GoesOn ==
  ASSUME IInv, NEW t \in Tasks, task[t].pc # "idle", NEW pc, Become(t, [task[t] EXCEPT !.pc = pc])
  PROVE  task'[t].pkg = task[t].pkg /\ \A u \in Tasks \ {t} : task'[u] = task[u]
<1>1. PICK h : h = task[t]
  OBVIOUS
<1>2. PICK g : g = [h EXCEPT !.pc = pc]
  OBVIOUS
<1>3. g.pkg = h.pkg
  BY <1>1, <1>2, Held, SamePackage
<1>4. task'[t] = g /\ \A u \in Tasks \ {t} : task'[u] = task[u]
  BY <1>1, <1>2, TaskBecomes
<1> QED BY <1>1, <1>3, <1>4

LEMMA BuildElsewhere ==
  ASSUME IInv, NEW t \in Tasks, BuildMark(t) \/ BuildStore(t) \/ BuildDone(t)
  PROVE  Elsewhere(t)
<1>0. Idle.pc = "idle"
  BY Shapes
<1>1. CASE BuildMark(t)
  <2>1. task[t].pc = "building" /\ Become(t, [task[t] EXCEPT !.pc = "store"])
    BY <1>1 DEF BuildMark
  <2>2. task'[t].pkg = task[t].pkg /\ \A u \in Tasks \ {t} : task'[u] = task[u]
    BY <2>1, GoesOn
  <2> QED BY <1>1, <2>1, <2>2, RowsWritten DEF BuildMark, Elsewhere, Calm
<1>2. CASE BuildStore(t)
  <2>1. task[t].pc = "store" /\ Become(t, [task[t] EXCEPT !.pc = "built"])
    BY <1>2 DEF BuildStore
  <2>2. task'[t].pkg = task[t].pkg /\ \A u \in Tasks \ {t} : task'[u] = task[u]
    BY <2>1, GoesOn
  <2>3. PICK x : manifest' = [manifest EXCEPT ![task[t].pkg].core = x]
    BY <1>2 DEF BuildStore
  <2>4. \A q \in Packages \ {task[t].pkg} : manifest'[q] = manifest[q]
    BY <2>3, ManifestWritten
  <2> QED BY <1>2, <2>1, <2>2, <2>4 DEF BuildStore, Elsewhere, Calm
<1>3. CASE BuildDone(t)
  <2>1. task'[t] = Idle /\ \A u \in Tasks \ {t} : task'[u] = task[u]
    BY <1>3, TaskBecomes DEF BuildDone, End
  <2> QED BY <1>0, <1>3, <2>1, RowsWritten DEF BuildDone, Elsewhere, Calm
<1> QED BY <1>1, <1>2, <1>3

LEMMA ValidateElsewhere ==
  ASSUME IInv, NEW t \in Tasks, ValidateManifest(t) \/ ValidateWrite(t)
  PROVE  Elsewhere(t)
<1>1. CASE ValidateManifest(t)
  <2>1. PICK x : Become(t, [pc |-> "validated", pkg |-> task[t].pkg, core |-> x])
    BY <1>1 DEF ValidateManifest
  <2>2. task'[t].pkg = task[t].pkg /\ \A u \in Tasks \ {t} : task'[u] = task[u]
    BY <2>1, TaskBecomes
  <2> QED BY <1>1, <2>2 DEF ValidateManifest, packageVars, Elsewhere, Calm
<1>2. CASE ValidateWrite(t)
  <2>1. task'[t].pc = "idle" /\ \A u \in Tasks \ {t} : task'[u] = task[u]
    BY <1>2, TaskBecomes, Shapes DEF ValidateWrite, End
  <2>2. \E x : manifest' = [manifest EXCEPT ![task[t].pkg].core = x]
    BY <1>2 DEF ValidateWrite
  <2>3. \A q \in Packages \ {task[t].pkg} : manifest'[q] = manifest[q]
    BY <2>2, ManifestWritten
  <2>4. \A q \in Packages \ {task[t].pkg} : row'[q] = row[q]
    BY <1>2, RowsWritten DEF ValidateWrite
  <2> QED BY <1>2, <2>1, <2>3, <2>4 DEF ValidateWrite, Elsewhere, Calm
<1> QED BY <1>1, <1>2

LEMMA ApproveElsewhere ==
  ASSUME IInv, NEW t \in Tasks, ApproveManifest(t) \/ ApproveWrite(t)
  PROVE  Elsewhere(t)
<1>1. CASE ApproveManifest(t)
  <2>1. PICK x, y : Become(t, [pc |-> "permitted", pkg |-> task[t].pkg, user |-> x, core |-> y])
    BY <1>1 DEF ApproveManifest
  <2>2. task'[t].pkg = task[t].pkg /\ \A u \in Tasks \ {t} : task'[u] = task[u]
    BY <2>1, TaskBecomes
  <2> QED BY <1>1, <2>2 DEF ApproveManifest, packageVars, Elsewhere, Calm
<1>2. CASE ApproveWrite(t)
  <2>1. task'[t].pc = "idle" /\ \A u \in Tasks \ {t} : task'[u] = task[u]
    BY <1>2, TaskBecomes, Shapes DEF ApproveWrite, End
  <2>2. \A q \in Packages \ {task[t].pkg} : approvals'[q] = approvals[q]
    BY <1>2, ManifestWritten DEF ApproveWrite
  <2>3. \A q \in Packages \ {task[t].pkg} : row'[q] = row[q]
    BY <1>2, RowsWritten DEF ApproveWrite
  <2> QED BY <1>2, <2>1, <2>2, <2>3 DEF ApproveWrite, Elsewhere, Calm
<1> QED BY <1>1, <1>2

LEMMA FreezeReadsElsewhere ==
  ASSUME IInv, NEW t \in Tasks, FreezeManifest(t) \/ FreezeCompare(t) \/ FreezeDrifted(t)
  PROVE  Elsewhere(t)
<1>1. CASE FreezeManifest(t)
  <2>1. PICK x : Become(t, [pc |-> "compare", pkg |-> task[t].pkg, core |-> x])
    BY <1>1 DEF FreezeManifest
  <2>2. task'[t].pkg = task[t].pkg /\ \A u \in Tasks \ {t} : task'[u] = task[u]
    BY <2>1, TaskBecomes
  <2> QED BY <1>1, <2>2 DEF FreezeManifest, packageVars, Elsewhere, Calm
<1>2. CASE FreezeCompare(t)
  <2>1. \/ Become(t, [pc |-> "drifted", pkg |-> task[t].pkg])
        \/ Become(t, [pc |-> "request", pkg |-> task[t].pkg, core |-> task[t].core,
                      approval |-> Last(approvals[task[t].pkg])])
    BY <1>2 DEF FreezeCompare
  <2>2. task'[t].pkg = task[t].pkg /\ \A u \in Tasks \ {t} : task'[u] = task[u]
    BY <2>1, TaskBecomes
  <2> QED BY <1>2, <2>2 DEF FreezeCompare, packageVars, Elsewhere, Calm
<1>3. CASE FreezeDrifted(t)
  <2>1. task'[t].pc = "idle" /\ \A u \in Tasks \ {t} : task'[u] = task[u]
    BY <1>3, TaskBecomes, Shapes DEF FreezeDrifted, End
  <2> QED BY <1>3, <2>1, RowsWritten DEF FreezeDrifted, Elsewhere, Calm
<1> QED BY <1>1, <1>2, <1>3

LEMMA FreezeWritesElsewhere ==
  ASSUME IInv, NEW t \in Tasks,
         RequestCheckpoint(t) \/ CheckpointAnswer(t) \/ FreezeStore(t) \/ FreezeMark(t)
  PROVE  Elsewhere(t)
<1>1. CASE RequestCheckpoint(t)
  <2>1. task[t].pc = "request" /\ Become(t, [task[t] EXCEPT !.pc = "anchor"])
    BY <1>1 DEF RequestCheckpoint
  <2>2. task'[t].pkg = task[t].pkg /\ \A u \in Tasks \ {t} : task'[u] = task[u]
    BY <2>1, GoesOn
  <2> QED BY <1>1, <2>1, <2>2 DEF RequestCheckpoint, packageVars, Elsewhere, Calm
<1>2. CASE CheckpointAnswer(t)
  <2>1. PICK x : Become(t, [pc |-> "final", pkg |-> task[t].pkg, final |-> x])
    BY <1>2 DEF CheckpointAnswer
  <2>2. task'[t].pkg = task[t].pkg /\ \A u \in Tasks \ {t} : task'[u] = task[u]
    BY <2>1, TaskBecomes
  <2> QED BY <1>2, <2>2 DEF CheckpointAnswer, packageVars, Elsewhere, Calm
<1>3. CASE FreezeStore(t)
  <2>1. task[t].pc = "final" /\ Become(t, [task[t] EXCEPT !.pc = "mark"])
    BY <1>3 DEF FreezeStore
  <2>2. task'[t].pkg = task[t].pkg /\ \A u \in Tasks \ {t} : task'[u] = task[u]
    BY <2>1, GoesOn
  <2>3. \A q \in Packages \ {task[t].pkg} : manifest'[q] = manifest[q]
    BY <1>3, ManifestWritten DEF FreezeStore
  <2> QED BY <1>3, <2>1, <2>2, <2>3 DEF FreezeStore, Elsewhere, Calm
<1>4. CASE FreezeMark(t)
  <2>1. Become(t, [pc |-> "assess", pkg |-> task[t].pkg])
    BY <1>4 DEF FreezeMark
  <2>2. task'[t].pkg = task[t].pkg /\ \A u \in Tasks \ {t} : task'[u] = task[u]
    BY <2>1, TaskBecomes
  <2>3. \A q \in Packages \ {task[t].pkg} : row'[q] = row[q]
    BY <1>4, RowsWritten DEF FreezeMark
  <2> QED BY <1>4, <2>2, <2>3 DEF FreezeMark, Elsewhere, Calm
<1> QED BY <1>1, <1>2, <1>3, <1>4

(* Assessments write neither the status nor the manifest. *)
LEMMA AssessAtRest ==
  ASSUME IInv, NEW t \in Tasks, AssessRead(t) \/ AssessManifest(t) \/ AssessWrite(t),
         NEW p \in Packages, AtRest(p)
  PROVE  StaysAtRest(p)
<1>1. CASE AssessRead(t)
  <2>1. PICK x : Become(t, [pc |-> "weigh", pkg |-> task[t].pkg, frozen |-> x])
    BY <1>1 DEF AssessRead
  <2>2. task'[t].pc \in Calm /\ \A u \in Tasks \ {t} : task'[u] = task[u]
    BY <2>1, TaskBecomes DEF Calm
  <2> QED BY <1>1, <2>2, RestKept DEF AssessRead, packageVars
<1>2. CASE AssessManifest(t)
  <2>1. PICK x, y : Become(t, [pc |-> "conclude", pkg |-> task[t].pkg, frozen |-> x, seen |-> y])
    BY <1>2 DEF AssessManifest
  <2>2. task'[t].pc \in Calm /\ \A u \in Tasks \ {t} : task'[u] = task[u]
    BY <2>1, TaskBecomes DEF Calm
  <2> QED BY <1>2, <2>2, RestKept DEF AssessManifest, packageVars
<1>3. CASE AssessWrite(t)
  <2>1. task'[t].pc = "idle" /\ \A u \in Tasks \ {t} : task'[u] = task[u]
    BY <1>3, TaskBecomes, Shapes DEF AssessWrite, End
  <2>2. PICK q, x, y, z : row' = [row EXCEPT ![q].complete = x, ![q].claim = y, ![q].frozenHash = z]
    BY <1>3 DEF AssessWrite
  <2>3. row[p] \in Rows
    BY Shapes DEF IInv, TablesOK, AtRest
  <2>4. row'[p].status = row[p].status
    BY <2>2, <2>3 DEF IInv, TablesOK, Rows
  <2> QED BY <1>3, <2>1, <2>4, RestKept DEF AssessWrite
<1> QED BY <1>1, <1>2, <1>3

(* Of the operations only supersede begins on a package at rest. *)
LEMMA StartAtRest ==
  ASSUME IInv, NEW t \in Tasks, NEW q \in Packages, Start(t, q), NEW p \in Packages, AtRest(p)
  PROVE  StaysAtRest(p)
<1>1. UNCHANGED <<row, manifest, approvals>>
  BY DEF Start, BuildRead, ValidateRead, FreezeRead, SupersedeRead, ApproveRead, packageVars
<1>2. \A u \in Tasks \ {t} : task'[u] = task[u]
  BY TaskBecomes DEF Start, BuildRead, ValidateRead, FreezeRead, SupersedeRead, ApproveRead
<1>3. task'[t].pkg = q /\ (task'[t].pc = "supersede" \/ row[q].status \notin {"FROZEN", "SUPERSEDED"})
  <2>1. CASE BuildRead(t, q)
    BY <2>1, TaskBecomes DEF BuildRead, CanMove
  <2>2. CASE ValidateRead(t, q)
    <3>1. task'[t].pkg = q
      BY <2>2, TaskBecomes DEF ValidateRead
    <3> QED BY <2>2, <3>1 DEF ValidateRead
  <2>3. CASE FreezeRead(t, q)
    BY <2>3, TaskBecomes DEF FreezeRead, CanMove
  <2>4. CASE SupersedeRead(t, q)
    BY <2>4, TaskBecomes DEF SupersedeRead
  <2>5. ASSUME NEW u \in Users, ApproveRead(t, q, u)
        PROVE  task'[t].pkg = q /\ row[q].status \notin {"FROZEN", "SUPERSEDED"}
    <3>1. task'[t].pkg = q
      BY <2>5, TaskBecomes DEF ApproveRead
    <3>2. row[q].status \notin {"FROZEN", "SUPERSEDED"}
      BY <2>5 DEF ApproveRead, Approvable, CanMove
    <3> QED BY <3>1, <3>2
  <2> QED BY <2>1, <2>2, <2>3, <2>4, <2>5 DEF Start
<1>4. task'[t].pkg = p => task'[t].pc \in Calm
  BY <1>3 DEF AtRest, Calm
<1> QED BY <1>1, <1>2, <1>4, RestKept

LEMMA SupersedeAtRest ==
  ASSUME IInv, NEW t \in Tasks, NEW q \in Packages, NEW u \in Users, SupersedeWrite(t, q, u),
         NEW p \in Packages, AtRest(p)
  PROVE  StaysAtRest(p)
<1>1. task'[t].pc = "idle" /\ \A v \in Tasks \ {t} : task'[v] = task[v]
  BY TaskBecomes, Shapes DEF SupersedeWrite, End
<1>2. row[p] \in Rows /\ p # q
  <2>1. row[p] \in Rows
    BY Shapes DEF IInv, TablesOK, AtRest
  <2> QED BY <2>1, Shapes DEF SupersedeWrite
<1>3. PICK o, d : row' = [row EXCEPT ![o].status = "SUPERSEDED", ![q] = d]
  BY DEF SupersedeWrite
<1>4. row'[p].status \in {row[p].status, "SUPERSEDED"}
  BY <1>2, <1>3 DEF IInv, TablesOK, Rows
<1> QED BY <1>1, <1>4, RestKept DEF SupersedeWrite

LEMMA StepAtRest ==
  ASSUME IInv, NEW t \in Tasks, Step(t), NEW p \in Packages, AtRest(p)
  PROVE  StaysAtRest(p)
<1>1. CASE TaskFails(t) \/ AnswerLost(t) \/ CheckpointFailed(t)
  <2>1. UNCHANGED <<row, manifest, approvals>> /\ (End(t) \/ UNCHANGED task)
    BY <1>1 DEF TaskFails, AnswerLost, CheckpointFailed, packageVars
  <2>2. CASE End(t)
    <3>1. task'[t].pc = "idle" /\ \A u \in Tasks \ {t} : task'[u] = task[u]
      BY <2>2, TaskBecomes, Shapes DEF End
    <3> QED BY <2>1, <3>1, RestKept
  <2>3. CASE UNCHANGED task
    BY <2>1, <2>3 DEF AtRest, StaysAtRest
  <2> QED BY <2>1, <2>2, <2>3
<1>2. CASE AssessRead(t) \/ AssessManifest(t) \/ AssessWrite(t)
  BY <1>2, AssessAtRest
<1>3. CASE \/ BuildMark(t) \/ BuildStore(t) \/ BuildDone(t) \/ ValidateManifest(t) \/ ValidateWrite(t)
           \/ ApproveManifest(t) \/ ApproveWrite(t) \/ FreezeManifest(t) \/ FreezeCompare(t)
           \/ FreezeDrifted(t) \/ RequestCheckpoint(t) \/ CheckpointAnswer(t) \/ FreezeStore(t)
           \/ FreezeMark(t)
  <2>1. Elsewhere(t)
    BY <1>3, BuildElsewhere, ValidateElsewhere, ApproveElsewhere, FreezeReadsElsewhere,
       FreezeWritesElsewhere
  <2> QED BY <2>1, ElsewhereAtRest
<1> QED BY <1>1, <1>2, <1>3 DEF Step

(* A package that was frozen, and at which nobody is who read it before,   *)
(* keeps its manifest and its approvals for ever, and its status but for   *)
(* supersession: no operation that begins later changes it (assertMutable, *)
(* audit-package-state-machine.service.ts).                                *)
THEOREM FrozenSettles == Spec => RestIsLasting
<1>1. ASSUME IInv, [Next]_vars, NEW p \in Packages, AtRest(p) PROVE StaysAtRest(p)
  <2>1. CASE UNCHANGED vars
    BY <1>1, <2>1 DEF vars, packageVars, AtRest, StaysAtRest
  <2>2. CASE AnchorNext /\ UNCHANGED <<packageVars, task>>
    BY <1>1, <2>2 DEF packageVars, AtRest, StaysAtRest
  <2>3. ASSUME NEW q \in Packages, NEW u \in Users, Create(q, u) PROVE StaysAtRest(p)
    <3>1. p # q
      BY <1>1, <2>3, Shapes DEF Create, AtRest
    <3>2. row'[p] = row[p] /\ UNCHANGED <<manifest, approvals, task>>
      BY <1>1, <2>3, <3>1, RowsWritten DEF Create
    <3> QED BY <1>1, <3>2 DEF AtRest, StaysAtRest
  <2> QED BY <1>1, <2>1, <2>2, <2>3, StepAtRest, StartAtRest, SupersedeAtRest DEF Next
<1>2. IInv /\ [Next]_vars => [\A p \in Packages : AtRest(p) => StaysAtRest(p)]_vars
  BY <1>1
<1> QED BY <1>2, Invariance, PTL DEF Spec, RestIsLasting
===============================================================================
