--------------------------- MODULE EvidenceLedger ---------------------------
(***************************************************************************)
(* Creation and verification of evidence in shield-core                    *)
(* (modules/evidence: services/evidence.service.ts,                        *)
(* ledger/evidence-ledger.service.ts,                                      *)
(* verification/evidence-verification.service.ts).                         *)
(*                                                                         *)
(* createEvidence writes the bytes to the object store, then, in one       *)
(* Serializable transaction, the evidence row, its event and an entry of   *)
(* the tenant's hash chain; when the transaction throws it deletes the     *)
(* object.  The calls of one tenant meet at an advisory lock, which the    *)
(* transaction takes AFTER its first statement fixed its snapshot.  Each   *)
(* call makes an identifier of its own, so a call is named by the evidence *)
(* it creates.                                                             *)
(*                                                                         *)
(* The hash of an entry is modelled by the list of evidence it commits to: *)
(* equal hashes are equal histories (no collisions).                       *)
(***************************************************************************)
EXTENDS Integers, Sequences

CONSTANTS Evidence,   \* identifiers that calls of createEvidence make
          Tenants,
          Verifiers,  \* calls of verify that may be in progress together
          NoOne,
          MaxFaults   \* bound: failed calls, lost answers, pods that die, bytes altered

ASSUME ConstantsAssumption ==
    /\ NoOne \notin Evidence \cup Tenants
    /\ MaxFaults \in Nat

VARIABLES
    object,     \* the bytes behind each vault_reference
    record,     \* evidence_records: integrity_state, or absent
    owner,      \* tenant_id of each call
    ledger,     \* evidence_ledger_entries of each tenant, by sequence
    pc,         \* where each call of createEvidence stands
    snapshot,   \* the tenant's ledger as the call's transaction sees it
    lock,       \* holder of pg_advisory_xact_lock(tenant)
    verifying,  \* each call of verify: what it has read
    lostAck,    \* calls whose COMMIT was done and reported as an error
    faults      \* faults so far

vars == <<object, record, owner, ledger, pc, snapshot, lock, verifying, lostAck, faults>>

NoCheck == [evidence |-> NoOne, bytes |-> "absent"]

InTransaction == {"waiting", "appending"}
AtRest == {"new", "failed", "done", "crashed"}

Init ==
    /\ object = [e \in Evidence |-> "absent"]
    /\ record = [e \in Evidence |-> "absent"]
    /\ owner = [e \in Evidence |-> NoOne]
    /\ ledger = [t \in Tenants |-> << >>]
    /\ pc = [e \in Evidence |-> "new"]
    /\ snapshot = [e \in Evidence |-> << >>]
    /\ lock = [t \in Tenants |-> NoOne]
    /\ verifying = [v \in Verifiers |-> NoCheck]
    /\ lostAck = {}
    /\ faults = 0

Goto(e, place) == pc' = [pc EXCEPT ![e] = place]

Fault == faults < MaxFaults /\ faults' = faults + 1

-----------------------------------------------------------------------------
(* createEvidence, up to the transaction.                                  *)

PutObject(e, t) ==
    /\ pc[e] = "new"
    /\ owner' = [owner EXCEPT ![e] = t]
    /\ \/ /\ object' = [object EXCEPT ![e] = "stored"]
          /\ Goto(e, "stored")
          /\ UNCHANGED faults
       \/ /\ Fault              \* the call throws, whether or not it stored the bytes
          /\ \E stored \in {"absent", "stored"} : object' = [object EXCEPT ![e] = stored]
          /\ Goto(e, "failed")
    /\ UNCHANGED <<record, ledger, snapshot, lock, verifying, lostAck>>

(* The first statement of the transaction: every later read sees the       *)
(* database as of now.                                                     *)
BeginTransaction(e) ==
    /\ pc[e] = "stored"
    /\ snapshot' = [snapshot EXCEPT ![e] = ledger[owner[e]]]
    /\ Goto(e, "waiting")
    /\ UNCHANGED <<object, record, owner, ledger, lock, verifying, lostAck, faults>>

TakeLock(e) ==
    /\ pc[e] = "waiting"
    /\ lock[owner[e]] = NoOne
    /\ lock' = [lock EXCEPT ![owner[e]] = e]
    /\ Goto(e, "appending")
    /\ UNCHANGED <<object, record, owner, ledger, snapshot, verifying, lostAck, faults>>

-----------------------------------------------------------------------------
(* appendInTransaction and the end of the transaction.  A chain is a       *)
(* function from sequence numbers to entries.                              *)

LastSequence(chain) ==
    IF DOMAIN chain = {} THEN 0
    ELSE CHOOSE s \in DOMAIN chain : \A other \in DOMAIN chain : other <= s

\* deviation: the entry does not commit to its predecessor
HeadHashForgotten(chain) == << >>

HeadHash(chain) ==
    IF DOMAIN chain = {} THEN << >> ELSE chain[LastSequence(chain)].hash

NewEntry(e, chain) ==
    [evidence |-> e,
     previous |-> HeadHash(chain),
     hash     |-> Append(HeadHash(chain), <<LastSequence(chain) + 1, e>>)]

Extended(chain, sequence, entry) ==
    [s \in DOMAIN chain \cup {sequence} |-> IF s = sequence THEN entry ELSE chain[s]]

\* deviation: without the unique index (and at READ COMMITTED) nothing refuses the entry
SequenceTakenUnchecked(e) == FALSE

\* deviation: the index is on the sequence alone
SequenceTakenByAnyTenant(e) ==
    \E t \in Tenants : LastSequence(snapshot[e]) + 1 \in DOMAIN ledger[t]

(* @@unique([tenant_id, sequence]): the sequence computed from the         *)
(* snapshot was taken by a transaction that committed since.               *)
SequenceTaken(e) == LastSequence(snapshot[e]) + 1 \in DOMAIN ledger[owner[e]]

(* The end of a transaction, either way, gives up its snapshot and lock.   *)
Release(e) ==
    /\ snapshot' = [snapshot EXCEPT ![e] = << >>]
    /\ lock' = [t \in Tenants |-> IF lock[t] = e THEN NoOne ELSE lock[t]]

Commit(e) ==
    /\ pc[e] = "appending"
    /\ ~SequenceTaken(e)
    /\ record' = [record EXCEPT ![e] = "PENDING"]
    /\ ledger' = [ledger EXCEPT ![owner[e]] =
                     Extended(@, LastSequence(snapshot[e]) + 1, NewEntry(e, snapshot[e]))]
    /\ Release(e)
    /\ \/ Goto(e, "done") /\ UNCHANGED <<lostAck, faults>>
       \/ Fault /\ Goto(e, "cleanup") /\ lostAck' = lostAck \cup {e}
    /\ UNCHANGED <<object, owner, verifying>>

Conflict(e) ==
    /\ pc[e] = "appending"
    /\ SequenceTaken(e)
    /\ Release(e)
    /\ Goto(e, "cleanup")
    /\ UNCHANGED <<object, record, owner, ledger, verifying, lostAck, faults>>

(* The transaction is refused for another reason: its time is up, the      *)
(* database is away, the case or the parent is not the tenant's.           *)
Abort(e) ==
    /\ pc[e] \in InTransaction
    /\ Fault
    /\ Release(e)
    /\ Goto(e, "cleanup")
    /\ UNCHANGED <<object, record, owner, ledger, verifying, lostAck>>

\* deviation: the error is rethrown and the object left behind
CleanupForgotten(e) ==
    /\ pc[e] = "cleanup"
    /\ Goto(e, "failed")
    /\ UNCHANGED <<object, record, owner, ledger, snapshot, lock, verifying, lostAck, faults>>

(* catch: the object is deleted; a failure of the deletion is logged.      *)
Cleanup(e) ==
    /\ pc[e] = "cleanup"
    /\ \/ object' = [object EXCEPT ![e] = "absent"] /\ UNCHANGED faults
       \/ Fault /\ UNCHANGED object
    /\ Goto(e, "failed")
    /\ UNCHANGED <<record, owner, ledger, snapshot, lock, verifying, lostAck>>

-----------------------------------------------------------------------------
(* verify: the record and the bytes are read, the verdict written later,   *)
(* whatever has been written in between.                                   *)

ReadObject(v, e) ==
    /\ verifying[v] = NoCheck
    /\ record[e] # "absent"
    /\ object[e] # "absent"          \* getObject throws, and nothing is written
    /\ verifying' = [verifying EXCEPT ![v] = [evidence |-> e, bytes |-> object[e]]]
    /\ UNCHANGED <<object, record, owner, ledger, pc, snapshot, lock, lostAck, faults>>

\* deviation: a failed check replaces content_hash by the hash it recomputed
VerdictRebaselined(check) ==
    IF check.bytes = "stored" \/ record[check.evidence] = "FAILED" THEN "VERIFIED" ELSE "FAILED"

(* The bytes hash to content_hash exactly when they are those stored.      *)
Verdict(check) == IF check.bytes = "stored" THEN "VERIFIED" ELSE "FAILED"

WriteVerdict(v) ==
    /\ verifying[v] # NoCheck
    /\ record' = [record EXCEPT ![verifying[v].evidence] = Verdict(verifying[v])]
    /\ verifying' = [verifying EXCEPT ![v] = NoCheck]
    /\ UNCHANGED <<object, owner, ledger, pc, snapshot, lock, lostAck, faults>>

-----------------------------------------------------------------------------
(* The environment.                                                        *)

(* A pod dies: the database rolls its transaction back.                    *)
Crash(e) ==
    /\ pc[e] \notin AtRest
    /\ Fault
    /\ Release(e)
    /\ Goto(e, "crashed")
    /\ UNCHANGED <<object, record, owner, ledger, verifying, lostAck>>

(* Someone with the bucket's credentials overwrites stored bytes.          *)
Alter(e) ==
    /\ object[e] = "stored"
    /\ Fault
    /\ object' = [object EXCEPT ![e] = "altered"]
    /\ UNCHANGED <<record, owner, ledger, pc, snapshot, lock, verifying, lostAck>>

Step(e) == BeginTransaction(e) \/ TakeLock(e) \/ Commit(e) \/ Conflict(e) \/ Cleanup(e)

Next ==
    \/ \E e \in Evidence, t \in Tenants : PutObject(e, t)
    \/ \E e \in Evidence : Step(e) \/ Abort(e) \/ Crash(e) \/ Alter(e)
    \/ \E v \in Verifiers, e \in Evidence : ReadObject(v, e)
    \/ \E v \in Verifiers : WriteVerdict(v)

Spec == Init /\ [][Next]_vars

-----------------------------------------------------------------------------
(* Type invariant: rows, calls and locks have the values the code gives    *)
(* them, and a tenant's sequence numbers are positive.                     *)
Entry == [evidence : Evidence, previous : Seq(Nat \X Evidence), hash : Seq(Nat \X Evidence)]

ChainOK(chain) ==
    /\ DOMAIN chain \subseteq Nat \ {0}
    /\ \A s \in DOMAIN chain : chain[s] \in Entry

TypeOK ==
    /\ object \in [Evidence -> {"absent", "stored", "altered"}]
    /\ record \in [Evidence -> {"absent", "PENDING", "VERIFIED", "FAILED"}]
    /\ owner \in [Evidence -> Tenants \cup {NoOne}]
    /\ pc \in [Evidence -> AtRest \cup InTransaction \cup {"stored", "cleanup"}]
    /\ lock \in [Tenants -> Evidence \cup {NoOne}]
    /\ verifying \in [Verifiers -> {NoCheck} \cup [evidence : Evidence, bytes : {"stored", "altered"}]]
    /\ lostAck \subseteq Evidence
    /\ faults \in 0..MaxFaults
    /\ DOMAIN ledger = Tenants /\ \A t \in Tenants : ChainOK(ledger[t])
    /\ DOMAIN snapshot = Evidence /\ \A e \in Evidence : ChainOK(snapshot[e])

(* verifyChain: walked in order of sequence, every entry names the hash of *)
(* the entry before it and hashes to what it says.                         *)
Linked(chain) ==
    \A s \in DOMAIN chain :
        /\ chain[s].previous = IF s = 1 THEN << >> ELSE chain[s - 1].hash
        /\ chain[s].hash = Append(chain[s].previous, <<s, chain[s].evidence>>)

(* However calls overlap, fail or die, verifyChain never reports a break   *)
(* in a tenant's ledger and its sequence has no gap                        *)
(* (evidence-ledger.service.ts:36-74, 84-117).                             *)
ChainVerifies ==
    \A t \in Tenants :
        /\ \A s \in DOMAIN ledger[t] : s = 1 \/ s - 1 \in DOMAIN ledger[t]
        /\ Linked(ledger[t])

(* An evidence row exists exactly when one entry of its tenant's ledger,   *)
(* and of no other's, commits to it: neither a failed call nor a pod that  *)
(* dies leaves one without the other (evidence.service.ts:122-240).        *)
Holds(t, s, e) == s \in DOMAIN ledger[t] /\ ledger[t][s].evidence = e

RecordsAreLedgered ==
    \A e \in Evidence :
        /\ record[e] # "absent" <=> \E t \in Tenants : \E s \in DOMAIN ledger[t] : Holds(t, s, e)
        /\ \A t1, t2 \in Tenants : \A s1 \in DOMAIN ledger[t1], s2 \in DOMAIN ledger[t2] :
               Holds(t1, s1, e) /\ Holds(t2, s2, e) => t1 = owner[e] /\ t2 = owner[e] /\ s1 = s2

(* The cleanup never takes the bytes of evidence that exists, save when    *)
(* the database had committed and the answer was lost; and without faults  *)
(* no call that ended leaves bytes that no row refers to                   *)
(* (evidence.service.ts:246-255).                                          *)
ObjectsMatchRecords ==
    \A e \in Evidence :
        /\ record[e] # "absent" /\ object[e] = "absent" => e \in lostAck
        /\ pc[e] = "failed" /\ object[e] # "absent" => faults > 0

(* The calls of a tenant cannot all defeat each other: when one failed     *)
(* with no fault to blame, another of the same tenant succeeded            *)
(* (evidence-ledger.service.ts:42-50).                                     *)
SomeoneWins ==
    faults = 0 =>
        \A e \in Evidence : pc[e] = "failed" =>
            \E winner \in Evidence : record[winner] # "absent" /\ owner[winner] = owner[e]

(* Evidence found altered stays FAILED, save for a verification that read  *)
(* the bytes before they were altered and writes its verdict after         *)
(* (evidence-verification.service.ts:40-79).                               *)
DetectionSticks ==
    [][\A e \in Evidence :
          record[e] = "FAILED" /\ record'[e] # "FAILED" =>
              \E v \in Verifiers : verifying[v] = [evidence |-> e, bytes |-> "stored"]]_record

(* The ledger implements one append-only log per tenant: read in order of  *)
(* sequence, its entries are the log.                                      *)
LogOf(chain) == [s \in 1..LastSequence(chain) |-> chain[s].evidence]

Log == INSTANCE AppendOnlyLog
         WITH Owners <- Tenants, Items <- Evidence,
              log <- [t \in Tenants |-> LogOf(ledger[t])]

(* Every step of the code appends one item of evidence to one log or       *)
(* leaves all logs alone: no entry is ever replaced, removed or reordered, *)
(* so a head an audit package was anchored to stays on the chain           *)
(* (audit-package-freeze.service.ts:86).                                   *)
LedgerIsAppendOnly == Log!Spec
=============================================================================
