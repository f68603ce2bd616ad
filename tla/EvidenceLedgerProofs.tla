------------------------ MODULE EvidenceLedgerProofs ------------------------
(***************************************************************************)
(* Proofs about EvidenceLedger, for any number of calls, tenants,          *)
(* verifications and faults.                                               *)
(***************************************************************************)
EXTENDS EvidenceLedger, TLAPS

(* A chain without a gap. *)
Whole(chain) == \E n \in Nat : DOMAIN chain = 1..n

IsPrefix(chain, longer) ==
    /\ DOMAIN chain \subseteq DOMAIN longer
    /\ \A s \in DOMAIN chain : chain[s] = longer[s]

Chains == \A t \in Tenants : Whole(ledger[t]) /\ Linked(ledger[t])

(* What makes a stale snapshot harmless: it is where the chain once was,   *)
(* so an entry computed from it fits the chain or meets the unique index.  *)
Snapshots ==
    \A e \in Evidence :
        /\ Whole(snapshot[e])
        /\ pc[e] \in InTransaction => IsPrefix(snapshot[e], ledger[owner[e]])

(* A call before its commit owns a tenant, has bytes and has no row.       *)
Before ==
    \A e \in Evidence :
        /\ pc[e] \in {"new", "stored"} \cup InTransaction => record[e] = "absent"
        /\ pc[e] \in {"stored"} \cup InTransaction => owner[e] \in Tenants /\ object[e] # "absent"
        /\ record[e] # "absent" => owner[e] \in Tenants
        /\ pc[e] = "cleanup" /\ record[e] # "absent" => e \in lostAck

Checks == \A v \in Verifiers : verifying[v] # NoCheck => record[verifying[v].evidence] # "absent"

Winners ==
    faults = 0 =>
        \A e \in Evidence : pc[e] \in {"cleanup", "failed"} =>
            \E winner \in Evidence : record[winner] # "absent" /\ owner[winner] = owner[e]

IInv ==
    /\ TypeOK
    /\ Chains
    /\ Snapshots
    /\ Before
    /\ Checks
    /\ Winners
    /\ RecordsAreLedgered
    /\ ObjectsMatchRecords

-----------------------------------------------------------------------------
(* Chains. *)

LEMMA LastIs ==
  ASSUME NEW chain, NEW n \in Nat, DOMAIN chain = 1..n
  PROVE  LastSequence(chain) = n
<1>1. CASE n = 0
  BY <1>1 DEF LastSequence
<1>2. CASE n # 0
  <2>1. n \in DOMAIN chain /\ \A other \in DOMAIN chain : other <= n
    BY <1>2
  <2>2. \A s \in DOMAIN chain : (\A other \in DOMAIN chain : other <= s) => s = n
    BY <2>1
  <2> QED BY <2>1, <2>2 DEF LastSequence
<1> QED BY <1>1, <1>2

LEMMA ExtendedIs ==
  ASSUME NEW chain, NEW n \in Nat, DOMAIN chain = 1..n, NEW entry
  PROVE  LET longer == Extended(chain, n + 1, entry)
         IN  /\ DOMAIN longer = 1 .. n + 1
             /\ longer[n + 1] = entry
             /\ \A s \in 1..n : longer[s] = chain[s]
<1>1. DOMAIN chain \cup {n + 1} = 1 .. n + 1
  OBVIOUS
<1> QED BY <1>1 DEF Extended

(* The new entry fits the end of the chain it was computed from, and of    *)
(* every chain that is the same up to there.                               *)
LEMMA ExtendedLinks ==
  ASSUME NEW chain, NEW n \in Nat, DOMAIN chain = 1..n, Linked(chain),
         NEW e, NEW stale, DOMAIN stale = 1..n, \A s \in 1..n : stale[s] = chain[s]
  PROVE  Linked(Extended(chain, n + 1, NewEntry(e, stale)))
<1> DEFINE longer == Extended(chain, n + 1, NewEntry(e, stale))
<1>1. /\ DOMAIN longer = 1 .. n + 1
      /\ longer[n + 1] = NewEntry(e, stale)
      /\ \A s \in 1..n : longer[s] = chain[s]
  BY ExtendedIs
<1> HIDE DEF longer
<1>2. LastSequence(stale) = n
  BY LastIs
<1>3. HeadHash(stale) = IF n + 1 = 1 THEN << >> ELSE chain[n].hash
  BY <1>2 DEF HeadHash
<1>4. /\ longer[n + 1].evidence = e
      /\ longer[n + 1].previous = HeadHash(stale)
      /\ longer[n + 1].hash = Append(HeadHash(stale), <<n + 1, e>>)
  <2>1. NewEntry(e, stale) = [evidence |-> e,
                              previous |-> HeadHash(stale),
                              hash     |-> Append(HeadHash(stale), <<n + 1, e>>)]
    BY ONLY <1>2, Zenon DEF NewEntry
  <2> QED BY <1>1, <2>1
<1>5. ASSUME NEW s \in DOMAIN longer
      PROVE  /\ longer[s].previous = IF s = 1 THEN << >> ELSE longer[s - 1].hash
             /\ longer[s].hash = Append(longer[s].previous, <<s, longer[s].evidence>>)
  <2>1. CASE s = n + 1
    <3>1. n + 1 # 1 => n \in 1..n /\ longer[n] = chain[n] /\ (n + 1) - 1 = n
      BY <1>1
    <3> QED BY <2>1, <3>1, <1>3, <1>4
  <2>2. CASE s # n + 1
    <3>1. s \in 1..n /\ (s # 1 => s - 1 \in 1..n)
      BY <1>1, <2>2
    <3> QED BY <3>1, <1>1 DEF Linked
  <2> QED BY <2>1, <2>2
<1> QED BY <1>5 DEF Linked, longer

LEMMA NewEntryTyped ==
  ASSUME NEW e \in Evidence, NEW chain, NEW n \in Nat, DOMAIN chain = 1..n, ChainOK(chain)
  PROVE  NewEntry(e, chain) \in Entry
<1>1. LastSequence(chain) = n
  BY LastIs
<1>2. HeadHash(chain) \in Seq(Nat \X Evidence)
  <2>1. CASE n = 0
    BY <2>1 DEF HeadHash
  <2>2. CASE n # 0
    BY <2>2, <1>1 DEF HeadHash, ChainOK, Entry
  <2> QED BY <2>1, <2>2
<1>3. Append(HeadHash(chain), <<n + 1, e>>) \in Seq(Nat \X Evidence)
  BY <1>2
<1> QED BY <1>1, <1>2, <1>3 DEF NewEntry, Entry

(* What a snapshot that is not stale in the end tells about the chain. *)
LEMMA FreshSnapshot ==
  ASSUME TypeOK, Chains, Snapshots, Before, NEW e \in Evidence, pc[e] = "appending", ~SequenceTaken(e)
  PROVE  \E n \in Nat :
            /\ DOMAIN ledger[owner[e]] = 1..n
            /\ DOMAIN snapshot[e] = 1..n
            /\ \A s \in 1..n : snapshot[e][s] = ledger[owner[e]][s]
            /\ LastSequence(snapshot[e]) = n
<1>1. owner[e] \in Tenants /\ IsPrefix(snapshot[e], ledger[owner[e]])
  BY DEF Snapshots, Before, InTransaction
<1>2. PICK m \in Nat : DOMAIN ledger[owner[e]] = 1..m
  BY <1>1 DEF Chains, Whole
<1>3. PICK n \in Nat : DOMAIN snapshot[e] = 1..n
  BY DEF Snapshots, Whole
<1>4. LastSequence(snapshot[e]) = n
  BY <1>3, LastIs
<1>5. n + 1 \notin 1..m /\ 1..n \subseteq 1..m
  BY <1>1, <1>2, <1>3, <1>4 DEF SequenceTaken, IsPrefix
<1>6. m = n
  <2>1. m < n + 1
    BY <1>5
  <2>2. n = 0 \/ n \in 1..m
    BY <1>5
  <2> QED BY <2>1, <2>2
<1> QED BY <1>1, <1>2, <1>3, <1>4, <1>6 DEF IsPrefix

LEMMA EmptyChain == Whole(<< >>) /\ Linked(<< >>) /\ ChainOK(<< >>) /\ \A chain : IsPrefix(<< >>, chain)
<1>1. DOMAIN << >> = 1..0 /\ 1..0 = {}
  OBVIOUS
<1> QED BY <1>1 DEF Whole, Linked, ChainOK, IsPrefix

-----------------------------------------------------------------------------
(* What most steps leave alone. *)

LEMMA LedgerFrame ==
  ASSUME Chains, RecordsAreLedgered, Checks, UNCHANGED <<record, owner, ledger, verifying>>
  PROVE  Chains' /\ RecordsAreLedgered' /\ Checks'
<1>1. Chains'
  BY DEF Chains
<1>2. RecordsAreLedgered'
  BY DEF RecordsAreLedgered, Holds
<1>3. Checks'
  BY DEF Checks
<1> QED BY <1>1, <1>2, <1>3

(* A transaction ends without changing the ledger. *)
LEMMA RollbackFrame ==
  ASSUME IInv, NEW e \in Evidence, NEW place \in {"cleanup", "crashed"}, pc[e] \notin AtRest,
         Goto(e, place), Release(e), UNCHANGED <<object, record, owner, ledger, verifying, lostAck>>,
         place = "cleanup" => pc[e] \in InTransaction,
         faults' \in 0..MaxFaults, faults' = 0 => faults = 0,
         place = "cleanup" /\ faults' = 0 =>
            \E winner \in Evidence : record[winner] # "absent" /\ owner[winner] = owner[e]
  PROVE  IInv'
<1> USE DEF IInv, Goto, Release
<1>0. pc'[e] = place /\ snapshot'[e] = << >> /\ \A other \in Evidence \ {e} :
         pc'[other] = pc[other] /\ snapshot'[other] = snapshot[other]
  BY DEF TypeOK
<1>1. TypeOK'
  <2>1. ChainOK(<< >>)
    BY EmptyChain
  <2>2. \A other \in Evidence : ChainOK(snapshot'[other])
    BY <2>1, <1>0 DEF TypeOK
  <2>3. pc' \in [Evidence -> AtRest \cup InTransaction \cup {"stored", "cleanup"}]
    BY DEF TypeOK, AtRest
  <2>4. lock' \in [Tenants -> Evidence \cup {NoOne}]
    BY DEF TypeOK
  <2>5. DOMAIN snapshot' = Evidence
    BY DEF TypeOK
  <2> QED BY <2>2, <2>3, <2>4, <2>5 DEF TypeOK, ChainOK
<1>2. Chains' /\ RecordsAreLedgered' /\ Checks'
  BY LedgerFrame
<1>3. Snapshots'
  <2>1. ASSUME NEW other \in Evidence
        PROVE  /\ Whole(snapshot'[other])
               /\ pc'[other] \in InTransaction => IsPrefix(snapshot'[other], ledger'[owner'[other]])
    <3>1. CASE other = e
      BY <3>1, <1>0, EmptyChain
    <3>2. CASE other # e
      BY <3>2, <1>0 DEF Snapshots
    <3> QED BY <3>1, <3>2
  <2> QED BY <2>1 DEF Snapshots, Whole, IsPrefix
<1>4. Before'
  BY <1>0 DEF Before, InTransaction, AtRest
<1>5. Winners'
  BY <1>0 DEF Winners, InTransaction
<1>6. ObjectsMatchRecords'
  <2>1. ASSUME NEW other \in Evidence
        PROVE  /\ record'[other] # "absent" /\ object'[other] = "absent" => other \in lostAck'
               /\ pc'[other] = "failed" /\ object'[other] # "absent" => faults' > 0
    BY <1>0 DEF ObjectsMatchRecords, TypeOK
  <2> QED BY <2>1 DEF ObjectsMatchRecords
<1> QED BY <1>1, <1>2, <1>3, <1>4, <1>5, <1>6

LEMMA InitHolds == Init => IInv
<1> SUFFICES ASSUME Init PROVE IInv
  OBVIOUS
<1>1. TypeOK
  BY EmptyChain, ConstantsAssumption DEF Init, TypeOK, AtRest
<1>2. Chains /\ Snapshots
  BY EmptyChain DEF Init, Chains, Snapshots, InTransaction
<1>3. Before /\ Checks /\ Winners /\ ObjectsMatchRecords
  BY DEF Init, Before, Checks, Winners, ObjectsMatchRecords, InTransaction
<1>4. RecordsAreLedgered
  <2>1. \A t \in Tenants : DOMAIN ledger[t] = {}
    BY DEF Init
  <2> QED BY <2>1 DEF Init, RecordsAreLedgered, Holds
<1> QED BY <1>1, <1>2, <1>3, <1>4 DEF IInv

-----------------------------------------------------------------------------
(* The actions. *)

LEMMA PutObjectSafe ==
  ASSUME IInv, NEW e \in Evidence, NEW t \in Tenants, PutObject(e, t)
  PROVE  IInv'
<1> USE DEF IInv
<1>0. /\ pc[e] = "new" /\ record[e] = "absent"
      /\ pc'[e] \in {"stored", "failed"} /\ owner'[e] = t
      /\ pc'[e] = "stored" => object'[e] # "absent" /\ faults' = faults
      /\ pc'[e] = "failed" => faults' = faults + 1 /\ faults < MaxFaults
      /\ object'[e] \in {"absent", "stored"}
      /\ \A other \in Evidence \ {e} :
            pc'[other] = pc[other] /\ owner'[other] = owner[other] /\ object'[other] = object[other]
      /\ UNCHANGED <<record, ledger, snapshot, lock, verifying, lostAck>>
  BY DEF TypeOK, PutObject, Before, Goto, Fault
<1>1. TypeOK'
  <2>1. /\ pc' \in [Evidence -> AtRest \cup InTransaction \cup {"stored", "cleanup"}]
        /\ object' \in [Evidence -> {"absent", "stored", "altered"}]
        /\ owner' \in [Evidence -> Tenants \cup {NoOne}]
        /\ faults' \in 0..MaxFaults
    BY ConstantsAssumption DEF TypeOK, PutObject, Goto, Fault, AtRest
  <2> QED BY <2>1, <1>0 DEF TypeOK, ChainOK
<1>2. Chains' /\ Checks'
  BY <1>0 DEF Chains, Checks
<1>3. Snapshots'
  <2>1. \A other \in Evidence : pc'[other] \in InTransaction => other # e
    BY <1>0 DEF InTransaction
  <2> QED BY <1>0, <2>1 DEF Snapshots
<1>4. Before'
  BY <1>0 DEF Before, InTransaction
<1>5. Winners'
  <2> SUFFICES ASSUME faults' = 0, NEW other \in Evidence, pc'[other] \in {"cleanup", "failed"}
               PROVE  \E winner \in Evidence : record'[winner] # "absent" /\ owner'[winner] = owner'[other]
    BY DEF Winners
  <2>1. faults = 0 /\ other # e
    BY <1>0 DEF TypeOK
  <2>2. PICK winner \in Evidence : record[winner] # "absent" /\ owner[winner] = owner[other]
    BY <2>1, <1>0 DEF Winners
  <2> QED BY <1>0, <2>1, <2>2
<1>6. RecordsAreLedgered'
  <2>1. \A a \in Tenants : \A s \in DOMAIN ledger[a] : ~Holds(a, s, e)
    BY <1>0 DEF RecordsAreLedgered
  <2>2. \A a, s, other : Holds(a, s, other)' <=> Holds(a, s, other)
    BY <1>0 DEF Holds
  <2> QED BY <1>0, <2>1, <2>2 DEF RecordsAreLedgered
<1>7. ObjectsMatchRecords'
  BY <1>0 DEF ObjectsMatchRecords, TypeOK
<1> QED BY <1>1, <1>2, <1>3, <1>4, <1>5, <1>6, <1>7

LEMMA BeginTransactionSafe ==
  ASSUME IInv, NEW e \in Evidence, BeginTransaction(e)
  PROVE  IInv'
<1> USE DEF IInv
<1>0. /\ pc[e] = "stored" /\ pc'[e] = "waiting" /\ snapshot'[e] = ledger[owner[e]]
      /\ owner[e] \in Tenants
      /\ \A other \in Evidence \ {e} : pc'[other] = pc[other] /\ snapshot'[other] = snapshot[other]
      /\ UNCHANGED <<object, record, owner, ledger, lock, verifying, lostAck, faults>>
  BY DEF TypeOK, BeginTransaction, Before, Goto
<1>1. TypeOK'
  <2>1. pc' \in [Evidence -> AtRest \cup InTransaction \cup {"stored", "cleanup"}]
    BY DEF TypeOK, BeginTransaction, Goto, InTransaction
  <2>2. DOMAIN snapshot' = Evidence /\ \A other \in Evidence : ChainOK(snapshot'[other])
    BY <1>0 DEF TypeOK, BeginTransaction
  <2> QED BY <2>1, <2>2, <1>0 DEF TypeOK, ChainOK
<1>2. Chains' /\ RecordsAreLedgered' /\ Checks'
  BY <1>0, LedgerFrame
<1>3. Snapshots'
  <2>1. Whole(ledger[owner[e]]) /\ IsPrefix(ledger[owner[e]], ledger[owner[e]])
    BY <1>0 DEF Chains, IsPrefix
  <2>2. ASSUME NEW other \in Evidence
        PROVE  /\ Whole(snapshot'[other])
               /\ pc'[other] \in InTransaction => IsPrefix(snapshot'[other], ledger'[owner'[other]])
    <3>1. CASE other = e
      BY <3>1, <1>0, <2>1
    <3>2. CASE other # e
      BY <3>2, <1>0 DEF Snapshots
    <3> QED BY <3>1, <3>2
  <2> QED BY <2>2 DEF Snapshots, Whole, IsPrefix
<1>4. Before'
  BY <1>0 DEF Before, InTransaction
<1>5. Winners' /\ ObjectsMatchRecords'
  BY <1>0 DEF Winners, ObjectsMatchRecords
<1> QED BY <1>1, <1>2, <1>3, <1>4, <1>5

LEMMA TakeLockSafe ==
  ASSUME IInv, NEW e \in Evidence, TakeLock(e)
  PROVE  IInv'
<1> USE DEF IInv
<1>0. /\ pc[e] = "waiting" /\ pc'[e] = "appending"
      /\ \A other \in Evidence \ {e} : pc'[other] = pc[other]
      /\ UNCHANGED <<object, record, owner, ledger, snapshot, verifying, lostAck, faults>>
  BY DEF TypeOK, TakeLock, Goto
<1>1. TypeOK'
  <2>1. pc' \in [Evidence -> AtRest \cup InTransaction \cup {"stored", "cleanup"}]
    BY DEF TypeOK, TakeLock, Goto, InTransaction
  <2>2. lock' \in [Tenants -> Evidence \cup {NoOne}]
    BY DEF TypeOK, TakeLock
  <2> QED BY <2>1, <2>2, <1>0 DEF TypeOK, ChainOK
<1>2. Chains' /\ RecordsAreLedgered' /\ Checks'
  BY <1>0, LedgerFrame
<1>3. Snapshots'
  BY <1>0 DEF Snapshots, InTransaction
<1>4. Before'
  BY <1>0 DEF Before, InTransaction
<1>5. Winners' /\ ObjectsMatchRecords'
  BY <1>0 DEF Winners, ObjectsMatchRecords
<1> QED BY <1>1, <1>2, <1>3, <1>4, <1>5

LEMMA ConflictSafe ==
  ASSUME IInv, NEW e \in Evidence, Conflict(e)
  PROVE  IInv'
<1> USE DEF IInv
<1>1. pc[e] = "appending" /\ owner[e] \in Tenants /\ SequenceTaken(e)
  BY DEF Conflict, Before, InTransaction
<1>2. PICK s : s \in DOMAIN ledger[owner[e]]
  BY <1>1 DEF SequenceTaken
<1>3. ledger[owner[e]][s].evidence \in Evidence
  BY <1>1, <1>2 DEF TypeOK, ChainOK, Entry
<1>4. Holds(owner[e], s, ledger[owner[e]][s].evidence)
  BY <1>2 DEF Holds
<1>5. /\ record[ledger[owner[e]][s].evidence] # "absent"
      /\ owner[ledger[owner[e]][s].evidence] = owner[e]
  BY <1>1, <1>2, <1>3, <1>4 DEF RecordsAreLedgered
<1>6. /\ pc[e] \notin AtRest /\ pc[e] \in InTransaction /\ faults \in 0..MaxFaults
      /\ Goto(e, "cleanup") /\ Release(e)
      /\ UNCHANGED <<object, record, owner, ledger, verifying, lostAck, faults>>
  BY <1>1 DEF Conflict, AtRest, InTransaction, TypeOK
<1> QED BY <1>3, <1>5, <1>6, RollbackFrame DEF TypeOK

LEMMA AbortSafe ==
  ASSUME IInv, NEW e \in Evidence, Abort(e)
  PROVE  IInv'
<1>1. /\ pc[e] \notin AtRest /\ pc[e] \in InTransaction
      /\ faults' \in 0..MaxFaults /\ faults' # 0
      /\ Goto(e, "cleanup") /\ Release(e)
      /\ UNCHANGED <<object, record, owner, ledger, verifying, lostAck>>
  BY ConstantsAssumption DEF IInv, TypeOK, Abort, Fault, AtRest, InTransaction
<1> QED BY <1>1, RollbackFrame

LEMMA CrashSafe ==
  ASSUME IInv, NEW e \in Evidence, Crash(e)
  PROVE  IInv'
<1>1. /\ pc[e] \notin AtRest
      /\ faults' \in 0..MaxFaults /\ faults' # 0
      /\ Goto(e, "crashed") /\ Release(e)
      /\ UNCHANGED <<object, record, owner, ledger, verifying, lostAck>>
  BY ConstantsAssumption DEF IInv, TypeOK, Crash, Fault
<1> QED BY <1>1, RollbackFrame

LEMMA CleanupSafe ==
  ASSUME IInv, NEW e \in Evidence, Cleanup(e)
  PROVE  IInv'
<1> USE DEF IInv
<1>0. /\ pc[e] = "cleanup" /\ pc'[e] = "failed"
      /\ \A other \in Evidence \ {e} : pc'[other] = pc[other] /\ object'[other] = object[other]
      /\ \/ object'[e] = "absent" /\ faults' = faults
         \/ object'[e] = object[e] /\ faults' = faults + 1 /\ faults < MaxFaults
      /\ faults' \in 0..MaxFaults
      /\ UNCHANGED <<record, owner, ledger, snapshot, lock, verifying, lostAck>>
  BY ConstantsAssumption DEF TypeOK, Cleanup, Goto, Fault
<1>1. TypeOK'
  <2>1. pc' \in [Evidence -> AtRest \cup InTransaction \cup {"stored", "cleanup"}]
    BY DEF TypeOK, Cleanup, Goto, AtRest
  <2>2. object' \in [Evidence -> {"absent", "stored", "altered"}]
    BY DEF TypeOK, Cleanup
  <2> QED BY <2>1, <2>2, <1>0 DEF TypeOK, ChainOK
<1>2. Chains' /\ RecordsAreLedgered' /\ Checks'
  BY <1>0, LedgerFrame
<1>3. Snapshots'
  BY <1>0 DEF Snapshots, InTransaction
<1>4. Before'
  BY <1>0 DEF Before, InTransaction
<1>5. Winners'
  BY <1>0 DEF Winners, TypeOK
<1>6. ObjectsMatchRecords'
  BY <1>0 DEF ObjectsMatchRecords, Before, TypeOK
<1> QED BY <1>1, <1>2, <1>3, <1>4, <1>5, <1>6

LEMMA AlterSafe ==
  ASSUME IInv, NEW e \in Evidence, Alter(e)
  PROVE  IInv'
<1> USE DEF IInv
<1>0. /\ object[e] = "stored" /\ object'[e] = "altered"
      /\ \A other \in Evidence \ {e} : object'[other] = object[other]
      /\ faults' = faults + 1 /\ faults' \in 0..MaxFaults /\ faults' # 0
      /\ UNCHANGED <<record, owner, ledger, pc, snapshot, lock, verifying, lostAck>>
  BY ConstantsAssumption DEF TypeOK, Alter, Fault
<1>1. TypeOK'
  <2>1. object' \in [Evidence -> {"absent", "stored", "altered"}]
    BY DEF TypeOK, Alter
  <2> QED BY <2>1, <1>0 DEF TypeOK, ChainOK
<1>2. Chains' /\ RecordsAreLedgered' /\ Checks'
  BY <1>0, LedgerFrame
<1>3. Snapshots'
  BY <1>0 DEF Snapshots
<1>4. Before' /\ Winners'
  BY <1>0 DEF Before, Winners
<1>5. ObjectsMatchRecords'
  BY <1>0 DEF ObjectsMatchRecords, TypeOK
<1> QED BY <1>1, <1>2, <1>3, <1>4, <1>5

LEMMA ReadObjectSafe ==
  ASSUME IInv, NEW v \in Verifiers, NEW e \in Evidence, ReadObject(v, e)
  PROVE  IInv'
<1> USE DEF IInv
<1>0. /\ record[e] # "absent" /\ object[e] \in {"stored", "altered"}
      /\ verifying' = [verifying EXCEPT ![v] = [evidence |-> e, bytes |-> object[e]]]
      /\ verifying'[v] = [evidence |-> e, bytes |-> object[e]]
      /\ \A other \in Verifiers \ {v} : verifying'[other] = verifying[other]
      /\ UNCHANGED <<object, record, owner, ledger, pc, snapshot, lock, lostAck, faults>>
  BY DEF TypeOK, ReadObject
<1>1. TypeOK'
  BY <1>0 DEF TypeOK, ChainOK
<1>2. Chains' /\ Snapshots' /\ Before' /\ Winners' /\ ObjectsMatchRecords'
  BY <1>0 DEF Chains, Snapshots, Before, Winners, ObjectsMatchRecords
<1>3. RecordsAreLedgered'
  BY <1>0 DEF RecordsAreLedgered, Holds
<1>4. Checks'
  BY <1>0 DEF Checks
<1> QED BY <1>1, <1>2, <1>3, <1>4

LEMMA WriteVerdictSafe ==
  ASSUME IInv, NEW v \in Verifiers, WriteVerdict(v)
  PROVE  IInv'
<1> USE DEF IInv
<1> DEFINE e == verifying[v].evidence
<1>0. /\ e \in Evidence /\ record[e] # "absent"
      /\ record' = [record EXCEPT ![e] = Verdict(verifying[v])]
      /\ record'[e] \in {"VERIFIED", "FAILED"}
      /\ \A other \in Evidence \ {e} : record'[other] = record[other]
      /\ verifying' = [verifying EXCEPT ![v] = NoCheck]
      /\ UNCHANGED <<object, owner, ledger, pc, snapshot, lock, lostAck, faults>>
  BY DEF TypeOK, WriteVerdict, Checks, Verdict
<1> HIDE DEF e
<1>1. \A other \in Evidence : record'[other] = "absent" <=> record[other] = "absent"
  BY <1>0
<1>2. TypeOK'
  <2>1. record' \in [Evidence -> {"absent", "PENDING", "VERIFIED", "FAILED"}]
    BY <1>0 DEF TypeOK
  <2>2. verifying' \in [Verifiers -> {NoCheck} \cup [evidence : Evidence, bytes : {"stored", "altered"}]]
    BY <1>0 DEF TypeOK
  <2> QED BY <2>1, <2>2, <1>0 DEF TypeOK, ChainOK
<1>3. Chains' /\ Snapshots'
  BY <1>0 DEF Chains, Snapshots
<1>4. Before' /\ Winners' /\ ObjectsMatchRecords'
  BY <1>0, <1>1 DEF Before, Winners, ObjectsMatchRecords
<1>5. RecordsAreLedgered'
  BY <1>0, <1>1 DEF RecordsAreLedgered, Holds
<1>6. Checks'
  <2>1. \A other \in Verifiers : verifying'[other] # NoCheck => verifying'[other] = verifying[other]
    BY <1>0 DEF TypeOK
  <2>2. \A other \in Verifiers : verifying[other] # NoCheck => verifying[other].evidence \in Evidence
    BY DEF TypeOK
  <2> QED BY <1>1, <2>1, <2>2 DEF Checks
<1> QED BY <1>2, <1>3, <1>4, <1>5, <1>6

(* The one step that changes a ledger: the entry goes to the end of the    *)
(* owner's chain, and into a row that was not there.                       *)
LEMMA CommitFacts ==
  ASSUME IInv, NEW e \in Evidence, Commit(e)
  PROVE  \E n \in Nat :
            /\ owner[e] \in Tenants
            /\ DOMAIN ledger[owner[e]] = 1..n
            /\ DOMAIN ledger'[owner[e]] = 1 .. n + 1
            /\ \A s \in 1..n : ledger'[owner[e]][s] = ledger[owner[e]][s]
            /\ ledger'[owner[e]][n + 1].evidence = e
            /\ ledger'[owner[e]][n + 1] \in Entry
            /\ Linked(ledger'[owner[e]])
            /\ DOMAIN ledger' = Tenants
            /\ \A t \in Tenants \ {owner[e]} : ledger'[t] = ledger[t]
<1> USE DEF IInv
<1>1. /\ owner[e] \in Tenants /\ pc[e] = "appending" /\ ~SequenceTaken(e)
      /\ DOMAIN ledger = Tenants /\ ChainOK(snapshot[e])
      /\ Linked(ledger[owner[e]])
  BY DEF Commit, Before, InTransaction, TypeOK, Chains
<1>2. PICK n \in Nat :
            /\ DOMAIN ledger[owner[e]] = 1..n
            /\ DOMAIN snapshot[e] = 1..n
            /\ \A s \in 1..n : snapshot[e][s] = ledger[owner[e]][s]
            /\ LastSequence(snapshot[e]) = n
  BY <1>1, FreshSnapshot
<1> DEFINE entry == NewEntry(e, snapshot[e])
           longer == Extended(ledger[owner[e]], n + 1, entry)
<1>3. ledger' = [ledger EXCEPT ![owner[e]] = longer]
  BY <1>2 DEF Commit
<1>4. /\ ledger'[owner[e]] = longer
      /\ DOMAIN ledger' = Tenants
      /\ \A t \in Tenants \ {owner[e]} : ledger'[t] = ledger[t]
  BY <1>1, <1>3
<1>5. ASSUME NEW any
      PROVE  /\ DOMAIN Extended(ledger[owner[e]], n + 1, any) = 1 .. n + 1
             /\ Extended(ledger[owner[e]], n + 1, any)[n + 1] = any
             /\ \A s \in 1..n : Extended(ledger[owner[e]], n + 1, any)[s] = ledger[owner[e]][s]
  <2>1. n \in Nat /\ DOMAIN ledger[owner[e]] = 1..n
    BY <1>2
  <2> QED BY ONLY <2>1, ExtendedIs
<1>6. Linked(longer)
  BY <1>1, <1>2, ExtendedLinks
<1>7. entry \in Entry
  BY <1>1, <1>2, NewEntryTyped
<1>8. entry.evidence = e
  BY DEF NewEntry
<1> HIDE DEF entry
<1>9. /\ DOMAIN longer = 1 .. n + 1
      /\ longer[n + 1] = entry
      /\ \A s \in 1..n : longer[s] = ledger[owner[e]][s]
  BY <1>5
<1> HIDE DEF longer
<1> QED BY <1>1, <1>2, <1>4, <1>6, <1>7, <1>8, <1>9

LEMMA CommitSafe ==
  ASSUME IInv, NEW e \in Evidence, Commit(e)
  PROVE  IInv'
<1> USE DEF IInv
<1>1. PICK n \in Nat :
            /\ owner[e] \in Tenants
            /\ DOMAIN ledger[owner[e]] = 1..n
            /\ DOMAIN ledger'[owner[e]] = 1 .. n + 1
            /\ \A s \in 1..n : ledger'[owner[e]][s] = ledger[owner[e]][s]
            /\ ledger'[owner[e]][n + 1].evidence = e
            /\ ledger'[owner[e]][n + 1] \in Entry
            /\ Linked(ledger'[owner[e]])
            /\ DOMAIN ledger' = Tenants
            /\ \A t \in Tenants \ {owner[e]} : ledger'[t] = ledger[t]
  BY CommitFacts
<1>2. /\ pc[e] = "appending" /\ record[e] = "absent" /\ object[e] # "absent"
      /\ record'[e] = "PENDING"
      /\ \A other \in Evidence \ {e} : record'[other] = record[other]
      /\ snapshot'[e] = << >>
      /\ \A other \in Evidence \ {e} : snapshot'[other] = snapshot[other]
      /\ \A other \in Evidence \ {e} : pc'[other] = pc[other]
      /\ \/ pc'[e] = "done" /\ faults' = faults /\ lostAck' = lostAck
         \/ pc'[e] = "cleanup" /\ faults' = faults + 1 /\ lostAck' = lostAck \cup {e}
      /\ faults' \in 0..MaxFaults
      /\ UNCHANGED <<object, owner, verifying>>
  BY ConstantsAssumption DEF Commit, TypeOK, Before, Goto, Release, Fault, InTransaction
<1>3. TypeOK'
  <2>1. pc' \in [Evidence -> AtRest \cup InTransaction \cup {"stored", "cleanup"}]
    BY DEF TypeOK, Commit, Goto, AtRest
  <2>2. /\ record' \in [Evidence -> {"absent", "PENDING", "VERIFIED", "FAILED"}]
        /\ lock' \in [Tenants -> Evidence \cup {NoOne}]
        /\ DOMAIN snapshot' = Evidence
    BY DEF TypeOK, Commit, Release
  <2>3. \A t \in Tenants : ChainOK(ledger'[t])
    <3>1. ChainOK(ledger'[owner[e]])
      BY <1>1 DEF TypeOK, ChainOK
    <3> QED BY <1>1, <3>1 DEF TypeOK
  <2>4. \A other \in Evidence : ChainOK(snapshot'[other])
    BY <1>2, EmptyChain DEF TypeOK
  <2>5. lostAck' \subseteq Evidence
    BY <1>2 DEF TypeOK
  <2> QED BY <1>1, <1>2, <2>1, <2>2, <2>3, <2>4, <2>5 DEF TypeOK, ChainOK
<1>4. Chains'
  <2>1. ASSUME NEW t \in Tenants
        PROVE  Whole(ledger'[t]) /\ Linked(ledger'[t])
    <3>1. CASE t = owner[e]
      BY <3>1, <1>1 DEF Whole
    <3>2. CASE t # owner[e]
      BY <3>2, <1>1 DEF Chains
    <3> QED BY <3>1, <3>2
  <2> QED BY <2>1 DEF Chains, Whole, Linked
<1>5. Snapshots'
  <2>1. ASSUME NEW other \in Evidence
        PROVE  /\ Whole(snapshot'[other])
               /\ pc'[other] \in InTransaction => IsPrefix(snapshot'[other], ledger'[owner'[other]])
    <3>1. CASE other = e
      BY <3>1, <1>2, EmptyChain
    <3>2. CASE other # e
      <4>1. Whole(snapshot'[other])
        BY <3>2, <1>2 DEF Snapshots
      <4>2. ASSUME pc'[other] \in InTransaction
            PROVE  IsPrefix(snapshot'[other], ledger'[owner'[other]])
        <5>1. /\ IsPrefix(snapshot[other], ledger[owner[other]])
              /\ owner[other] \in Tenants /\ owner'[other] = owner[other]
              /\ snapshot'[other] = snapshot[other]
          BY <3>2, <4>2, <1>2 DEF Snapshots, Before
        <5>2. IsPrefix(ledger[owner[other]], ledger'[owner[other]])
          <6>1. CASE owner[other] = owner[e]
            BY <6>1, <1>1 DEF IsPrefix
          <6>2. CASE owner[other] # owner[e]
            BY <6>2, <5>1, <1>1 DEF IsPrefix
          <6> QED BY <6>1, <6>2
        <5> QED BY <5>1, <5>2 DEF IsPrefix
      <4> QED BY <4>1, <4>2
    <3> QED BY <3>1, <3>2
  <2> QED BY <2>1 DEF Snapshots, Whole, IsPrefix
<1>6. Before'
  BY <1>1, <1>2 DEF Before, InTransaction
<1>7. Checks'
  <2>1. \A v \in Verifiers : verifying[v] # NoCheck => verifying[v].evidence \in Evidence
    BY DEF TypeOK
  <2>2. \A other \in Evidence : record[other] # "absent" => record'[other] # "absent"
    BY <1>2
  <2> QED BY <1>2, <2>1, <2>2 DEF Checks
<1>8. Winners'
  BY <1>2 DEF Winners, TypeOK
<1>9. RecordsAreLedgered'
  <2>1. \A t \in Tenants : \A s \in DOMAIN ledger[t] : ~Holds(t, s, e)
    BY <1>2 DEF RecordsAreLedgered
  <2>2. ASSUME NEW t \in Tenants, NEW s
        PROVE  /\ s \in DOMAIN ledger[t] => s \in DOMAIN ledger'[t] /\ ledger'[t][s] = ledger[t][s]
               /\ s \in DOMAIN ledger'[t] /\ s \notin DOMAIN ledger[t] => t = owner[e] /\ s = n + 1
    <3>1. CASE t = owner[e]
      BY <3>1, <1>1
    <3>2. CASE t # owner[e]
      BY <3>2, <1>1
    <3> QED BY <3>1, <3>2
  <2>3. ASSUME NEW t \in Tenants, NEW s, NEW other \in Evidence \ {e}
        PROVE  Holds(t, s, other)' <=> Holds(t, s, other)
    BY <2>2, <1>1 DEF Holds
  <2>4. ASSUME NEW t \in Tenants, NEW s
        PROVE  Holds(t, s, e)' <=> t = owner[e] /\ s = n + 1
    BY <2>1, <2>2, <1>1 DEF Holds
  <2>5. ASSUME NEW other \in Evidence
        PROVE  /\ record'[other] # "absent" <=>
                     \E t \in Tenants : \E s \in DOMAIN ledger'[t] : Holds(t, s, other)'
               /\ \A t1, t2 \in Tenants : \A s1 \in DOMAIN ledger'[t1], s2 \in DOMAIN ledger'[t2] :
                     Holds(t1, s1, other)' /\ Holds(t2, s2, other)' =>
                        t1 = owner'[other] /\ t2 = owner'[other] /\ s1 = s2
    <3>1. CASE other = e
      BY <3>1, <2>4, <1>1, <1>2
    <3>2. CASE other # e
      <4>1. \A t \in Tenants : \A s : Holds(t, s, other)' => s \in DOMAIN ledger[t] /\ s \in DOMAIN ledger'[t]
        BY <3>2, <2>2, <2>3 DEF Holds
      <4>2. record'[other] = record[other] /\ owner'[other] = owner[other]
        BY <3>2, <1>2
      <4>3. \A t \in Tenants : \A s : Holds(t, s, other)' <=> Holds(t, s, other)
        BY <3>2, <2>3
      <4>4. \A t \in Tenants : \A s \in DOMAIN ledger[t] : s \in DOMAIN ledger'[t]
        BY <2>2
      <4> QED BY <4>1, <4>2, <4>3, <4>4 DEF RecordsAreLedgered
    <3> QED BY <3>1, <3>2
  <2> QED BY <2>5 DEF RecordsAreLedgered
<1>10. ObjectsMatchRecords'
  BY <1>2 DEF ObjectsMatchRecords, TypeOK
<1> QED BY <1>3, <1>4, <1>5, <1>6, <1>7, <1>8, <1>9, <1>10

LEMMA NextSafe == IInv /\ [Next]_vars => IInv'
<1> SUFFICES ASSUME IInv, [Next]_vars PROVE IInv'
  OBVIOUS
<1>1. ASSUME NEW e \in Evidence, NEW t \in Tenants, PutObject(e, t) PROVE IInv'
  BY <1>1, PutObjectSafe
<1>2. ASSUME NEW e \in Evidence, Step(e) PROVE IInv'
  BY <1>2, BeginTransactionSafe, TakeLockSafe, CommitSafe, ConflictSafe, CleanupSafe DEF Step
<1>3. ASSUME NEW e \in Evidence, Abort(e) \/ Crash(e) \/ Alter(e) PROVE IInv'
  BY <1>3, AbortSafe, CrashSafe, AlterSafe
<1>4. ASSUME NEW v \in Verifiers, NEW e \in Evidence, ReadObject(v, e) PROVE IInv'
  BY <1>4, ReadObjectSafe
<1>5. ASSUME NEW v \in Verifiers, WriteVerdict(v) PROVE IInv'
  BY <1>5, WriteVerdictSafe
<1>6. CASE UNCHANGED vars
  BY <1>6 DEF vars, IInv, TypeOK, ChainOK, Chains, Snapshots, Before, Checks, Winners, Linked, Whole,
              RecordsAreLedgered, Holds, ObjectsMatchRecords, IsPrefix
<1> QED BY <1>1, <1>2, <1>3, <1>4, <1>5, <1>6 DEF Next

THEOREM Invariance == Spec => []IInv
<1>1. Init => IInv
  BY InitHolds
<1>2. IInv /\ [Next]_vars => IInv'
  BY NextSafe
<1> QED BY <1>1, <1>2, PTL DEF Spec

-----------------------------------------------------------------------------
(* The results.                                                            *)

(* Rows, calls and locks keep the values the code gives them, and sequence *)
(* numbers are positive (evidence.service.ts, evidence-ledger.service.ts). *)
THEOREM TypeCorrect == Spec => []TypeOK
<1>1. IInv => TypeOK
  BY DEF IInv
<1> QED BY <1>1, Invariance, PTL

(* verifyChain never reports a break or a gap, however many calls meet at  *)
(* the lock with however stale a snapshot (evidence-ledger.service.ts:     *)
(* 36-117).                                                                *)
THEOREM ChainIsWhole == Spec => []ChainVerifies
<1>1. IInv => ChainVerifies
  <2> SUFFICES ASSUME IInv, NEW t \in Tenants, NEW s \in DOMAIN ledger[t]
               PROVE  (s = 1 \/ s - 1 \in DOMAIN ledger[t]) /\ Linked(ledger[t])
    BY DEF ChainVerifies, IInv, Chains
  <2>1. PICK n \in Nat : DOMAIN ledger[t] = 1..n
    BY DEF IInv, Chains, Whole
  <2> QED BY <2>1 DEF IInv, Chains
<1> QED BY <1>1, Invariance, PTL

(* Row and ledger entry stand and fall together, whatever failed or died   *)
(* (evidence.service.ts:122-240).                                          *)
THEOREM EveryRecordIsLedgered == Spec => []RecordsAreLedgered
<1>1. IInv => RecordsAreLedgered
  BY DEF IInv
<1> QED BY <1>1, Invariance, PTL

(* The clean-up takes the bytes of a committed row only where the answer   *)
(* to the COMMIT was lost (evidence.service.ts:246-255).                   *)
THEOREM CleanupIsSafe == Spec => []ObjectsMatchRecords
<1>1. IInv => ObjectsMatchRecords
  BY DEF IInv
<1> QED BY <1>1, Invariance, PTL

(* The calls of a tenant never all defeat each other, however many race    *)
(* (evidence-ledger.service.ts:42-50).                                     *)
THEOREM OneAlwaysWins == Spec => []SomeoneWins
<1>1. IInv => SomeoneWins
  BY DEF IInv, Winners, SomeoneWins
<1> QED BY <1>1, Invariance, PTL

(* FAILED is left only by a verification that read the bytes before they   *)
(* were altered (evidence-verification.service.ts:40-79).                  *)
THEOREM DetectionLasts == Spec => DetectionSticks
<1>1. ASSUME IInv, [Next]_vars, NEW e \in Evidence, record[e] = "FAILED", record'[e] # "FAILED"
      PROVE  \E v \in Verifiers : verifying[v] = [evidence |-> e, bytes |-> "stored"]
  <2>1. ASSUME NEW v \in Verifiers, WriteVerdict(v)
        PROVE  verifying[v] = [evidence |-> e, bytes |-> "stored"]
    <3>0. verifying[v] # NoCheck
      BY <2>1 DEF WriteVerdict
    <3>1. verifying[v] \in [evidence : Evidence, bytes : {"stored", "altered"}]
      BY <1>1, <3>0 DEF IInv, TypeOK
    <3>2. record' = [record EXCEPT ![verifying[v].evidence] = Verdict(verifying[v])]
      BY <2>1 DEF WriteVerdict
    <3>3. verifying[v].evidence = e /\ Verdict(verifying[v]) # "FAILED"
      BY <1>1, <3>1, <3>2 DEF IInv, TypeOK
    <3>4. verifying[v].bytes = "stored"
      BY <3>3 DEF Verdict
    <3> QED BY <3>1, <3>3, <3>4
  <2>2. ASSUME NEW other \in Evidence, Commit(other)
        PROVE  FALSE
    <3>1. record[other] = "absent" /\ record' = [record EXCEPT ![other] = "PENDING"]
      BY <2>2, <1>1 DEF Commit, IInv, Before, InTransaction
    <3> QED BY <1>1, <3>1 DEF IInv, TypeOK
  <2>3. record' # record
    BY <1>1
  <2> QED BY <1>1, <2>1, <2>2, <2>3
          DEF Next, Step, vars, PutObject, BeginTransaction, TakeLock, Conflict, Cleanup, Abort, Crash,
              Alter, ReadObject
<1>2. IInv /\ [Next]_vars => [\A e \in Evidence :
          record[e] = "FAILED" /\ record'[e] # "FAILED" =>
              \E v \in Verifiers : verifying[v] = [evidence |-> e, bytes |-> "stored"]]_record
  BY <1>1
<1> QED BY <1>2, Invariance, PTL DEF Spec, DetectionSticks

-----------------------------------------------------------------------------
(* The ledgers implement append-only logs.                                 *)

Logs == [t \in Tenants |-> LogOf(ledger[t])]

LEMMA LogIs ==
  ASSUME NEW chain, NEW n \in Nat, DOMAIN chain = 1..n
  PROVE  LogOf(chain) = [s \in 1..n |-> chain[s].evidence]
BY LastIs DEF LogOf

LEMMA LogInit == Init => Log!Init
<1> SUFFICES ASSUME Init PROVE Log!Init
  OBVIOUS
<1>1. DOMAIN << >> = {}
  OBVIOUS
<1>2. LogOf(<< >>) = << >>
  <2>1. LastSequence(<< >>) = 0
    BY <1>1 DEF LastSequence
  <2>2. LogOf(<< >>) = [s \in 1..0 |-> << >>[s].evidence]
    BY ONLY <2>1, Zenon DEF LogOf
  <2> QED BY <2>2
<1>3. \A t \in Tenants : ledger[t] = << >>
  BY DEF Init
<1> QED BY <1>2, <1>3 DEF Log!Init

LEMMA LogAppend ==
  ASSUME IInv, NEW e \in Evidence, Commit(e)
  PROVE  Log!Next
<1>1. PICK n \in Nat :
            /\ owner[e] \in Tenants
            /\ DOMAIN ledger[owner[e]] = 1..n
            /\ DOMAIN ledger'[owner[e]] = 1 .. n + 1
            /\ \A s \in 1..n : ledger'[owner[e]][s] = ledger[owner[e]][s]
            /\ ledger'[owner[e]][n + 1].evidence = e
            /\ ledger'[owner[e]][n + 1] \in Entry
            /\ Linked(ledger'[owner[e]])
            /\ DOMAIN ledger' = Tenants
            /\ \A t \in Tenants \ {owner[e]} : ledger'[t] = ledger[t]
  BY CommitFacts
<1> DEFINE old == [s \in 1..n |-> ledger[owner[e]][s].evidence]
           new == [s \in 1 .. n + 1 |-> ledger'[owner[e]][s].evidence]
<1>2. LogOf(ledger[owner[e]]) = old /\ LogOf(ledger'[owner[e]]) = new
  <2>1. LastSequence(ledger[owner[e]]) = n
    BY <1>1, LastIs
  <2>2. LastSequence(ledger'[owner[e]]) = n + 1
    BY <1>1, LastIs
  <2> QED BY ONLY <2>1, <2>2, Zenon DEF LogOf
<1>3. old \in Seq(Evidence) /\ Len(old) = n
  <2>1. \A s \in 1..n : ledger[owner[e]][s].evidence \in Evidence
    BY <1>1 DEF IInv, TypeOK, ChainOK, Entry
  <2> QED BY <2>1
<1>4. new = Append(old, e)
  BY <1>1, <1>3
<1>5. Logs' = [Logs EXCEPT ![owner[e]] = Append(@, e)]
  <2>1. \A t \in Tenants \ {owner[e]} : LogOf(ledger'[t]) = LogOf(ledger[t])
    BY <1>1
  <2>2. Logs[owner[e]] = old
    BY <1>1, <1>2 DEF Logs
  <2> HIDE DEF old, new
  <2> QED BY <1>1, <1>2, <1>4, <2>1, <2>2 DEF Logs
<1>6. ASSUME NEW t \in Tenants
      PROVE  e \notin {Logs[t][i] : i \in DOMAIN Logs[t]}
  <2>1. PICK k \in Nat : DOMAIN ledger[t] = 1..k
    BY DEF IInv, Chains, Whole
  <2>2. Logs[t] = [s \in 1..k |-> ledger[t][s].evidence]
    BY <2>1, LogIs DEF Logs
  <2>3. record[e] = "absent"
    BY DEF Commit, IInv, Before, InTransaction
  <2>4. \A s \in 1..k : ledger[t][s].evidence # e
    BY <2>1, <2>3 DEF IInv, RecordsAreLedgered, Holds
  <2> QED BY <2>2, <2>4
<1> QED BY <1>1, <1>5, <1>6 DEF Log!Next, Log!Append1, Log!Entries, Logs

LEMMA LogStep == IInv /\ [Next]_vars => [Log!Next]_Logs
<1> SUFFICES ASSUME IInv, [Next]_vars, ledger' # ledger PROVE Log!Next
  BY DEF Logs
<1>1. ASSUME NEW e \in Evidence, Commit(e) PROVE Log!Next
  BY <1>1, LogAppend
<1> QED BY <1>1 DEF Next, Step, vars, PutObject, BeginTransaction, TakeLock, Conflict, Cleanup, Abort,
                    Crash, Alter, ReadObject, WriteVerdict

(* Every behaviour of the code is one of append-only logs, one per tenant: *)
(* for any number of racing calls, no entry is replaced, removed or        *)
(* reordered (evidence-ledger.service.ts:8-14).                            *)
THEOREM ImplementsAppendOnlyLog == Spec => LedgerIsAppendOnly
<1>1. Init => Log!Init
  BY LogInit
<1>2. IInv /\ [Next]_vars => [Log!Next]_Logs
  BY LogStep
<1> QED BY <1>1, <1>2, Invariance, PTL DEF Spec, LedgerIsAppendOnly, Log!Spec, Logs
=============================================================================
