------------------------ MODULE WebhookDeliveryProofs ------------------------
(***************************************************************************)
(* Proofs about WebhookDelivery, for any number of deliveries, pods,       *)
(* attempts, errors and crashes, and any size of the batches.              *)
(***************************************************************************)
EXTENDS WebhookDelivery, FiniteSetTheorems, TLAPS

RowRecords == [status: Open \cup Settled, count: Nat]
WorkRecords ==
    [pc: {"read", "post", "write", "announce"}, of: Deliveries, number: Nat, ok: BOOLEAN]

(* w is to write the row of d yet. *)
On(w, d) == work[w].of = d /\ work[w].pc \in {"read", "post", "write"}
HeldBy(p, d) == d \in queue[p] \/ work[p].of = d

WorkOK(w) ==
    /\ work[w].of \in Deliveries => row[work[w].of].status # "NONE"
    /\ w \in Deliveries => work[w].of \in {w, None}
    /\ work[w].pc \in {"read", "post"} => ~work[w].ok
    /\ work[w].pc = "post" => work[w].number <= posts[work[w].of] + 1
    /\ work[w].pc \in {"write", "announce"} => work[w].number <= posts[work[w].of]

Writing(d) == {w \in Workers : work[w].of = d /\ work[w].pc = "write"}

(* As long as two cron jobs have not held the row of d at the same time,   *)
(* whoever is to write it is alone with it, and counts on from what is     *)
(* there.                                                                  *)
Sole(d) ==
    /\ \A p, q \in Pods : HeldBy(p, d) /\ HeldBy(q, d) => p = q
    /\ \A p \in Pods : d \in queue[p] => work[p].of # d
    /\ \A p \in Pods : d \in queue[p] \/ On(p, d) => row[d].status = "FAILED"
    /\ \A w \in Workers : On(w, d) /\ work[w].pc # "read" => work[w].number = row[d].count + 1
    /\ row[d].count <= MaxAttempts
    /\ posts[d] <= row[d].count + cuts[d] + IF Writing(d) = {} THEN 0 ELSE 1
    /\ cuts[d] = 0 =>
          (d \in acknowledged <=> row[d].status = "DELIVERED" \/ \E w \in Writing(d) : work[w].ok)

Announcing(d) ==
    \E w \in Workers : work[w].of = d /\ work[w].pc = "announce" /\ NextStatus(w) = row[d].status

RowOK(d) ==
    /\ row[d].count <= posts[d]
    /\ row[d].status = "DEAD_LETTERED" => MaxAttempts <= posts[d]
    /\ row[d].status \in Open => row[d].count < MaxAttempts
    /\ Held(d) => row[d].status \in {"FAILED"} \cup Settled
    /\ On(d, d) => row[d].status = "DELIVERING"
    /\ cuts[d] = 0 /\ row[d].status \in Settled => row[d].status \in announced[d] \/ Announcing(d)
    /\ d \notin contested => Sole(d)

IInv ==
    /\ TypeOK
    /\ \A d \in Deliveries : cuts[d] <= faults
    /\ \A w \in Workers : WorkOK(w)
    /\ \A d \in Deliveries : RowOK(d)

-----------------------------------------------------------------------------
LEMMA Types ==
  ASSUME IInv
  PROVE  /\ work \in [Workers -> WorkRecords \cup {Resting}]
         /\ row \in [Deliveries -> RowRecords \cup {NoRow}]
         /\ \A d \in Deliveries : row[d].count \in Nat /\ row[d].status \in Open \cup Settled \cup {"NONE"}
         /\ queue \in [Pods -> SUBSET Deliveries]
         /\ posts \in [Deliveries -> Nat]
         /\ cuts \in [Deliveries -> 0 .. MaxFaults] /\ cuts \in [Deliveries -> Nat]
         /\ faults \in Nat
BY WebhookAssumption DEF IInv, TypeOK, RowRecords, WorkRecords, NoRow

LEMMA Resters ==
  /\ Resting.of = None /\ Resting.pc = "rest" /\ ~Resting.ok /\ Resting \notin WorkRecords
  /\ None \notin Deliveries /\ Pods \subseteq Workers /\ Deliveries \subseteq Workers
  /\ Deliveries \cap Pods = {} /\ Workers = Deliveries \cup Pods
BY WebhookAssumption DEF Resting, WorkRecords, Workers

(* A worker at a delivery is a cron job that holds it, or its own call. *)
LEMMA WorkersOf ==
  ASSUME IInv, NEW d \in Deliveries, NEW w \in Workers, work[w].of = d
  PROVE  w = d \/ (w \in Pods /\ HeldBy(w, d) /\ Held(d))
BY Resters DEF IInv, WorkOK, HeldBy, Held

LEMMA Alone ==
  ASSUME IInv, NEW d \in Deliveries, d \notin contested, NEW v \in Workers, NEW w \in Workers,
         On(v, d), On(w, d)
  PROVE  v = w
<1>1. RowOK(d) /\ Sole(d)
  BY DEF IInv, RowOK
<1>2. ASSUME NEW u \in Workers, On(u, d)
      PROVE  u = d \/ (u \in Pods /\ HeldBy(u, d) /\ Held(d))
  BY <1>2, WorkersOf DEF On
<1>3. On(d, d) => ~Held(d)
  BY <1>1 DEF RowOK, Settled
<1> QED BY <1>1, <1>2, <1>3 DEF Sole

(* A step that leaves all alone that concerns a delivery. *)
Untouched(d) ==
    /\ row'[d] = row[d]
    /\ posts'[d] = posts[d]
    /\ announced'[d] = announced[d]
    /\ cuts'[d] = cuts[d]
    /\ d \in acknowledged' <=> d \in acknowledged
    /\ d \in contested' <=> d \in contested
    /\ \A p \in Pods : d \in queue'[p] <=> d \in queue[p]
    /\ \A w \in Workers : work'[w].of = d \/ work[w].of = d => work'[w] = work[w]

LEMMA RowFrame ==
  ASSUME IInv, NEW d \in Deliveries, Untouched(d)
  PROVE  RowOK(d)'
<1> USE Resters
<1>0. RowOK(d)
  BY DEF IInv
<1>1. /\ row'[d] = row[d] /\ posts'[d] = posts[d] /\ announced'[d] = announced[d] /\ cuts'[d] = cuts[d]
      /\ (d \in acknowledged' <=> d \in acknowledged) /\ (d \in contested' <=> d \in contested)
  BY DEF Untouched
<1>2. \A w \in Workers : On(w, d)' <=> On(w, d)
  BY DEF Untouched, On
<1>3. \A w \in Workers : On(w, d) => work'[w] = work[w]
  BY DEF Untouched, On
<1>4. \A p \in Pods : HeldBy(p, d)' <=> HeldBy(p, d)
  BY DEF Untouched, HeldBy
<1>5. Held(d)' <=> Held(d)
  BY <1>4 DEF Held, HeldBy
<1>6. Writing(d)' = Writing(d) /\ \A w \in Writing(d) : work'[w] = work[w]
  BY DEF Untouched, Writing
<1>7. Announcing(d) => Announcing(d)'
  <2> SUFFICES ASSUME NEW w \in Workers, work[w].of = d, work[w].pc = "announce",
                      NextStatus(w) = row[d].status
               PROVE  Announcing(d)'
    BY DEF Announcing
  <2>1. work'[w] = work[w]
    BY DEF Untouched
  <2>2. NextStatus(w)' = NextStatus(w)
    BY <2>1 DEF NextStatus
  <2> QED BY <1>1, <2>1, <2>2 DEF Announcing
<1>8. Sole(d) => Sole(d)'
  <2> SUFFICES ASSUME Sole(d) PROVE Sole(d)'
    OBVIOUS
  <2>1. \A p, q \in Pods : HeldBy(p, d)' /\ HeldBy(q, d)' => p = q
    BY <1>4 DEF Sole
  <2>2. \A p \in Pods : d \in queue'[p] => work'[p].of # d
    BY DEF Sole, Untouched
  <2>3. \A p \in Pods : d \in queue'[p] \/ On(p, d)' => row'[d].status = "FAILED"
    BY <1>1, <1>2 DEF Sole, Untouched
  <2>4. \A w \in Workers : On(w, d)' /\ work'[w].pc # "read" => work'[w].number = row'[d].count + 1
    BY <1>1, <1>2, <1>3 DEF Sole
  <2>5. /\ row'[d].count <= MaxAttempts
        /\ posts'[d] <= row'[d].count + cuts'[d] + IF Writing(d)' = {} THEN 0 ELSE 1
        /\ cuts'[d] = 0 =>
              (d \in acknowledged' <=>
                 row'[d].status = "DELIVERED" \/ \E w \in Writing(d)' : work'[w].ok)
    BY <1>1, <1>6 DEF Sole
  <2> QED BY <2>1, <2>2, <2>3, <2>4, <2>5 DEF Sole
<1> QED BY <1>0, <1>1, <1>2, <1>5, <1>7, <1>8 DEF RowOK

LEMMA WorkFrame ==
  ASSUME IInv, NEW w \in Workers, work'[w] = work[w], \A d \in Deliveries : row[d].status # "NONE" => row'[d].status # "NONE",
         \A d \in Deliveries : posts'[d] = posts[d] \/ posts'[d] = posts[d] + 1
  PROVE  WorkOK(w)'
<1>1. WorkOK(w) /\ (work[w].of \in Deliveries \/ work[w].pc = "rest")
  BY Types, Resters DEF IInv, WorkRecords
<1>2. ASSUME work[w] \in WorkRecords
      PROVE  /\ work[w].pc = "post" => work[w].number <= posts'[work[w].of] + 1
             /\ work[w].pc \in {"write", "announce"} => work[w].number <= posts'[work[w].of]
  <2>1. work[w].of \in Deliveries /\ posts[work[w].of] \in Nat /\ work[w].number \in Nat
    BY <1>2, Types DEF WorkRecords
  <2> QED BY <1>1, <2>1 DEF WorkOK
<1> QED BY <1>1, <1>2, Types, Resters DEF WorkOK

CutsOK == \A d \in Deliveries : cuts[d] <= faults

LEMMA StepSafe ==
  ASSUME IInv, NEW w \in Workers, NEW d \in Deliveries, TypeOK', CutsOK',
         \A e \in Deliveries : row[e].status # "NONE" => row'[e].status # "NONE",
         \A e \in Deliveries : posts'[e] = posts[e] \/ posts'[e] = posts[e] + 1,
         \A v \in Workers \ {w} : work'[v] = work[v],
         WorkOK(w)', RowOK(d)',
         \A e \in Deliveries \ {d} : Untouched(e)
  PROVE  IInv'
<1>1. \A v \in Workers : WorkOK(v)'
  BY WorkFrame
<1>2. \A e \in Deliveries : RowOK(e)'
  BY RowFrame
<1> QED BY <1>1, <1>2 DEF IInv, CutsOK

LEMMA DeliverSafe ==
  ASSUME IInv, NEW d \in Deliveries, Deliver(d)
  PROVE  IInv'
<1> USE Types, Resters
<1>1. /\ row[d] = NoRow /\ row[d].status = "NONE" /\ row[d].count = 0
      /\ row' = [row EXCEPT ![d] = [status |-> "DELIVERING", count |-> 0]]
      /\ UNCHANGED <<queue, posts, acknowledged, announced, cuts, contested, faults>>
  BY DEF Deliver, history, NoRow
<1>2. work[d] = Resting /\ \A w \in Workers : work[w].of # d
  <2>1. RowOK(d) /\ WorkOK(d) /\ ~Held(d)
    BY <1>1 DEF IInv, RowOK, Settled
  <2>2. \A w \in Workers : work[w].of # d
    BY <1>1 DEF IInv, WorkOK
  <2>3. work[d] \in WorkRecords => work[d].of = d
    BY <2>1 DEF WorkOK, WorkRecords
  <2> QED BY <2>2, <2>3
<1>3. /\ work' \in [Workers -> WorkRecords \cup {Resting}]
      /\ work'[d].pc = "read" /\ work'[d].of = d /\ ~work'[d].ok
      /\ \A v \in Workers \ {d} : work'[v] = work[v]
  <2>1. work' = [work EXCEPT ![d] = [Resting EXCEPT !.pc = "read", !.of = d]]
    BY <1>2 DEF Deliver, Begin
  <2>2. /\ [Resting EXCEPT !.pc = "read", !.of = d] \in WorkRecords
        /\ [Resting EXCEPT !.pc = "read", !.of = d].pc = "read"
        /\ [Resting EXCEPT !.pc = "read", !.of = d].of = d
        /\ ~[Resting EXCEPT !.pc = "read", !.of = d].ok
    BY DEF Resting, WorkRecords
  <2> QED BY <2>1, <2>2
<1>4. row'[d].status = "DELIVERING" /\ row'[d].count = 0 /\ row' \in [Deliveries -> RowRecords \cup {NoRow}]
      /\ \A e \in Deliveries \ {d} : row'[e] = row[e]
  BY <1>1 DEF RowRecords, Open
<1>5. TypeOK'
  BY <1>1, <1>3, <1>4 DEF IInv, TypeOK, RowRecords, WorkRecords
<1>6. WorkOK(d)'
  BY <1>3, <1>4 DEF WorkOK
<1>7. \A e \in Deliveries \ {d} : Untouched(e)
  BY <1>1, <1>2, <1>3, <1>4 DEF Untouched
<1>8. RowOK(d)'
  <2>1. ~Held(d) /\ RowOK(d)
    BY <1>1 DEF IInv, RowOK, Settled
  <2>2. ~Held(d)' /\ \A p \in Pods : ~HeldBy(p, d)'
    BY <1>1, <1>3, <2>1 DEF Held, HeldBy
  <2>3. Writing(d) = {} /\ Writing(d)' = {}
    BY <1>2, <1>3 DEF Writing
  <2>4. \A w \in Workers : On(w, d)' => w = d
    BY <1>2, <1>3 DEF On
  <2>5. d \notin contested => Sole(d)'
    <3> SUFFICES ASSUME d \notin contested PROVE Sole(d)'
      OBVIOUS
    <3>1. Sole(d)
      BY <2>1 DEF RowOK
    <3>2. /\ row'[d].count <= MaxAttempts
          /\ posts'[d] <= row'[d].count + cuts'[d] + IF Writing(d)' = {} THEN 0 ELSE 1
      BY <1>1, <1>4, <2>3, <3>1 DEF Sole
    <3>3. cuts'[d] = 0 => (d \in acknowledged' <=> row'[d].status = "DELIVERED" \/ \E w \in Writing(d)' : work'[w].ok)
      BY <1>1, <1>4, <2>3, <3>1 DEF Sole
    <3>4. /\ \A p, q \in Pods : HeldBy(p, d)' /\ HeldBy(q, d)' => p = q
          /\ \A p \in Pods : d \in queue'[p] => work'[p].of # d
          /\ \A p \in Pods : d \in queue'[p] \/ On(p, d)' => row'[d].status = "FAILED"
          /\ \A w \in Workers : On(w, d)' /\ work'[w].pc # "read" => work'[w].number = row'[d].count + 1
      BY <1>3, <2>2, <2>4 DEF HeldBy
    <3> QED BY <3>2, <3>3, <3>4 DEF Sole
  <2> QED BY <1>1, <1>4, <2>1, <2>2, <2>5, WebhookAssumption DEF RowOK, Open, Settled
<1> QED BY <1>1, <1>3, <1>4, <1>5, <1>6, <1>7, <1>8, StepSafe DEF IInv, CutsOK

(* The steps of an attempt. *)
LEMMA Working ==
  ASSUME IInv, NEW w \in Workers, work[w].pc \in {"read", "post", "write", "announce"}
  PROVE  /\ work[w] \in WorkRecords /\ work[w].of \in Deliveries /\ work[w] # Resting
         /\ work[w].number \in Nat /\ WorkOK(w) /\ RowOK(work[w].of)
         /\ row[work[w].of].status # "NONE" /\ row[work[w].of].count \in Nat
         /\ posts[work[w].of] \in Nat /\ cuts[work[w].of] \in Nat
         /\ work[w].pc # "announce" => On(w, work[w].of)
<1>1. work[w] \in WorkRecords
  BY Types, Resters
<1>2. work[w].of \in Deliveries /\ work[w].number \in Nat
  BY <1>1 DEF WorkRecords
<1> QED BY <1>1, <1>2, Types, Resters DEF IInv, WorkOK, On

(* One worker's record changes, and only at its delivery. *)
LEMMA OneMoves ==
  ASSUME IInv, NEW w \in Workers, work[w].of \in Deliveries, UNCHANGED <<queue, contested>>,
         work'[w].of \in {work[w].of, None},
         \A v \in Workers \ {w} : work'[v] = work[v],
         \A e \in Deliveries \ {work[w].of} :
            /\ row'[e] = row[e] /\ posts'[e] = posts[e] /\ announced'[e] = announced[e] /\ cuts'[e] = cuts[e]
            /\ e \in acknowledged' <=> e \in acknowledged
  PROVE  \A e \in Deliveries \ {work[w].of} : Untouched(e)
BY Resters DEF Untouched

(* A row that someone is about to write, and that no two cron jobs held,   *)
(* is not settled.                                                         *)
LEMMA AtIt ==
  ASSUME IInv, NEW d \in Deliveries, d \notin contested, NEW w \in Workers, On(w, d)
  PROVE  /\ row[d].status \in Open /\ row[d].count < MaxAttempts
         /\ \A p \in Pods : d \notin queue[p]
<1>1. RowOK(d) /\ Sole(d)
  BY DEF IInv, RowOK
<1>2. CASE w = d
  <2>1. row[d].status = "DELIVERING"
    BY <1>1, <1>2 DEF RowOK
  <2>2. ~Held(d)
    BY <1>1, <2>1 DEF RowOK, Settled
  <2> QED BY <1>1, <2>1, <2>2 DEF RowOK, Open, Held
<1>3. CASE w # d
  <2>1. w \in Pods /\ HeldBy(w, d)
    BY <1>3, WorkersOf DEF On
  <2>2. row[d].status = "FAILED"
    BY <1>1, <2>1 DEF Sole
  <2>3. \A p \in Pods : d \notin queue[p]
    BY <1>1, <2>1 DEF Sole, HeldBy, On
  <2> QED BY <1>1, <2>2, <2>3 DEF RowOK, Open
<1> QED BY <1>2, <1>3

(* Announcements that others have yet to make are not disturbed. *)
LEMMA OthersAnnounce ==
  ASSUME NEW d \in Deliveries, NEW w \in Workers, row'[d] = row[d],
         \A v \in Workers \ {w} : work'[v] = work[v],
         Announcing(d), work[w].of # d \/ work[w].pc # "announce"
  PROVE  Announcing(d)'
<1>1. PICK v \in Workers : work[v].of = d /\ work[v].pc = "announce" /\ NextStatus(v) = row[d].status
  BY DEF Announcing
<1>2. work'[v] = work[v]
  BY <1>1
<1> QED BY <1>1, <1>2 DEF Announcing, NextStatus

LEMMA ReadRowSafe ==
  ASSUME IInv, NEW w \in Workers, NEW d \in Deliveries, work[w].of = d, ReadRow(w)
  PROVE  IInv'
<1> USE Types, Resters
<1>1. /\ work[w].pc = "read"
      /\ UNCHANGED <<row, queue, posts, acknowledged, announced, cuts, contested, faults>>
      /\ work' = [work EXCEPT ![w].pc = "post", ![w].number = row[d].count + 1]
  BY DEF ReadRow, history
<1>2. /\ work[w] \in WorkRecords /\ WorkOK(w) /\ RowOK(d)
      /\ row[d].status # "NONE" /\ row[d].count \in Nat /\ posts[d] \in Nat /\ On(w, d)
  BY <1>1, Working
<1>3. /\ work' \in [Workers -> WorkRecords \cup {Resting}]
      /\ work'[w].pc = "post" /\ work'[w].of = d /\ ~work'[w].ok /\ work'[w].number = row[d].count + 1
      /\ \A v \in Workers \ {w} : work'[v] = work[v]
  <2>1. ~work[w].ok
    BY <1>1, <1>2 DEF WorkOK
  <2> QED BY <1>1, <1>2, <2>1 DEF WorkRecords
<1>4. TypeOK'
  BY <1>1, <1>3 DEF IInv, TypeOK, WorkRecords
<1>5. WorkOK(w)'
  <2>1. row[d].count <= posts[d]
    BY <1>2 DEF RowOK
  <2>2. row[d].count + 1 <= posts[d] + 1
    BY <1>2, <2>1
  <2> QED BY <1>1, <1>2, <1>3, <2>2 DEF WorkOK
<1>6. \A e \in Deliveries \ {d} : Untouched(e)
  BY <1>1, <1>2, <1>3, OneMoves
<1>7. RowOK(d)'
  <2>1. \A v \in Workers : (work'[v].of = d <=> work[v].of = d) /\ (On(v, d)' <=> On(v, d))
    BY <1>1, <1>2, <1>3 DEF On
  <2>2. Writing(d)' = Writing(d) /\ \A v \in Writing(d) : work'[v] = work[v]
    BY <1>1, <1>2, <1>3 DEF Writing
  <2>3. Held(d)' <=> Held(d)
    BY <1>1, <2>1 DEF Held
  <2>4. Announcing(d) => Announcing(d)'
    BY <1>1, <1>3, OthersAnnounce
  <2>5. d \notin contested => Sole(d)'
    <3> SUFFICES ASSUME d \notin contested PROVE Sole(d)'
      OBVIOUS
    <3>1. Sole(d)
      BY <1>2 DEF RowOK
    <3>2. \A p \in Pods : HeldBy(p, d)' <=> HeldBy(p, d)
      BY <1>1, <2>1 DEF HeldBy
    <3>3. \A v \in Workers : On(v, d)' /\ work'[v].pc # "read" => work'[v].number = row'[d].count + 1
      BY <1>1, <1>3, <2>1, <3>1 DEF Sole
    <3>4. /\ \A p, q \in Pods : HeldBy(p, d)' /\ HeldBy(q, d)' => p = q
          /\ \A p \in Pods : d \in queue'[p] => work'[p].of # d
          /\ \A p \in Pods : d \in queue'[p] \/ On(p, d)' => row'[d].status = "FAILED"
      BY <1>1, <2>1, <3>1, <3>2 DEF Sole
    <3>5. /\ row'[d].count <= MaxAttempts
          /\ posts'[d] <= row'[d].count + cuts'[d] + IF Writing(d)' = {} THEN 0 ELSE 1
          /\ cuts'[d] = 0 =>
                (d \in acknowledged' <=>
                   row'[d].status = "DELIVERED" \/ \E v \in Writing(d)' : work'[v].ok)
      <4>1. /\ row'[d] = row[d] /\ posts'[d] = posts[d] /\ cuts'[d] = cuts[d]
            /\ d \in acknowledged' <=> d \in acknowledged
        BY <1>1
      <4> QED BY <2>2, <3>1, <4>1 DEF Sole
    <3> QED BY <3>3, <3>4, <3>5 DEF Sole
  <2> QED BY <1>1, <1>2, <2>1, <2>3, <2>4, <2>5 DEF RowOK
<1> QED BY <1>1, <1>2, <1>3, <1>4, <1>5, <1>6, <1>7, StepSafe DEF IInv, CutsOK

LEMMA PostSafe ==
  ASSUME IInv, NEW w \in Workers, NEW d \in Deliveries, work[w].of = d, Post(w)
  PROVE  IInv'
<1> USE Types, Resters
<1>1. /\ work[w].pc = "post"
      /\ UNCHANGED <<row, queue, announced, cuts, contested, faults>>
      /\ posts' = [posts EXCEPT ![d] = @ + 1]
      /\ \/ acknowledged' = acknowledged \cup {d} /\ work' = [work EXCEPT ![w].pc = "write", ![w].ok = TRUE]
         \/ acknowledged' = acknowledged /\ work' = [work EXCEPT ![w].pc = "write"]
  BY DEF Post
<1>2. /\ work[w] \in WorkRecords /\ WorkOK(w) /\ RowOK(d) /\ work[w].number \in Nat
      /\ row[d].status # "NONE" /\ row[d].count \in Nat /\ posts[d] \in Nat /\ On(w, d)
      /\ cuts[d] \in Nat
  BY <1>1, Working
<1>3. /\ work' \in [Workers -> WorkRecords \cup {Resting}]
      /\ work'[w].pc = "write" /\ work'[w].of = d /\ work'[w].number = work[w].number
      /\ \A v \in Workers \ {w} : work'[v] = work[v]
      /\ posts'[d] = posts[d] + 1 /\ posts' \in [Deliveries -> Nat]
      /\ \A e \in Deliveries \ {d} : posts'[e] = posts[e]
      /\ \A e \in Deliveries \ {d} : e \in acknowledged' <=> e \in acknowledged
  BY <1>1, <1>2 DEF WorkRecords
<1>4. d \notin acknowledged => (d \in acknowledged' <=> work'[w].ok)
  <2>1. ~work[w].ok
    BY <1>1, <1>2 DEF WorkOK
  <2> QED BY <1>1, <1>2, <2>1 DEF WorkRecords
<1>5. TypeOK'
  BY <1>1, <1>3 DEF IInv, TypeOK, WorkRecords
<1>6. WorkOK(w)'
  BY <1>1, <1>2, <1>3 DEF WorkOK
<1>7. \A e \in Deliveries \ {d} : Untouched(e)
  BY <1>1, <1>2, <1>3, OneMoves
<1>8. RowOK(d)'
  <2>1. \A v \in Workers : (work'[v].of = d <=> work[v].of = d) /\ (On(v, d)' <=> On(v, d))
    BY <1>1, <1>2, <1>3 DEF On
  <2>2. Held(d)' <=> Held(d)
    BY <1>1, <2>1 DEF Held
  <2>3. Announcing(d) => Announcing(d)'
    BY <1>1, <1>3, OthersAnnounce
  <2>4. row'[d].count <= posts'[d] /\ (row'[d].status = "DEAD_LETTERED" => MaxAttempts <= posts'[d])
    BY <1>1, <1>2, <1>3, WebhookAssumption DEF RowOK
  <2>5. d \notin contested => Sole(d)'
    <3> SUFFICES ASSUME d \notin contested PROVE Sole(d)'
      OBVIOUS
    <3>1. Sole(d)
      BY <1>2 DEF RowOK
    <3>2. \A p \in Pods : HeldBy(p, d)' <=> HeldBy(p, d)
      BY <1>1, <2>1 DEF HeldBy
    <3>3. \A v \in Workers : On(v, d)' /\ work'[v].pc # "read" => work'[v].number = row'[d].count + 1
      BY <1>1, <1>3, <2>1, <3>1 DEF Sole
    <3>4. Writing(d) = {}
      BY <1>1, <1>2, Alone DEF Writing, On
    <3>5. Writing(d)' = {w}
      BY <1>3, <3>4 DEF Writing
    <3>6. posts'[d] <= row'[d].count + cuts'[d] + IF Writing(d)' = {} THEN 0 ELSE 1
      BY <1>1, <1>2, <1>3, <3>1, <3>4, <3>5 DEF Sole
    <3>7. row[d].status \in Open
      BY <1>2, AtIt
    <3>8. cuts'[d] = 0 => (d \in acknowledged' <=> row'[d].status = "DELIVERED" \/ \E v \in Writing(d)' : work'[v].ok)
      BY <1>1, <1>4, <3>1, <3>4, <3>5, <3>7 DEF Sole, Open
    <3> QED BY <1>1, <2>1, <3>1, <3>2, <3>3, <3>6, <3>8 DEF Sole
  <2> QED BY <1>1, <1>2, <2>1, <2>2, <2>3, <2>4, <2>5 DEF RowOK
<1> QED BY <1>1, <1>2, <1>3, <1>5, <1>6, <1>7, <1>8, StepSafe DEF IInv, CutsOK

LEMMA WriteRowSafe ==
  ASSUME IInv, NEW w \in Workers, NEW d \in Deliveries, work[w].of = d, WriteRow(w)
  PROVE  IInv'
<1> USE Types, Resters
<1>1. /\ work[w].pc = "write"
      /\ UNCHANGED <<queue, posts, acknowledged, announced, cuts, contested, faults>>
      /\ row' = [row EXCEPT ![d] = [status |-> NextStatus(w), count |-> work[w].number]]
      /\ work' = [work EXCEPT ![w].pc = "announce"]
  BY DEF WriteRow, history
<1>2. /\ work[w] \in WorkRecords /\ WorkOK(w) /\ RowOK(d) /\ work[w].number \in Nat
      /\ row[d].count \in Nat /\ posts[d] \in Nat /\ On(w, d) /\ cuts[d] \in Nat
  BY <1>1, Working
<1>3. /\ work' \in [Workers -> WorkRecords \cup {Resting}]
      /\ work'[w].pc = "announce" /\ work'[w].of = d
      /\ work'[w].number = work[w].number /\ (work'[w].ok <=> work[w].ok)
      /\ \A v \in Workers \ {w} : work'[v] = work[v]
  BY <1>1, <1>2 DEF WorkRecords
<1>4. /\ NextStatus(w) \in Settled \cup {"FAILED"}
      /\ NextStatus(w) = "DELIVERED" <=> work[w].ok
      /\ NextStatus(w) = "DEAD_LETTERED" => MaxAttempts <= work[w].number
      /\ NextStatus(w) = "FAILED" => work[w].number < MaxAttempts
  BY <1>2, WebhookAssumption DEF NextStatus, Exhausted, Settled
<1>5. /\ row'[d].status = NextStatus(w) /\ row'[d].count = work[w].number
      /\ row' \in [Deliveries -> RowRecords \cup {NoRow}]
      /\ \A e \in Deliveries \ {d} : row'[e] = row[e]
  BY <1>1, <1>2, <1>4 DEF RowRecords, Settled, Open
<1>6. TypeOK'
  BY <1>1, <1>3, <1>5 DEF IInv, TypeOK, RowRecords, WorkRecords
<1>7. WorkOK(w)'
  BY <1>1, <1>2, <1>3, <1>4, <1>5 DEF WorkOK, Settled
<1>8. \A e \in Deliveries \ {d} : Untouched(e)
  BY <1>1, <1>2, <1>3, <1>5, OneMoves
<1>9. RowOK(d)'
  <2>1. work[w].number <= posts[d]
    BY <1>1, <1>2 DEF WorkOK
  <2>2. ~On(d, d)'
    <3>1. CASE w = d
      BY <1>3, <3>1 DEF On
    <3>2. CASE w # d
      <4>1. Held(d)
        BY <3>2, WorkersOf
      <4>2. ~On(d, d)
        BY <1>2, <4>1 DEF RowOK, Settled
      <4> QED BY <1>3, <3>2, <4>2 DEF On
    <3> QED BY <3>1, <3>2
  <2>3. Announcing(d)'
    BY <1>3, <1>5 DEF Announcing, NextStatus
  <2>4. \A v \in Workers : (work'[v].of = d <=> work[v].of = d) /\ (On(v, d)' <=> On(v, d) /\ v # w)
    BY <1>1, <1>2, <1>3 DEF On
  <2>5. d \notin contested => Sole(d)'
    <3> SUFFICES ASSUME d \notin contested PROVE Sole(d)'
      OBVIOUS
    <3>1. Sole(d)
      BY <1>2 DEF RowOK
    <3>2. /\ row[d].status \in Open /\ row[d].count < MaxAttempts
          /\ \A p \in Pods : d \notin queue[p]
      BY <1>2, AtIt
    <3>3. \A v \in Workers : ~On(v, d)'
      BY <1>2, <2>4, Alone
    <3>4. work[w].number = row[d].count + 1
      BY <1>1, <1>2, <3>1 DEF Sole
    <3>5. Writing(d) = {w} /\ Writing(d)' = {}
      BY <1>1, <1>2, <3>3, Alone DEF Writing, On
    <3>6. /\ row'[d].count <= MaxAttempts
          /\ posts'[d] <= row'[d].count + cuts'[d] + IF Writing(d)' = {} THEN 0 ELSE 1
      BY <1>1, <1>2, <1>5, <3>1, <3>2, <3>4, <3>5, WebhookAssumption DEF Sole
    <3>7. cuts'[d] = 0 => (d \in acknowledged' <=> row'[d].status = "DELIVERED" \/ \E v \in Writing(d)' : work'[v].ok)
      BY <1>1, <1>4, <1>5, <3>1, <3>2, <3>5 DEF Sole, Open
    <3>8. \A p \in Pods : HeldBy(p, d)' <=> HeldBy(p, d)
      BY <1>1, <2>4 DEF HeldBy
    <3> QED BY <1>1, <3>1, <3>2, <3>3, <3>6, <3>7, <3>8 DEF Sole
  <2> QED BY <1>1, <1>2, <1>4, <1>5, <2>1, <2>2, <2>3, <2>5, WebhookAssumption DEF RowOK, Settled, Open
<1> QED BY <1>1, <1>2, <1>3, <1>4, <1>5, <1>6, <1>7, <1>8, <1>9, StepSafe DEF IInv, CutsOK, Settled

LEMMA AnnounceSafe ==
  ASSUME IInv, NEW w \in Workers, NEW d \in Deliveries, work[w].of = d, Announce(w)
  PROVE  IInv'
<1> USE Types, Resters
<1>1. /\ work[w].pc = "announce"
      /\ UNCHANGED <<row, queue, posts, acknowledged, cuts, contested, faults>>
      /\ announced' = [announced EXCEPT ![d] = @ \cup {NextStatus(w)}]
      /\ work' = [work EXCEPT ![w] = Resting]
  BY DEF Announce, Rest, Topic
<1>2. /\ WorkOK(w) /\ RowOK(d) /\ announced \in [Deliveries -> SUBSET (Settled \cup {"FAILED"})]
  BY <1>1, Working DEF IInv, TypeOK
<1>3. /\ work' \in [Workers -> WorkRecords \cup {Resting}] /\ work'[w] = Resting
      /\ \A v \in Workers \ {w} : work'[v] = work[v]
      /\ announced' \in [Deliveries -> SUBSET (Settled \cup {"FAILED"})]
      /\ announced'[d] = announced[d] \cup {NextStatus(w)}
      /\ \A e \in Deliveries \ {d} : announced'[e] = announced[e]
  BY <1>1, <1>2 DEF NextStatus, Settled
<1>4. TypeOK'
  BY <1>1, <1>3 DEF IInv, TypeOK, WorkRecords
<1>5. WorkOK(w)'
  BY <1>3 DEF WorkOK
<1>6. \A e \in Deliveries \ {d} : Untouched(e)
  BY <1>1, <1>3, OneMoves
<1>7. RowOK(d)'
  <2>1. \A v \in Workers : (work'[v].of = d => work[v].of = d) /\ (On(v, d)' <=> On(v, d))
    BY <1>1, <1>3 DEF On
  <2>2. Held(d)' => Held(d)
    BY <1>1, <2>1 DEF Held
  <2>3. Announcing(d) => Announcing(d)' \/ row[d].status \in announced'[d]
    BY <1>1, <1>3 DEF Announcing, NextStatus
  <2>4. Sole(d) => Sole(d)'
    <3> SUFFICES ASSUME Sole(d) PROVE Sole(d)'
      OBVIOUS
    <3>1. \A p \in Pods : HeldBy(p, d)' => HeldBy(p, d)
      BY <1>1, <2>1 DEF HeldBy
    <3>2. Writing(d)' = Writing(d) /\ \A v \in Writing(d) : work'[v] = work[v]
      BY <1>1, <1>3 DEF Writing
    <3>3. \A v \in Workers : On(v, d)' /\ work'[v].pc # "read" => work'[v].number = row'[d].count + 1
      BY <1>1, <1>3, <2>1 DEF Sole, On
    <3> QED BY <1>1, <2>1, <3>1, <3>2, <3>3 DEF Sole
  <2> QED BY <1>1, <1>2, <1>3, <2>1, <2>2, <2>3, <2>4 DEF RowOK
<1> QED BY <1>1, <1>3, <1>4, <1>5, <1>6, <1>7, StepSafe DEF IInv, CutsOK

-----------------------------------------------------------------------------
(* Errors and crashes, and the cron job's queue: the row itself is left    *)
(* alone, someone may stop being at it, and that is counted.               *)
Dropped(d, w) ==
    /\ row'[d] = row[d]
    /\ posts'[d] = posts[d]
    /\ announced'[d] = announced[d]
    /\ d \in acknowledged' <=> d \in acknowledged
    /\ d \in contested' <=> d \in contested
    /\ \A p \in Pods : d \in queue'[p] => d \in queue[p]
    /\ \A v \in Workers \ {w} : work'[v] = work[v]
    /\ \/ work[w].of # d /\ work'[w].of # d /\ cuts'[d] = cuts[d]
       \/ work[w].of = d /\ work'[w] = Resting /\ cuts'[d] = cuts[d] + 1

LEMMA DropFrame ==
  ASSUME IInv, NEW d \in Deliveries, NEW w \in Workers, Dropped(d, w)
  PROVE  RowOK(d)'
<1> USE Types, Resters
<1>1. /\ row'[d] = row[d] /\ posts'[d] = posts[d] /\ announced'[d] = announced[d]
      /\ (d \in acknowledged' <=> d \in acknowledged) /\ (d \in contested' <=> d \in contested)
      /\ RowOK(d) /\ cuts[d] \in Nat /\ posts[d] \in Nat /\ row[d].count \in Nat
  BY DEF Dropped, IInv
<1>2. /\ cuts'[d] = cuts[d] \/ cuts'[d] = cuts[d] + 1
      /\ \A v \in Workers : work'[v].of = d => work[v].of = d /\ work'[v] = work[v]
  BY DEF Dropped
<1>3. /\ \A v \in Workers : On(v, d)' => On(v, d)
      /\ \A p \in Pods : HeldBy(p, d)' => HeldBy(p, d)
  BY <1>2 DEF Dropped, On, HeldBy
<1>4. Held(d)' => Held(d)
  BY <1>3 DEF Held, HeldBy
<1>5. CASE work[w].of # d
  <2>1. cuts'[d] = cuts[d] /\ \A v \in Workers : work[v].of = d => work'[v] = work[v]
    BY <1>5 DEF Dropped
  <2>2. Announcing(d) => Announcing(d)'
    BY <1>1, <1>5, OthersAnnounce DEF Dropped
  <2>3. Writing(d)' = Writing(d) /\ \A v \in Writing(d) : work'[v] = work[v]
    BY <1>2, <2>1 DEF Writing
  <2>4. Sole(d) => Sole(d)'
    <3> SUFFICES ASSUME Sole(d) PROVE Sole(d)'
      OBVIOUS
    <3>1. /\ \A p, q \in Pods : HeldBy(p, d)' /\ HeldBy(q, d)' => p = q
          /\ \A p \in Pods : d \in queue'[p] => work'[p].of # d
          /\ \A p \in Pods : d \in queue'[p] \/ On(p, d)' => row'[d].status = "FAILED"
      BY <1>1, <1>2, <1>3 DEF Sole, Dropped
    <3>2. \A v \in Workers : On(v, d)' /\ work'[v].pc # "read" => work'[v].number = row'[d].count + 1
      BY <1>1, <1>2, <1>3 DEF Sole, On
    <3>3. /\ row'[d].count <= MaxAttempts
          /\ posts'[d] <= row'[d].count + cuts'[d] + IF Writing(d)' = {} THEN 0 ELSE 1
          /\ cuts'[d] = 0 =>
                (d \in acknowledged' <=>
                   row'[d].status = "DELIVERED" \/ \E v \in Writing(d)' : work'[v].ok)
      BY <1>1, <2>1, <2>3 DEF Sole
    <3> QED BY <3>1, <3>2, <3>3 DEF Sole
  <2> QED BY <1>1, <1>3, <1>4, <2>1, <2>2, <2>4 DEF RowOK
<1>6. CASE work[w].of = d
  <2>1. cuts'[d] = cuts[d] + 1
    BY <1>6 DEF Dropped
  <2>2. Sole(d) => Sole(d)'
    <3> SUFFICES ASSUME Sole(d) PROVE Sole(d)'
      OBVIOUS
    <3>1. /\ \A p, q \in Pods : HeldBy(p, d)' /\ HeldBy(q, d)' => p = q
          /\ \A p \in Pods : d \in queue'[p] => work'[p].of # d
          /\ \A p \in Pods : d \in queue'[p] \/ On(p, d)' => row'[d].status = "FAILED"
      BY <1>1, <1>2, <1>3 DEF Sole, Dropped
    <3>2. \A v \in Workers : On(v, d)' /\ work'[v].pc # "read" => work'[v].number = row'[d].count + 1
      BY <1>1, <1>2, <1>3 DEF Sole, On
    <3>3. posts[d] <= row[d].count + cuts[d] + 1
      BY <1>1 DEF Sole
    <3>4. /\ row'[d].count <= MaxAttempts
          /\ posts'[d] <= row'[d].count + cuts'[d] + IF Writing(d)' = {} THEN 0 ELSE 1
          /\ cuts'[d] # 0
      BY <1>1, <2>1, <3>3 DEF Sole
    <3> QED BY <3>1, <3>2, <3>4 DEF Sole
  <2> QED BY <1>1, <1>3, <1>4, <2>1, <2>2 DEF RowOK
<1> QED BY <1>5, <1>6

LEMMA AttemptFailsSafe ==
  ASSUME IInv, NEW w \in Workers, AttemptFails(w)
  PROVE  IInv'
<1> USE Types, Resters
<1>1. /\ work[w] # Resting /\ faults < MaxFaults /\ faults' = faults + 1
      /\ cuts' = [cuts EXCEPT ![work[w].of] = @ + 1]
      /\ work' = [work EXCEPT ![w] = Resting]
      /\ UNCHANGED <<row, queue, posts, acknowledged, announced, contested>>
  BY DEF AttemptFails, Rest
<1>2. work[w].of \in Deliveries
  BY <1>1 DEF WorkRecords
<1>3. /\ work' \in [Workers -> WorkRecords \cup {Resting}] /\ work'[w] = Resting
      /\ \A v \in Workers \ {w} : work'[v] = work[v]
  BY <1>1
<1>4. /\ \A d \in Deliveries : cuts'[d] = cuts[d] + IF work[w].of = d THEN 1 ELSE 0
      /\ cuts' \in [Deliveries -> Nat]
  BY <1>1, <1>2
<1>5. \A d \in Deliveries : cuts'[d] <= faults'
  <2> SUFFICES ASSUME NEW d \in Deliveries PROVE cuts'[d] <= faults + 1
    BY <1>1
  <2>1. cuts[d] <= faults /\ cuts[d] \in Nat
    BY DEF IInv
  <2>2. cuts'[d] = cuts[d] \/ cuts'[d] = cuts[d] + 1
    BY <1>4
  <2> QED BY <2>1, <2>2
<1>6. faults' \in 0 .. MaxFaults
  BY <1>1, WebhookAssumption
<1>7. cuts' \in [Deliveries -> 0 .. MaxFaults]
  <2>1. \A d \in Deliveries : cuts'[d] \in 0 .. MaxFaults
    BY <1>4, <1>5, <1>6, WebhookAssumption
  <2> QED BY <1>4, <2>1
<1>8. TypeOK'
  BY <1>1, <1>3, <1>6, <1>7 DEF IInv, TypeOK, WorkRecords
<1>9. \A d \in Deliveries : Dropped(d, w)
  BY <1>1, <1>3, <1>4 DEF Dropped
<1>10. \A d \in Deliveries : RowOK(d)'
  BY <1>9, DropFrame
<1>11. \A v \in Workers : WorkOK(v)'
  <2>1. WorkOK(w)'
    BY <1>3 DEF WorkOK
  <2>2. \A v \in Workers \ {w} : WorkOK(v)'
    BY <1>1, <1>3, WorkFrame
  <2> QED BY <2>1, <2>2
<1> QED BY <1>5, <1>8, <1>10, <1>11 DEF IInv

LEMMA PodCrashSafe ==
  ASSUME IInv, NEW p \in Pods, PodCrash(p)
  PROVE  IInv'
<1> USE Types, Resters
<1>1. /\ faults < MaxFaults /\ faults' = faults + 1 /\ p \in Workers
      /\ queue' = [queue EXCEPT ![p] = {}]
      /\ cuts' = [d \in Deliveries |-> cuts[d] + IF work[p].of = d THEN 1 ELSE 0]
      /\ work' = [work EXCEPT ![p] = Resting]
      /\ UNCHANGED <<row, posts, acknowledged, announced, contested>>
  BY DEF PodCrash, Rest
<1>2. /\ work' \in [Workers -> WorkRecords \cup {Resting}] /\ work'[p] = Resting
      /\ \A v \in Workers \ {p} : work'[v] = work[v]
      /\ queue' \in [Pods -> SUBSET Deliveries]
      /\ \A q \in Pods, d \in Deliveries : d \in queue'[q] => d \in queue[q]
  BY <1>1
<1>3. \A d \in Deliveries : cuts'[d] = cuts[d] + IF work[p].of = d THEN 1 ELSE 0
  BY <1>1
<1>4. \A d \in Deliveries : cuts'[d] <= faults'
  <2> SUFFICES ASSUME NEW d \in Deliveries PROVE cuts'[d] <= faults + 1
    BY <1>1
  <2>1. cuts[d] <= faults /\ cuts[d] \in Nat
    BY DEF IInv
  <2>2. cuts'[d] = cuts[d] \/ cuts'[d] = cuts[d] + 1
    BY <1>3
  <2> QED BY <2>1, <2>2
<1>5. faults' \in 0 .. MaxFaults
  BY <1>1, WebhookAssumption
<1>6. cuts' \in [Deliveries -> 0 .. MaxFaults]
  <2>1. \A d \in Deliveries : cuts'[d] \in Nat
    BY <1>3
  <2>2. \A d \in Deliveries : cuts'[d] \in 0 .. MaxFaults
    BY <1>4, <1>5, <2>1, WebhookAssumption
  <2> QED BY <1>1, <2>2
<1>7. TypeOK'
  BY <1>1, <1>2, <1>5, <1>6 DEF IInv, TypeOK, WorkRecords
<1>8. \A d \in Deliveries : Dropped(d, p)
  BY <1>1, <1>2, <1>3 DEF Dropped
<1>9. \A d \in Deliveries : RowOK(d)'
  BY <1>1, <1>8, DropFrame
<1>10. \A v \in Workers : WorkOK(v)'
  <2>1. WorkOK(p)'
    BY <1>2 DEF WorkOK
  <2>2. \A v \in Workers \ {p} : WorkOK(v)'
    BY <1>1, <1>2, WorkFrame
  <2> QED BY <2>1, <2>2
<1> QED BY <1>4, <1>7, <1>9, <1>10 DEF IInv

LEMMA NotDueSafe ==
  ASSUME IInv, NEW p \in Pods, NEW d \in Deliveries, NotDue(p, d)
  PROVE  IInv'
<1> USE Types, Resters
<1>1. /\ work[p] = Resting /\ queue' = [queue EXCEPT ![p] = @ \ {d}] /\ p \in Workers
      /\ UNCHANGED <<row, work, posts, acknowledged, announced, cuts, contested, faults>>
  BY DEF NotDue, Taken, history
<1>2. /\ queue' \in [Pods -> SUBSET Deliveries]
      /\ \A q \in Pods, e \in Deliveries : e \in queue'[q] => e \in queue[q]
  BY <1>1
<1>3. TypeOK'
  BY <1>1, <1>2 DEF IInv, TypeOK
<1>4. \A e \in Deliveries : Dropped(e, p)
  BY <1>1, <1>2 DEF Dropped
<1>5. \A e \in Deliveries : RowOK(e)'
  BY <1>1, <1>4, DropFrame
<1>6. \A v \in Workers : WorkOK(v)'
  BY <1>1, WorkFrame
<1> QED BY <1>1, <1>3, <1>5, <1>6 DEF IInv

-----------------------------------------------------------------------------
(* The cron job *)
LEMMA RetryDueSafe ==
  ASSUME IInv, NEW p \in Pods, RetryDue(p)
  PROVE  IInv'
<1> USE Types, Resters
<1>1. PICK b \in Batches(FailedRows) :
         /\ queue' = [queue EXCEPT ![p] = b]
         /\ contested' = contested \cup {d \in b : Held(d)}
  BY DEF RetryDue
<1>2. /\ queue[p] = {} /\ work[p] = Resting /\ p \in Workers
      /\ UNCHANGED <<row, work, posts, acknowledged, announced, cuts, faults>>
  BY DEF RetryDue, history
<1>3. b \subseteq Deliveries /\ \A d \in b : row[d].status = "FAILED"
  BY DEF Batches, FailedRows
<1>4. /\ queue' \in [Pods -> SUBSET Deliveries] /\ queue'[p] = b
      /\ \A q \in Pods \ {p} : queue'[q] = queue[q]
  BY <1>1, <1>3
<1>5. TypeOK'
  BY <1>1, <1>2, <1>3, <1>4 DEF IInv, TypeOK
<1>6. \A v \in Workers : WorkOK(v)'
  BY <1>2, WorkFrame
<1>7. ASSUME NEW d \in Deliveries \ b
      PROVE  RowOK(d)'
  <2>1. Untouched(d)
    BY <1>1, <1>2, <1>3, <1>4, <1>7 DEF Untouched
  <2> QED BY <1>7, <2>1, RowFrame
<1>8. ASSUME NEW d \in b
      PROVE  RowOK(d)'
  <2>1. d \in Deliveries /\ RowOK(d) /\ row[d].status = "FAILED"
    BY <1>3 DEF IInv
  <2>2. /\ row'[d] = row[d] /\ posts'[d] = posts[d] /\ announced'[d] = announced[d] /\ cuts'[d] = cuts[d]
        /\ d \in acknowledged' <=> d \in acknowledged
    BY <1>2
  <2>3. \A v \in Workers : On(v, d)' <=> On(v, d)
    BY <1>2 DEF On
  <2>4. d \notin contested' => Sole(d)'
    <3> SUFFICES ASSUME d \notin contested' PROVE Sole(d)'
      OBVIOUS
    <3>1. d \notin contested /\ ~Held(d)
      BY <1>1
    <3>2. Sole(d)
      BY <2>1, <3>1 DEF RowOK
    <3>3. \A q \in Pods : d \notin queue[q] /\ work[q].of # d
      BY <3>1 DEF Held
    <3>4. \A q \in Pods \ {p} : d \notin queue'[q]
      BY <1>4, <3>3
    <3>5. \A q, r \in Pods : HeldBy(q, d)' /\ HeldBy(r, d)' => q = r
      BY <1>2, <3>3, <3>4 DEF HeldBy
    <3>6. /\ \A q \in Pods : d \in queue'[q] => work'[q].of # d
          /\ \A q \in Pods : d \in queue'[q] \/ On(q, d)' => row'[d].status = "FAILED"
      BY <1>2, <2>1, <2>2, <3>3
    <3>7. \A v \in Workers : On(v, d)' /\ work'[v].pc # "read" => work'[v].number = row'[d].count + 1
      BY <1>2, <2>2, <2>3, <3>2 DEF Sole
    <3>8. Writing(d)' = Writing(d) /\ \A v \in Writing(d) : work'[v] = work[v]
      BY <1>2 DEF Writing
    <3>9. /\ row'[d].count <= MaxAttempts
          /\ posts'[d] <= row'[d].count + cuts'[d] + IF Writing(d)' = {} THEN 0 ELSE 1
          /\ cuts'[d] = 0 =>
                (d \in acknowledged' <=>
                   row'[d].status = "DELIVERED" \/ \E v \in Writing(d)' : work'[v].ok)
      BY <2>2, <3>2, <3>8 DEF Sole
    <3> QED BY <3>5, <3>6, <3>7, <3>9 DEF Sole
  <2> QED BY <2>1, <2>2, <2>3, <2>4 DEF RowOK, Settled
<1>9. \A d \in Deliveries : RowOK(d)'
  BY <1>7, <1>8
<1> QED BY <1>2, <1>5, <1>6, <1>9 DEF IInv

LEMMA RetryAttemptSafe ==
  ASSUME IInv, NEW p \in Pods, NEW d \in Deliveries, RetryAttempt(p, d)
  PROVE  IInv'
<1> USE Types, Resters
<1>1. /\ d \in queue[p] /\ work[p] = Resting /\ p \in Workers
      /\ queue' = [queue EXCEPT ![p] = @ \ {d}]
      /\ UNCHANGED <<row, posts, acknowledged, announced, cuts, contested, faults>>
  BY DEF RetryAttempt, Taken, history
<1>2. /\ work' \in [Workers -> WorkRecords \cup {Resting}]
      /\ work'[p].pc = "read" /\ work'[p].of = d /\ ~work'[p].ok
      /\ \A v \in Workers \ {p} : work'[v] = work[v]
  <2>1. work' = [work EXCEPT ![p] = [Resting EXCEPT !.pc = "read", !.of = d]]
    BY <1>1 DEF RetryAttempt, Begin
  <2>2. /\ [Resting EXCEPT !.pc = "read", !.of = d] \in WorkRecords
        /\ [Resting EXCEPT !.pc = "read", !.of = d].pc = "read"
        /\ [Resting EXCEPT !.pc = "read", !.of = d].of = d
        /\ ~[Resting EXCEPT !.pc = "read", !.of = d].ok
    BY DEF Resting, WorkRecords
  <2> QED BY <1>1, <2>1, <2>2
<1>3. /\ queue' \in [Pods -> SUBSET Deliveries] /\ d \notin queue'[p]
      /\ \A q \in Pods \ {p} : queue'[q] = queue[q]
      /\ \A e \in Deliveries \ {d} : e \in queue'[p] <=> e \in queue[p]
  BY <1>1
<1>4. TypeOK'
  BY <1>1, <1>2, <1>3 DEF IInv, TypeOK, WorkRecords
<1>5. RowOK(d) /\ Held(d)
  BY <1>1 DEF IInv, Held
<1>6. WorkOK(p)'
  <2>1. row[d].status # "NONE"
    BY <1>5 DEF RowOK, Settled
  <2> QED BY <1>1, <1>2, <2>1 DEF WorkOK
<1>7. \A e \in Deliveries \ {d} : Untouched(e)
  BY <1>1, <1>2, <1>3 DEF Untouched
<1>8. RowOK(d)'
  <2>1. \A q \in Pods : HeldBy(q, d)' <=> HeldBy(q, d)
    BY <1>1, <1>2, <1>3 DEF HeldBy
  <2>2. Held(d)' <=> Held(d)
    BY <2>1 DEF Held, HeldBy
  <2>3. \A v \in Workers : On(v, d)' <=> On(v, d) \/ v = p
    BY <1>1, <1>2 DEF On
  <2>4. Announcing(d) => Announcing(d)'
    BY <1>1, <1>2, OthersAnnounce
  <2>5. d \notin contested => Sole(d)'
    <3> SUFFICES ASSUME d \notin contested PROVE Sole(d)'
      OBVIOUS
    <3>1. Sole(d)
      BY <1>5 DEF RowOK
    <3>2. Writing(d)' = Writing(d) /\ \A v \in Writing(d) : work'[v] = work[v]
      BY <1>1, <1>2 DEF Writing
    <3>3. \A v \in Workers : On(v, d)' /\ work'[v].pc # "read" => work'[v].number = row'[d].count + 1
      BY <1>1, <1>2, <2>3, <3>1 DEF Sole
    <3>4. \A q \in Pods : d \in queue'[q] => work'[q].of # d
      BY <1>1, <1>2, <1>3, <3>1 DEF Sole
    <3>5. \A q \in Pods : d \in queue'[q] \/ On(q, d)' => row'[d].status = "FAILED"
      BY <1>1, <1>3, <2>3, <3>1 DEF Sole
    <3>6. /\ row'[d] = row[d] /\ posts'[d] = posts[d] /\ cuts'[d] = cuts[d]
          /\ d \in acknowledged' <=> d \in acknowledged
      BY <1>1
    <3>7. /\ row'[d].count <= MaxAttempts
          /\ posts'[d] <= row'[d].count + cuts'[d] + IF Writing(d)' = {} THEN 0 ELSE 1
          /\ cuts'[d] = 0 =>
                (d \in acknowledged' <=>
                   row'[d].status = "DELIVERED" \/ \E v \in Writing(d)' : work'[v].ok)
      BY <3>1, <3>2, <3>6 DEF Sole
    <3>8. \A q, r \in Pods : HeldBy(q, d)' /\ HeldBy(r, d)' => q = r
      BY <2>1, <3>1 DEF Sole
    <3> QED BY <3>3, <3>4, <3>5, <3>7, <3>8 DEF Sole
  <2>6. d \in Pods => FALSE
    OBVIOUS
  <2> QED BY <1>1, <1>5, <2>2, <2>3, <2>4, <2>5, <2>6 DEF RowOK
<1> QED BY <1>1, <1>2, <1>4, <1>6, <1>7, <1>8, StepSafe DEF IInv, CutsOK

-----------------------------------------------------------------------------
LEMMA InitHolds == Init => IInv
<1> SUFFICES ASSUME Init PROVE IInv
  OBVIOUS
<1> USE Resters, WebhookAssumption DEF Init
<1>1. TypeOK
  BY DEF TypeOK
<1>2. \A w \in Workers : work[w].of = None /\ work[w].pc = "rest"
  OBVIOUS
<1>3. \A w \in Workers : WorkOK(w)
  BY <1>2 DEF WorkOK
<1>4. ASSUME NEW d \in Deliveries PROVE RowOK(d)
  <2>1. row[d].status = "NONE" /\ row[d].count = 0
    BY DEF NoRow
  <2>2. ~Held(d) /\ Writing(d) = {} /\ (\A w \in Workers : ~On(w, d)) /\ (\A p \in Pods : ~HeldBy(p, d))
    BY <1>2 DEF Held, Writing, On, HeldBy
  <2>3. Sole(d)
    BY <2>1, <2>2 DEF Sole, HeldBy
  <2> QED BY <2>1, <2>2, <2>3 DEF RowOK, Open, Settled
<1> QED BY <1>1, <1>3, <1>4 DEF IInv

LEMMA AttemptSafe ==
  ASSUME IInv, NEW w \in Workers, Attempt(w)
  PROVE  IInv'
<1>1. work[w].pc \in {"read", "post", "write", "announce"}
  BY DEF Attempt, ReadRow, Post, WriteRow, Announce
<1>2. work[w].of \in Deliveries
  BY <1>1, Working
<1> QED BY <1>2, ReadRowSafe, PostSafe, WriteRowSafe, AnnounceSafe DEF Attempt

LEMMA NextSafe == IInv /\ [Next]_vars => IInv'
<1> SUFFICES ASSUME IInv, [Next]_vars PROVE IInv'
  OBVIOUS
<1>1. ASSUME NEW d \in Deliveries, Deliver(d) PROVE IInv'
  BY <1>1, DeliverSafe
<1>2. ASSUME NEW w \in Workers, Attempt(w) \/ AttemptFails(w) PROVE IInv'
  BY <1>2, AttemptSafe, AttemptFailsSafe
<1>3. ASSUME NEW p \in Pods, RetryDue(p) \/ PodCrash(p) PROVE IInv'
  BY <1>3, RetryDueSafe, PodCrashSafe
<1>4. ASSUME NEW p \in Pods, NEW d \in Deliveries, RetryAttempt(p, d) \/ NotDue(p, d) PROVE IInv'
  BY <1>4, RetryAttemptSafe, NotDueSafe
<1>5. CASE UNCHANGED vars
  <2>1. UNCHANGED <<row, queue, work, posts, acknowledged, announced, cuts, contested, faults>>
    BY <1>5 DEF vars, history
  <2>2. \A d \in Deliveries : Untouched(d)
    BY <2>1 DEF Untouched
  <2>3. \A d \in Deliveries : RowOK(d)'
    BY <2>2, RowFrame
  <2>4. \A w \in Workers : WorkOK(w)'
    BY <2>1, WorkFrame
  <2>5. TypeOK'
    BY <2>1 DEF IInv, TypeOK
  <2> QED BY <2>1, <2>3, <2>4, <2>5 DEF IInv
<1> QED BY <1>1, <1>2, <1>3, <1>4, <1>5 DEF Next

LEMMA Invariance == Spec => []IInv
BY InitHolds, NextSafe, PTL DEF Spec

(* Every variable of the webhook deliveries keeps its type. *)
THEOREM TypeCorrect == Spec => []TypeOK
<1>1. IInv => TypeOK
  BY DEF IInv
<1> QED BY <1>1, Invariance, PTL

(* The attempt_count that WebhookDeliveryService.attempt writes from a     *)
(* count it read earlier is never more than the posts that were made; and  *)
(* as long as no two cron jobs hold a row it misses none but those that an *)
(* error or a crash cut short, so that MAX_ATTEMPTS bounds the posts.      *)
THEOREM AttemptsBounded == Spec => []AttemptsAreCounted
<1>1. IInv => AttemptsAreCounted
  <2> SUFFICES ASSUME IInv, NEW d \in Deliveries
               PROVE  /\ row[d].count <= posts[d]
                      /\ row[d].status = "DEAD_LETTERED" => posts[d] >= MaxAttempts
                      /\ d \notin contested =>
                           /\ posts[d] <= row[d].count + cuts[d] + Cardinality(InFlight(d))
                           /\ posts[d] <= MaxAttempts + cuts[d]
    BY DEF AttemptsAreCounted
  <2>1. RowOK(d) /\ posts[d] \in Nat /\ cuts[d] \in Nat /\ row[d].count \in Nat
    BY Types DEF IInv
  <2>2. row[d].count <= posts[d] /\ (row[d].status = "DEAD_LETTERED" => posts[d] >= MaxAttempts)
    BY <2>1, WebhookAssumption DEF RowOK
  <2>3. ASSUME d \notin contested
        PROVE  /\ posts[d] <= row[d].count + cuts[d] + Cardinality(InFlight(d))
               /\ posts[d] <= MaxAttempts + cuts[d]
    <3>1. Sole(d) /\ InFlight(d) = Writing(d)
      BY <2>1, <2>3 DEF RowOK, InFlight, Writing
    <3>2. CASE Writing(d) = {}
      <4>1. Cardinality(InFlight(d)) = 0
        BY <3>1, <3>2, FS_EmptySet
      <4> QED BY <2>1, <3>1, <3>2, <4>1, WebhookAssumption DEF Sole
    <3>3. ASSUME NEW w \in Writing(d)
          PROVE  /\ posts[d] <= row[d].count + cuts[d] + Cardinality(InFlight(d))
                 /\ posts[d] <= MaxAttempts + cuts[d]
      <4>1. w \in Workers /\ On(w, d)
        BY <3>3 DEF Writing, On
      <4>2. \A v \in Writing(d) : v = w
        BY <2>3, <4>1, Alone DEF Writing, On
      <4>3. Writing(d) = {w}
        BY <3>3, <4>2
      <4>4. Cardinality(InFlight(d)) = 1
        BY <3>1, <4>3, FS_Singleton
      <4>5. row[d].count < MaxAttempts
        BY <2>3, <4>1, AtIt
      <4> QED BY <2>1, <3>1, <4>3, <4>4, <4>5, WebhookAssumption DEF Sole
    <3> QED BY <3>2, <3>3
  <2> QED BY <2>2, <2>3
<1> QED BY <1>1, Invariance, PTL

(* When nobody is at a row, it says DELIVERED exactly if a 2xx answer      *)
(* arrived, unless an error or a crash cut an attempt short or two cron    *)
(* jobs held the row, whose attempts overwrite each other.                 *)
THEOREM AnswersRecorded == Spec => []AnswerIsRecorded
<1>1. IInv => AnswerIsRecorded
  <2> SUFFICES ASSUME IInv, NEW d \in Deliveries, Quiet(d), cuts[d] = 0, d \notin contested
               PROVE  row[d].status = "DELIVERED" <=> d \in acknowledged
    BY DEF AnswerIsRecorded
  <2>1. Sole(d)
    BY DEF IInv, RowOK
  <2>2. Writing(d) = {}
    BY DEF Quiet, Writing
  <2> QED BY <2>1, <2>2 DEF Sole
<1> QED BY <1>1, Invariance, PTL

(* The end state written to a row is in the outbox by the time nobody is   *)
(* at the row, also when two cron jobs overwrote each other, unless an     *)
(* error or a crash came between the two writes.                           *)
THEOREM EndsAnnounced == Spec => []EndIsAnnounced
<1>1. IInv => EndIsAnnounced
  <2> SUFFICES ASSUME IInv, NEW d \in Deliveries, Quiet(d), cuts[d] = 0, row[d].status \in Settled
               PROVE  row[d].status \in announced[d]
    BY DEF EndIsAnnounced
  <2>1. RowOK(d)
    BY DEF IInv
  <2>2. ~Announcing(d)
    BY DEF Quiet, Announcing
  <2> QED BY <2>1, <2>2 DEF RowOK
<1> QED BY <1>1, Invariance, PTL
=============================================================================
