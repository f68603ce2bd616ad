------------------------- MODULE EventDeliveryProofs -------------------------
(***************************************************************************)
(* Proofs about EventDelivery, for any number of events, pods, writes and  *)
(* faults, and any batch size.                                             *)
(***************************************************************************)
EXTENDS EventDelivery, FiniteSetTheorems, TLAPS

Entries == [event: Events, id: Nat]
Runs == [batch: Seq(Events), next: Nat \ {0}, sent: SUBSET Events]
Positions == [pc: {"idle", "lookup", "handle"}, pos: Nat, done: Nat]

(* The publisher p has counted as sent only rows of its batch, and these   *)
(* only where the send of each has put it in the log.                      *)
PublisherOK(p) ==
    /\ Len(pub[p].batch) <= BatchSize
    /\ pub[p].next <= Len(pub[p].batch) + 1
    /\ ToSet(pub[p].batch) \subseteq outbox
    /\ pub[p].sent \subseteq ToSet(pub[p].batch)
    /\ ProducerRethrows => pub[p].sent \subseteq SentEvents

SenderOK ==
    /\ outbox \subseteq Events
    /\ published \subseteq outbox
    /\ pub \in [Publishers -> Runs]
    /\ \A p \in Publishers : PublisherOK(p)
    /\ ProducerRethrows => MarkedWasSent

(* The id of a message tells its event, and is not used before it is sent. *)
LogOK ==
    /\ topic \in Seq(Entries)
    /\ \A i \in 1 .. Len(topic) : topic[i].id <= Len(topic)
    /\ \A i, j \in 1 .. Len(topic) : topic[i].id = topic[j].id => topic[i].event = topic[j].event

(* The inbox never suppresses a message whose effects are incomplete.      *)
InboxAfterEffects ==
    \A i \in 1 .. Len(topic) : topic[i].id \in inbox => TookEffect(topic[i].event)

(* The consumer c has done what it counts, and where the handler's errors  *)
(* reach the client it has passed only messages that are in the inbox.     *)
ConsumerOK(c) ==
    /\ cons[c].pos <= Len(topic)
    /\ cons[c].done <= Writes
    /\ cons[c].pc # "idle" => cons[c].pos < Len(topic)
    /\ cons[c].pc # "handle" => cons[c].done = 0
    /\ \A w \in 1 .. cons[c].done : effects[Message(c).event][w] > 0
    /\ ConsumerRethrows => \A i \in 1 .. cons[c].pos : topic[i].id \in inbox

ReceiverOK ==
    /\ owner \in Consumers
    /\ offset \in Nat /\ offset <= Len(topic)
    /\ cons \in [Consumers -> Positions]
    /\ inbox \subseteq {topic[i].id : i \in 1 .. Len(topic)}
    /\ effects \in [Events -> [1 .. Writes -> Nat]]
    /\ \A c \in Consumers : ConsumerOK(c)
    /\ InboxAfterEffects
    /\ ConsumerRethrows => \A i \in 1 .. offset : topic[i].id \in inbox

CountersOK ==
    /\ faults \in 0 .. MaxFaults
    /\ cuts \in 0 .. faults

IInv == SenderOK /\ LogOK /\ ReceiverOK /\ CountersOK

LEMMA Numbers ==
  /\ MaxEvents \in Nat /\ MaxFaults \in Nat /\ BatchSize \in Nat \ {0} /\ Writes \in Nat \ {0}
  /\ ProducerRethrows \in BOOLEAN /\ ConsumerRethrows \in BOOLEAN
BY DeliveryAssumption

-----------------------------------------------------------------------------
(* What the log does: it grows, by one message or by two copies of it.     *)
Grows(n, e) ==
    /\ topic' \in Seq(Entries)
    /\ Len(topic') = Len(topic) + n
    /\ \A i \in 1 .. Len(topic) : topic'[i] = topic[i]
    /\ \A i \in Len(topic) + 1 .. Len(topic) + n : topic'[i] = Envelope(e)

LEMMA Appending ==
  ASSUME LogOK, NEW e \in Events,
         \/ topic' = Append(topic, Envelope(e))
         \/ topic' = topic \o <<Envelope(e), Envelope(e)>>
  PROVE  Grows(1, e) \/ Grows(2, e)
<1>1. topic \in Seq(Entries) /\ Len(topic) \in Nat
  BY DEF LogOK
<1>2. Envelope(e) \in Entries
  BY <1>1 DEF Envelope, Entries
<1> DEFINE m == Envelope(e)
<1> HIDE DEF m
<1>3. m \in Entries
  BY <1>2 DEF m
<1>4. CASE topic' = Append(topic, m)
  BY <1>1, <1>3, <1>4 DEF Grows, m
<1>5. CASE topic' = topic \o <<m, m>>
  <2>1. /\ topic' \in Seq(Entries) /\ Len(topic') = Len(topic) + 2
        /\ \A i \in 1 .. Len(topic) : topic'[i] = topic[i]
        /\ topic'[Len(topic) + 1] = m /\ topic'[Len(topic) + 2] = m
    BY <1>1, <1>3, <1>5
  <2> QED BY <1>1, <2>1 DEF Grows, m
<1> QED BY <1>4, <1>5 DEF m

LEMMA GrowthKeepsLog ==
  ASSUME LogOK, NEW e \in Events, NEW n \in {1, 2}, Grows(n, e)
  PROVE  LogOK' /\ SentEvents' = SentEvents \cup {e}
<1>1. /\ topic \in Seq(Entries) /\ Len(topic) \in Nat /\ topic' \in Seq(Entries)
      /\ Len(topic') = Len(topic) + n /\ Len(topic') \in Nat
      /\ \A i \in 1 .. Len(topic) : topic'[i] = topic[i] /\ topic[i] \in Entries
      /\ \A i \in 1 .. Len(topic') : i \notin 1 .. Len(topic) => topic'[i] = Envelope(e)
  BY DEF LogOK, Grows
<1>2. Envelope(e).id = Len(topic) + 1 /\ Envelope(e).event = e
  BY DEF Envelope
<1>3. \A i \in 1 .. Len(topic) : topic[i].id \in Nat /\ topic[i].id <= Len(topic)
  BY <1>1 DEF LogOK, Entries
<1>4. \A i \in 1 .. Len(topic') : topic'[i].id <= Len(topic')
  BY <1>1, <1>2, <1>3
<1>5. \A i, j \in 1 .. Len(topic') : topic'[i].id = topic'[j].id => topic'[i].event = topic'[j].event
  <2> SUFFICES ASSUME NEW i \in 1 .. Len(topic'), NEW j \in 1 .. Len(topic'), topic'[i].id = topic'[j].id
               PROVE  topic'[i].event = topic'[j].event
    OBVIOUS
  <2>1. CASE i \in 1 .. Len(topic) /\ j \in 1 .. Len(topic)
    BY <1>1, <2>1 DEF LogOK
  <2>2. CASE i \in 1 .. Len(topic) /\ j \notin 1 .. Len(topic)
    BY <1>1, <1>2, <1>3, <2>2
  <2>3. CASE i \notin 1 .. Len(topic) /\ j \in 1 .. Len(topic)
    BY <1>1, <1>2, <1>3, <2>3
  <2>4. CASE i \notin 1 .. Len(topic) /\ j \notin 1 .. Len(topic)
    BY <1>1, <2>4
  <2> QED BY <2>1, <2>2, <2>3, <2>4
<1>6. SentEvents' = SentEvents \cup {e}
  <2>1. DOMAIN topic = 1 .. Len(topic) /\ DOMAIN topic' = 1 .. Len(topic')
    BY <1>1
  <2>2. \A x \in SentEvents' : x \in SentEvents \cup {e}
    BY <1>1, <1>2, <2>1 DEF SentEvents
  <2>3. \A x \in SentEvents : x \in SentEvents'
    BY <1>1, <2>1 DEF SentEvents
  <2>4. e \in SentEvents'
    <3>1. Len(topic) + 1 \in 1 .. Len(topic') /\ Len(topic) + 1 \notin 1 .. Len(topic)
      BY <1>1
    <3> QED BY <1>1, <1>2, <2>1, <3>1 DEF SentEvents
  <2> QED BY <2>2, <2>3, <2>4
<1> QED BY <1>1, <1>4, <1>5, <1>6 DEF LogOK

(* The receiver does not care that the log has grown. *)
LEMMA GrowthKeepsReceiver ==
  ASSUME LogOK, ReceiverOK, NEW e \in Events, NEW n \in {1, 2}, Grows(n, e), UNCHANGED consVars
  PROVE  ReceiverOK'
<1>1. /\ Len(topic) \in Nat /\ Len(topic') = Len(topic) + n /\ Len(topic') \in Nat
      /\ \A i \in 1 .. Len(topic) : topic'[i] = topic[i] /\ i \in 1 .. Len(topic')
      /\ \A i \in 1 .. Len(topic') : i \notin 1 .. Len(topic) => topic'[i] = Envelope(e)
  BY DEF LogOK, Grows
<1>2. UNCHANGED <<owner, offset, cons, inbox, effects>>
  BY DEF consVars
<1>3. \A i \in 1 .. Len(topic') : i \notin 1 .. Len(topic) => topic'[i].id \notin inbox
  <2>1. \A i \in 1 .. Len(topic) : topic[i].id # Len(topic) + 1
    BY <1>1 DEF LogOK, Entries
  <2>2. Envelope(e).id = Len(topic) + 1
    BY DEF Envelope
  <2>3. Len(topic) + 1 \notin inbox
    BY <2>1 DEF ReceiverOK
  <2> QED BY <1>1, <2>2, <2>3
<1>4. InboxAfterEffects'
  <2> SUFFICES ASSUME NEW i \in 1 .. Len(topic'), topic'[i].id \in inbox
               PROVE  TookEffect(topic[i].event)'
    BY <1>2 DEF InboxAfterEffects
  <2>1. i \in 1 .. Len(topic) /\ topic'[i] = topic[i]
    BY <1>1, <1>3
  <2>2. TookEffect(topic[i].event)
    BY <2>1 DEF ReceiverOK, InboxAfterEffects
  <2> QED BY <1>2, <2>1, <2>2 DEF TookEffect
<1>5. ASSUME NEW c \in Consumers
      PROVE  ConsumerOK(c)'
  <2>1. ConsumerOK(c) /\ cons[c].pos \in Nat /\ cons[c].done \in Nat /\ cons'[c] = cons[c]
    BY <1>2 DEF ReceiverOK, Positions
  <2>2. \A w \in 1 .. cons[c].done : effects'[Message(c)'.event][w] > 0
    <3>1. CASE cons[c].pc = "handle"
      <4>1. Message(c)' = Message(c)
        BY <1>1, <2>1, <3>1 DEF ConsumerOK, Message
      <4> QED BY <1>2, <2>1, <4>1 DEF ConsumerOK
    <3>2. CASE cons[c].pc # "handle"
      BY <2>1, <3>2 DEF ConsumerOK
    <3> QED BY <3>1, <3>2
  <2>3. ConsumerRethrows => \A i \in 1 .. cons[c].pos : topic'[i].id \in inbox
    BY <1>1, <2>1 DEF ConsumerOK
  <2>4. /\ cons[c].pos <= Len(topic')
        /\ cons[c].pc # "idle" => cons[c].pos < Len(topic')
    BY <1>1, <2>1 DEF ConsumerOK
  <2> QED BY <1>2, <2>1, <2>2, <2>3, <2>4 DEF ConsumerOK
<1>6. inbox \subseteq {topic'[i].id : i \in 1 .. Len(topic')}
  BY <1>1 DEF ReceiverOK
<1>7. /\ offset <= Len(topic')
      /\ ConsumerRethrows => \A i \in 1 .. offset : topic'[i].id \in inbox
  BY <1>1 DEF ReceiverOK
<1> QED BY <1>2, <1>4, <1>5, <1>6, <1>7 DEF ReceiverOK

-----------------------------------------------------------------------------
(* The sending application *)
LEMMA InEvents ==
  ASSUME SenderOK, NEW p \in Publishers
  PROVE  /\ pub[p] \in Runs /\ pub[p].batch \in Seq(Events) /\ pub[p].next \in Nat \ {0}
         /\ pub[p].sent \subseteq Events /\ Len(pub[p].batch) \in Nat /\ PublisherOK(p)
         /\ Sending(p) => EventOf(p) \in Events /\ EventOf(p) \in ToSet(pub[p].batch)
<1>1. /\ pub[p] \in Runs /\ pub[p].batch \in Seq(Events) /\ pub[p].next \in Nat \ {0}
      /\ pub[p].sent \subseteq Events /\ PublisherOK(p)
  BY DEF SenderOK, Runs
<1>2. Len(pub[p].batch) \in Nat /\ DOMAIN pub[p].batch = 1 .. Len(pub[p].batch)
  BY <1>1
<1>3. ASSUME Sending(p)
      PROVE  EventOf(p) \in Events /\ EventOf(p) \in ToSet(pub[p].batch)
  <2>1. pub[p].next \in 1 .. Len(pub[p].batch)
    BY <1>1, <1>2, <1>3 DEF Sending
  <2> QED BY <1>1, <1>2, <2>1 DEF EventOf, ToSet
<1> QED BY <1>1, <1>2, <1>3

(* A send, counted as sent or not. *)
LEMMA SendCounts ==
  ASSUME SenderOK, NEW p \in Publishers, pub' = Sent(p)
  PROVE  pub' = [pub EXCEPT ![p] = [batch |-> pub[p].batch, next |-> pub[p].next + 1,
                                    sent |-> pub[p].sent \cup {EventOf(p)}]]
<1>1. /\ pub = [q \in Publishers |-> pub[q]]
      /\ pub[p] = [batch |-> pub[p].batch, next |-> pub[p].next, sent |-> pub[p].sent]
  BY DEF SenderOK, Runs
<1>2. pub' = [pub EXCEPT ![p] = pub'[p]]
  BY <1>1 DEF Sent
<1>3. pub'[p] = [batch |-> pub[p].batch, next |-> pub[p].next + 1,
                 sent |-> pub[p].sent \cup {EventOf(p)}]
  BY <1>1 DEF Sent
<1> QED BY <1>2, <1>3

LEMMA SkipCountsNothing ==
  ASSUME SenderOK, NEW p \in Publishers, pub' = Skipped(p)
  PROVE  pub' = [pub EXCEPT ![p] = [batch |-> pub[p].batch, next |-> pub[p].next + 1,
                                    sent |-> pub[p].sent]]
<1>1. /\ pub = [q \in Publishers |-> pub[q]]
      /\ pub[p] = [batch |-> pub[p].batch, next |-> pub[p].next, sent |-> pub[p].sent]
  BY DEF SenderOK, Runs
<1>2. pub' = [pub EXCEPT ![p] = pub'[p]]
  BY <1>1 DEF Skipped
<1>3. pub'[p] = [batch |-> pub[p].batch, next |-> pub[p].next + 1, sent |-> pub[p].sent]
  BY <1>1 DEF Skipped
<1> QED BY <1>2, <1>3

(* Publishers that do not move stay right while rows, marks and log grow.  *)
LEMMA OthersStay ==
  ASSUME SenderOK, NEW q \in Publishers, pub'[q] = pub[q],
         outbox \subseteq outbox', SentEvents \subseteq SentEvents'
  PROVE  PublisherOK(q)'
BY DEF SenderOK, PublisherOK

LEMMA PublisherMoves ==
  ASSUME SenderOK, NEW p \in Publishers, NEW r \in Runs,
         pub' = [pub EXCEPT ![p] = r], UNCHANGED outbox,
         SentEvents \subseteq SentEvents',
         published' \subseteq outbox, ProducerRethrows => published' \subseteq SentEvents',
         Len(r.batch) <= BatchSize, r.next <= Len(r.batch) + 1,
         ToSet(r.batch) \subseteq outbox, r.sent \subseteq ToSet(r.batch),
         ProducerRethrows => r.sent \subseteq SentEvents'
  PROVE  SenderOK'
<1>1. pub' \in [Publishers -> Runs] /\ pub'[p] = r /\ \A q \in Publishers \ {p} : pub'[q] = pub[q]
  BY DEF SenderOK
<1>2. PublisherOK(p)'
  BY <1>1 DEF PublisherOK
<1>3. \A q \in Publishers \ {p} : PublisherOK(q)'
  BY <1>1, OthersStay
<1> QED BY <1>1, <1>2, <1>3 DEF SenderOK, MarkedWasSent

(* A send, whose message is in the log unless that is not changed, and     *)
(* which is counted as sent, or not.                                       *)
LEMMA SendSafe ==
  ASSUME IInv, NEW p \in Publishers, Sending(p), UNCHANGED <<outbox, published, consVars>>,
         \/ topic' = topic
         \/ topic' = Append(topic, Envelope(EventOf(p)))
         \/ topic' = topic \o <<Envelope(EventOf(p)), Envelope(EventOf(p))>>,
         \/ pub' = Skipped(p)
         \/ pub' = Sent(p) /\ (ProducerRethrows => topic' # topic)
  PROVE  SenderOK' /\ LogOK' /\ ReceiverOK'
<1> DEFINE e == EventOf(p)
<1>1. /\ pub[p] \in Runs /\ pub[p].batch \in Seq(Events) /\ pub[p].next \in Nat \ {0}
      /\ pub[p].sent \subseteq Events /\ Len(pub[p].batch) \in Nat /\ PublisherOK(p)
      /\ e \in Events /\ e \in ToSet(pub[p].batch)
  BY InEvents DEF IInv
<1>2. PICK x \in Events : x = e
  BY <1>1
<1>3. topic' = topic \/ Grows(1, x) \/ Grows(2, x)
  BY <1>2, Appending DEF IInv
<1>4. /\ LogOK' /\ ReceiverOK' /\ SentEvents \subseteq SentEvents'
      /\ topic' # topic => x \in SentEvents'
  <2>1. CASE topic' = topic
    BY <2>1 DEF IInv, LogOK, ReceiverOK, consVars, SentEvents, ConsumerOK, InboxAfterEffects,
                TookEffect, Message
  <2>2. CASE Grows(1, x) \/ Grows(2, x)
    BY <2>2, GrowthKeepsLog, GrowthKeepsReceiver DEF IInv
  <2> QED BY <1>3, <2>1, <2>2
<1>5. PICK s \in {pub[p].sent, pub[p].sent \cup {x}} :
         /\ pub' = [pub EXCEPT ![p] = [batch |-> pub[p].batch, next |-> pub[p].next + 1, sent |-> s]]
         /\ s = pub[p].sent \/ (ProducerRethrows => topic' # topic)
  BY <1>2, SendCounts, SkipCountsNothing DEF IInv
<1> DEFINE r == [batch |-> pub[p].batch, next |-> pub[p].next + 1, sent |-> s]
<1>6. /\ r \in Runs /\ r.batch = pub[p].batch /\ r.next = pub[p].next + 1 /\ r.sent = s
  BY <1>1, <1>2, <1>5 DEF Runs
<1> HIDE DEF r, e
<1>7. /\ pub' = [pub EXCEPT ![p] = r]
      /\ s \subseteq ToSet(pub[p].batch)
      /\ ProducerRethrows => s \subseteq SentEvents'
      /\ Len(r.batch) <= BatchSize /\ r.next <= Len(r.batch) + 1 /\ ToSet(r.batch) \subseteq outbox
  <2>1. pub' = [pub EXCEPT ![p] = r]
    BY <1>5 DEF r
  <2>2. s \subseteq ToSet(pub[p].batch) /\ (ProducerRethrows => s \subseteq SentEvents')
    BY <1>1, <1>2, <1>4, <1>5 DEF PublisherOK
  <2>3. pub[p].next + 1 <= Len(pub[p].batch) + 1
    BY <1>1 DEF Sending
  <2> QED BY <1>1, <1>6, <2>1, <2>2, <2>3 DEF PublisherOK
<1>8. published' \subseteq outbox /\ (ProducerRethrows => published' \subseteq SentEvents')
  BY <1>4 DEF IInv, SenderOK, MarkedWasSent
<1>9. SenderOK'
  BY <1>4, <1>6, <1>7, <1>8, PublisherMoves DEF IInv
<1> QED BY <1>4, <1>9

LEMMA WriteEventSafe ==
  ASSUME IInv, NEW e \in Events, WriteEvent(e)
  PROVE  SenderOK'
<1>1. outbox' = outbox \cup {e} /\ UNCHANGED <<published, pub, topic>>
  BY DEF WriteEvent
<1>2. SentEvents' = SentEvents
  BY <1>1 DEF SentEvents
<1>3. \A p \in Publishers : PublisherOK(p)'
  BY <1>1, <1>2, OthersStay DEF IInv
<1> QED BY <1>1, <1>2, <1>3 DEF IInv, SenderOK, MarkedWasSent

(* What findMany returns. *)
LEMMA BatchIsRows ==
  ASSUME NEW rows \in SUBSET Events, NEW b \in Batch(rows)
  PROVE  b \in Seq(Events) /\ Len(b) <= BatchSize /\ ToSet(b) \subseteq rows
<1>1. IsFiniteSet(Events)
  BY Numbers, FS_Interval DEF Events
<1>2. Cardinality(rows) \in Nat
  BY <1>1, FS_Subset, FS_CardinalityType
<1>3. PICK n \in Nat : n <= BatchSize /\ b \in [1 .. n -> rows]
  BY <1>2, Numbers DEF Batch, Oldest
<1>4. b \in Seq(Events) /\ Len(b) = n /\ DOMAIN b = 1 .. n
  BY <1>3
<1> QED BY <1>3, <1>4 DEF ToSet

LEMMA PollSafe ==
  ASSUME IInv, NEW p \in Publishers, Poll(p)
  PROVE  SenderOK'
<1>1. PICK b \in Batch(outbox \ published) : pub' = [pub EXCEPT ![p].batch = b]
  BY DEF Poll
<1>2. pub[p] = NotRunning /\ UNCHANGED <<outbox, published, topic>>
  BY DEF Poll
<1>3. b \in Seq(Events) /\ Len(b) <= BatchSize /\ Len(b) \in Nat /\ ToSet(b) \subseteq outbox
  BY BatchIsRows DEF IInv, SenderOK
<1>4. pub' = [pub EXCEPT ![p] = [batch |-> b, next |-> 1, sent |-> {}]]
  <2>1. pub \in [Publishers -> Runs]
    BY DEF IInv, SenderOK
  <2>2. pub' = [pub EXCEPT ![p] = [pub[p] EXCEPT !.batch = b]]
    BY <1>1, <2>1
  <2>3. [NotRunning EXCEPT !.batch = b] = [batch |-> b, next |-> 1, sent |-> {}]
    <3> DEFINE none == <<>>
    <3>1. NotRunning = [batch |-> none, next |-> 1, sent |-> {}]
      BY Zenon DEF NotRunning
    <3> HIDE DEF none
    <3> QED BY <3>1
  <2> QED BY <1>2, <2>2, <2>3, Zenon
<1> DEFINE r == [batch |-> b, next |-> 1, sent |-> {}]
<1>5. /\ r \in Runs /\ Len(r.batch) <= BatchSize /\ r.next <= Len(r.batch) + 1
      /\ ToSet(r.batch) \subseteq outbox /\ r.sent = {}
  BY <1>3 DEF Runs
<1>6. pub' = [pub EXCEPT ![p] = r]
  BY <1>4
<1> HIDE DEF r
<1>7. SentEvents' = SentEvents
  BY <1>2 DEF SentEvents
<1> QED BY <1>2, <1>5, <1>6, <1>7, PublisherMoves DEF IInv, SenderOK, MarkedWasSent

(* The batch is over, marked or not. *)
LEMMA RestSafe ==
  ASSUME IInv, NEW p \in Publishers, pub' = [pub EXCEPT ![p] = NotRunning],
         UNCHANGED <<outbox, topic>>, published' = published \/ published' = published \cup pub[p].sent
  PROVE  SenderOK'
<1>1. PublisherOK(p) /\ SentEvents' = SentEvents
  BY InEvents DEF IInv, SentEvents
<1>2. published' \subseteq outbox /\ (ProducerRethrows => published' \subseteq SentEvents')
  BY <1>1 DEF IInv, SenderOK, MarkedWasSent, PublisherOK
<1>3. /\ NotRunning \in Runs /\ Len(NotRunning.batch) = 0 /\ NotRunning.next = 1
      /\ ToSet(NotRunning.batch) = {} /\ NotRunning.sent = {}
  BY DEF NotRunning, Runs, ToSet
<1>4. Len(NotRunning.batch) <= BatchSize /\ NotRunning.next <= Len(NotRunning.batch) + 1
  BY <1>3, Numbers
<1>5. SentEvents \subseteq SentEvents' /\ ToSet(NotRunning.batch) \subseteq outbox
  BY <1>1, <1>3
<1>6. /\ NotRunning.sent \subseteq ToSet(NotRunning.batch)
      /\ ProducerRethrows => NotRunning.sent \subseteq SentEvents'
  BY <1>3
<1>7. SenderOK /\ NotRunning \in Runs
  BY <1>3 DEF IInv
<1> QED BY <1>2, <1>4, <1>5, <1>6, <1>7, PublisherMoves

-----------------------------------------------------------------------------
(* The receiving application *)
LEMMA Consuming ==
  ASSUME LogOK, ReceiverOK, NEW c \in Consumers
  PROVE  /\ cons[c] \in Positions /\ cons[c].pos \in Nat /\ cons[c].done \in Nat /\ ConsumerOK(c)
         /\ Len(topic) \in Nat
         /\ cons[c].pc # "idle" => /\ cons[c].pos + 1 \in 1 .. Len(topic)
                                   /\ Message(c) = topic[cons[c].pos + 1]
                                   /\ Message(c) \in Entries /\ Message(c).event \in Events
<1>1. cons[c] \in Positions /\ cons[c].pos \in Nat /\ cons[c].done \in Nat /\ ConsumerOK(c)
  BY DEF ReceiverOK, Positions
<1>2. topic \in Seq(Entries) /\ Len(topic) \in Nat
  BY DEF LogOK
<1>3. ASSUME cons[c].pc # "idle"
      PROVE  cons[c].pos + 1 \in 1 .. Len(topic) /\ Message(c) \in Entries /\ Message(c).event \in Events
  <2>1. cons[c].pos + 1 \in 1 .. Len(topic)
    BY <1>1, <1>2, <1>3 DEF ConsumerOK
  <2>2. topic[cons[c].pos + 1] \in Entries
    BY <1>2, <2>1
  <2> QED BY <2>1, <2>2 DEF Message, Entries
<1> QED BY <1>1, <1>2, <1>3 DEF Message

(* A consumer that does not move, while the inbox and the effects grow. *)
LEMMA ConsumerStays ==
  ASSUME LogOK, ReceiverOK, NEW c \in Consumers, cons'[c] = cons[c], UNCHANGED topic,
         inbox \subseteq inbox',
         \A e \in Events, w \in 1 .. Writes : effects[e][w] > 0 => effects'[e][w] > 0
  PROVE  ConsumerOK(c)'
<1>1. /\ cons[c].done \in Nat /\ ConsumerOK(c) /\ Message(c)' = Message(c)
      /\ cons[c].pc # "idle" => Message(c).event \in Events
  BY Consuming DEF Message
<1>2. \A w \in 1 .. cons[c].done : effects'[Message(c)'.event][w] > 0
  <2>1. CASE cons[c].pc = "handle"
    <3>1. \A w \in 1 .. cons[c].done : w \in 1 .. Writes /\ effects[Message(c).event][w] > 0
      BY <1>1, Numbers DEF ConsumerOK
    <3> QED BY <1>1, <2>1, <3>1
  <2>2. CASE cons[c].pc # "handle"
    BY <1>1, <2>2 DEF ConsumerOK
  <2> QED BY <2>1, <2>2
<1> QED BY <1>1, <1>2 DEF ConsumerOK

(* One consumer goes to wait at a position it may wait at. *)
LEMMA WaitSafe ==
  ASSUME LogOK, ReceiverOK, NEW c \in Consumers, NEW n \in Nat, n <= Len(topic),
         cons' = [cons EXCEPT ![c] = Waiting(n)],
         UNCHANGED <<topic, offset, effects>>, owner' \in Consumers, inbox \subseteq inbox',
         inbox' \subseteq {topic[i].id : i \in 1 .. Len(topic)}, InboxAfterEffects',
         ConsumerRethrows => \A i \in 1 .. n : topic[i].id \in inbox'
  PROVE  ReceiverOK'
<1>1. /\ Waiting(n) \in Positions /\ Waiting(n).pos = n /\ Waiting(n).done = 0 /\ Waiting(n).pc = "idle"
  BY DEF Waiting, Positions
<1>2. /\ cons' \in [Consumers -> Positions] /\ cons'[c] = Waiting(n)
      /\ \A d \in Consumers \ {c} : cons'[d] = cons[d]
  BY <1>1 DEF ReceiverOK
<1>3. ConsumerOK(c)'
  BY <1>1, <1>2, Numbers DEF ConsumerOK
<1>4. \A d \in Consumers \ {c} : ConsumerOK(d)'
  BY <1>2, ConsumerStays
<1> QED BY <1>2, <1>3, <1>4 DEF ReceiverOK

(* A consumer takes its next message, or goes on to handle it. *)
LEMMA AdvanceSafe ==
  ASSUME LogOK, ReceiverOK, NEW c \in Consumers, NEW pc \in {"lookup", "handle"},
         cons[c].pos < Len(topic), cons[c].done = 0,
         cons' = [cons EXCEPT ![c].pc = pc], UNCHANGED <<topic, owner, offset, inbox, effects>>
  PROVE  ReceiverOK'
<1>1. cons[c] \in Positions /\ ConsumerOK(c)
  BY Consuming
<1>2. /\ cons' \in [Consumers -> Positions] /\ cons'[c].pc = pc /\ cons'[c].pos = cons[c].pos
      /\ cons'[c].done = cons[c].done /\ \A d \in Consumers \ {c} : cons'[d] = cons[d]
  BY <1>1 DEF ReceiverOK, Positions
<1>3. ConsumerOK(c)'
  BY <1>1, <1>2 DEF ConsumerOK
<1>4. \A d \in Consumers \ {c} : ConsumerOK(d)'
  BY <1>2, ConsumerStays
<1>5. InboxAfterEffects'
  BY DEF ReceiverOK, InboxAfterEffects, TookEffect
<1> QED BY <1>2, <1>3, <1>4, <1>5 DEF ReceiverOK

LEMMA OneMoreEffect ==
  ASSUME effects \in [Events -> [1 .. Writes -> Nat]], NEW e \in Events, NEW n \in 1 .. Writes,
         effects' = [effects EXCEPT ![e][n] = @ + 1]
  PROVE  /\ effects' \in [Events -> [1 .. Writes -> Nat]] /\ effects'[e][n] > 0
         /\ \A d \in Events, w \in 1 .. Writes : effects[d][w] > 0 => effects'[d][w] > 0
<1> DEFINE h == [effects[e] EXCEPT ![n] = @ + 1]
<1>1. /\ h \in [1 .. Writes -> Nat] /\ h[n] > 0
      /\ \A w \in 1 .. Writes : effects[e][w] > 0 => h[w] > 0
  <2>1. effects[e] \in [1 .. Writes -> Nat] /\ effects[e][n] \in Nat
    OBVIOUS
  <2> QED BY <2>1
<1>2. effects' = [effects EXCEPT ![e] = h]
  OBVIOUS
<1>3. PICK v : v = h
  OBVIOUS
<1> HIDE DEF h
<1>4. /\ effects' \in [Events -> [1 .. Writes -> Nat]] /\ effects'[e] = v
      /\ \A d \in Events \ {e} : effects'[d] = effects[d]
  BY <1>1, <1>2, <1>3
<1> QED BY <1>1, <1>3, <1>4

LEMMA HandlerWriteSafe ==
  ASSUME LogOK, ReceiverOK, NEW c \in Consumers, HandlerWrite(c)
  PROVE  ReceiverOK'
<1> DEFINE m == Message(c).event
           k == cons[c].done + 1
<1>1. /\ cons[c].pc = "handle" /\ cons[c].done # Writes
      /\ effects' = [effects EXCEPT ![m][k] = @ + 1]
      /\ cons' = [cons EXCEPT ![c].done = @ + 1]
      /\ UNCHANGED <<topic, owner, offset, inbox>>
  BY DEF HandlerWrite, HandlersSucceeded
<1>2. /\ cons[c] \in Positions /\ cons[c].done \in Nat /\ ConsumerOK(c) /\ m \in Events
      /\ effects \in [Events -> [1 .. Writes -> Nat]]
  BY <1>1, Consuming DEF ReceiverOK
<1>3. k \in 1 .. Writes
  BY <1>1, <1>2, Numbers DEF ConsumerOK
<1>4. PICK e \in Events, n \in 1 .. Writes : e = m /\ n = k
  BY <1>2, <1>3
<1> HIDE DEF m, k
<1>5. /\ effects' = [effects EXCEPT ![e][n] = @ + 1]
      /\ effects' \in [Events -> [1 .. Writes -> Nat]]
      /\ effects'[e][n] > 0
      /\ \A f \in Events, w \in 1 .. Writes : effects[f][w] > 0 => effects'[f][w] > 0
  <2>1. effects' = [effects EXCEPT ![e][n] = @ + 1]
    BY <1>1, <1>4
  <2> QED BY ONLY <1>2, <2>1, OneMoreEffect
<1>6. /\ cons' \in [Consumers -> Positions] /\ cons'[c].pc = "handle" /\ cons'[c].pos = cons[c].pos
      /\ cons'[c].done = n /\ \A d \in Consumers \ {c} : cons'[d] = cons[d]
  BY <1>1, <1>2, <1>4 DEF ReceiverOK, Positions, k
<1>7. Message(c)' = Message(c)
  BY <1>1, <1>6 DEF Message
<1>8. ConsumerOK(c)'
  <2>1. \A w \in 1 .. n : effects'[e][w] > 0
    <3>1. \A w \in 1 .. cons[c].done : effects[e][w] > 0 /\ w \in 1 .. Writes
      BY <1>2, <1>3, <1>4, Numbers DEF ConsumerOK, m, k
    <3>2. \A w \in 1 .. n : w \in 1 .. cons[c].done \/ w = n
      BY <1>2, <1>4 DEF k
    <3> QED BY <1>5, <3>1, <3>2
  <2> QED BY <1>1, <1>2, <1>4, <1>6, <1>7, <2>1 DEF ConsumerOK, m
<1>9. \A d \in Consumers \ {c} : ConsumerOK(d)'
  BY <1>1, <1>5, <1>6, ConsumerStays
<1>10. InboxAfterEffects'
  <2> SUFFICES ASSUME NEW i \in 1 .. Len(topic), topic[i].id \in inbox
               PROVE  TookEffect(topic[i].event)'
    BY <1>1 DEF InboxAfterEffects
  <2>1. topic[i] \in Entries
    BY DEF LogOK
  <2>3. topic[i].event \in Events
    BY <2>1 DEF Entries
  <2>2. TookEffect(topic[i].event)
    BY DEF ReceiverOK, InboxAfterEffects
  <2> QED BY <1>1, <1>5, <2>2, <2>3 DEF TookEffect
<1> QED BY <1>1, <1>5, <1>6, <1>8, <1>9, <1>10 DEF ReceiverOK

(* The consumer passes a message that is in the inbox, or waits where it   *)
(* was, for the same message; where errors do not reach the client, it     *)
(* passes any.                                                             *)
LEMMA ReturnSafe ==
  ASSUME LogOK, ReceiverOK, NEW c \in Consumers,
         \/ cons' = Again(c)
         \/ cons' = Done(c) /\ cons[c].pc # "idle" /\ (ConsumerRethrows => Message(c).id \in inbox'),
         UNCHANGED <<topic, owner, offset, effects>>, inbox \subseteq inbox',
         inbox' \subseteq {topic[i].id : i \in 1 .. Len(topic)}, InboxAfterEffects'
  PROVE  ReceiverOK'
<1>1. /\ cons[c].pos \in Nat /\ Len(topic) \in Nat /\ cons[c].pos <= Len(topic)
      /\ ConsumerRethrows => \A i \in 1 .. cons[c].pos : topic[i].id \in inbox'
      /\ cons[c].pc # "idle" => cons[c].pos + 1 <= Len(topic) /\ Message(c) = topic[cons[c].pos + 1]
      /\ owner' \in Consumers
  BY Consuming DEF ConsumerOK, ReceiverOK
<1>2. CASE cons' = Again(c)
  BY <1>1, <1>2, WaitSafe DEF Again
<1>3. CASE cons' = Done(c) /\ cons[c].pc # "idle" /\ (ConsumerRethrows => Message(c).id \in inbox')
  <2>1. ConsumerRethrows => \A i \in 1 .. cons[c].pos + 1 : topic[i].id \in inbox'
    BY <1>1, <1>3
  <2>2. cons[c].pos + 1 \in Nat /\ cons[c].pos + 1 <= Len(topic)
    BY <1>1, <1>3
  <2>3. cons' = [cons EXCEPT ![c] = Waiting(cons[c].pos + 1)]
    BY <1>3 DEF Done
  <2> QED BY <1>1, <2>1, <2>2, <2>3, WaitSafe
<1> QED BY <1>2, <1>3

LEMMA InboxStays ==
  ASSUME ReceiverOK, UNCHANGED <<topic, effects, inbox>>
  PROVE  InboxAfterEffects'
BY DEF ReceiverOK, InboxAfterEffects, TookEffect

LEMMA RecordInboxSafe ==
  ASSUME LogOK, ReceiverOK, NEW c \in Consumers, RecordInbox(c)
  PROVE  ReceiverOK'
<1>1. /\ cons[c].pc = "handle" /\ cons[c].done = Writes
      /\ inbox' = inbox \cup {Message(c).id}
      /\ cons' = Again(c) \/ cons' = Done(c)
      /\ UNCHANGED <<topic, owner, offset, effects>>
  BY DEF RecordInbox, HandlersSucceeded, Threw
<1>2. /\ ConsumerOK(c) /\ cons[c].pos + 1 \in 1 .. Len(topic)
      /\ Message(c) = topic[cons[c].pos + 1] /\ Message(c).event \in Events
  BY <1>1, Consuming
<1>3. TookEffect(Message(c).event)
  BY <1>1, <1>2 DEF ConsumerOK, TookEffect
<1>4. InboxAfterEffects'
  <2> SUFFICES ASSUME NEW i \in 1 .. Len(topic), topic[i].id \in inbox \/ topic[i].id = Message(c).id
               PROVE  TookEffect(topic[i].event)'
    BY <1>1 DEF InboxAfterEffects
  <2>1. CASE topic[i].id \in inbox
    BY <1>1, <2>1 DEF ReceiverOK, InboxAfterEffects, TookEffect
  <2>2. CASE topic[i].id = Message(c).id
    <3>1. topic[i].event = Message(c).event
      BY <1>2, <2>2 DEF LogOK
    <3> QED BY <1>1, <1>3, <3>1 DEF TookEffect
  <2> QED BY <2>1, <2>2
<1>5. inbox' \subseteq {topic[i].id : i \in 1 .. Len(topic)}
  BY <1>1, <1>2 DEF ReceiverOK
<1> QED BY <1>1, <1>4, <1>5, ReturnSafe

LEMMA ReceiverSafe ==
  ASSUME LogOK, ReceiverOK, NEW c \in Consumers,
         Deliver(c) \/ Handle(c) \/ CommitOffset(c) \/ ConsumerCrash(c) \/ Rebalance(c)
  PROVE  ReceiverOK'
<1> USE Numbers
<1>1. CASE Deliver(c)
  <2>1. cons[c].pos < Len(topic) /\ cons[c].pc = "idle"
    BY <1>1 DEF Deliver
  <2>2. cons[c].done = 0
    BY <2>1, Consuming DEF ConsumerOK
  <2> QED BY <1>1, <2>1, <2>2, AdvanceSafe DEF Deliver
<1>2. CASE InboxLookup(c)
  <2>1. cons[c].pc = "lookup" /\ UNCHANGED <<topic, owner, offset, inbox, effects>>
    BY <1>2 DEF InboxLookup
  <2>2. CASE Message(c).id \in inbox
    BY <1>2, <2>1, <2>2, ReturnSafe, InboxStays DEF InboxLookup, AlreadyProcessed, ReceiverOK
  <2>3. CASE Message(c).id \notin inbox
    <3>1. cons[c].pos < Len(topic) /\ cons[c].done = 0
      BY <2>1, Consuming DEF ConsumerOK
    <3> QED BY <1>2, <2>1, <2>3, <3>1, AdvanceSafe DEF InboxLookup, AlreadyProcessed
  <2> QED BY <2>2, <2>3
<1>3. CASE LookupError(c)
  BY <1>3, ReturnSafe, InboxStays DEF LookupError, ReceiverOK
<1>4. CASE HandlerWrite(c)
  BY <1>4, HandlerWriteSafe
<1>5. CASE HandlerError(c)
  BY <1>5, ReturnSafe, InboxStays DEF HandlerError, Threw, ReceiverOK
<1>6. CASE RecordInbox(c)
  BY <1>6, RecordInboxSafe
<1>7. CASE CommitOffset(c)
  <2>1. offset' = cons[c].pos /\ UNCHANGED <<topic, owner, cons, inbox, effects>>
    BY <1>7 DEF CommitOffset
  <2>2. /\ cons[c].pos \in Nat /\ cons[c].pos <= Len(topic)
        /\ ConsumerRethrows => \A i \in 1 .. cons[c].pos : topic[i].id \in inbox
    BY Consuming DEF ConsumerOK
  <2>3. \A d \in Consumers : ConsumerOK(d)'
    BY <2>1, ConsumerStays
  <2> QED BY <2>1, <2>2, <2>3, InboxStays DEF ReceiverOK
<1>8. CASE ConsumerCrash(c) \/ Rebalance(c)
  <2>1. /\ cons' = [cons EXCEPT ![c] = Waiting(offset)]
        /\ UNCHANGED <<topic, offset, inbox, effects>> /\ owner' \in Consumers
    BY <1>8 DEF ConsumerCrash, Rebalance, ReceiverOK
  <2>2. /\ offset \in Nat /\ offset <= Len(topic)
        /\ ConsumerRethrows => \A i \in 1 .. offset : topic[i].id \in inbox
        /\ inbox \subseteq {topic[i].id : i \in 1 .. Len(topic)}
    BY DEF ReceiverOK
  <2> QED BY <2>1, <2>2, WaitSafe, InboxStays
<1> QED BY <1>1, <1>2, <1>3, <1>4, <1>5, <1>6, <1>7, <1>8 DEF Handle

-----------------------------------------------------------------------------
LEMMA InitHolds == Init => IInv
<1> SUFFICES ASSUME Init PROVE IInv
  OBVIOUS
<1> USE Numbers
<1>1. SenderOK
  <2>1. /\ NotRunning \in Runs /\ Len(NotRunning.batch) = 0 /\ NotRunning.next = 1
        /\ ToSet(NotRunning.batch) = {} /\ NotRunning.sent = {}
    BY DEF NotRunning, Runs, ToSet
  <2>2. \A p \in Publishers : pub[p] = NotRunning
    BY DEF Init
  <2>3. \A p \in Publishers : PublisherOK(p)
    BY <2>1, <2>2 DEF PublisherOK
  <2> QED BY <2>1, <2>3 DEF Init, SenderOK, MarkedWasSent
<1>2. Len(topic) = 0 /\ topic \in Seq(Entries)
  BY DEF Init
<1>3. LogOK
  BY <1>2 DEF LogOK
<1>4. ReceiverOK
  <2>1. /\ Waiting(0) \in Positions /\ Waiting(0).pos = 0 /\ Waiting(0).done = 0 /\ Waiting(0).pc = "idle"
    BY DEF Waiting, Positions
  <2>2. \A c \in Consumers : cons[c] = Waiting(0)
    BY DEF Init
  <2>3. \A c \in Consumers : ConsumerOK(c)
    BY <1>2, <2>1, <2>2 DEF ConsumerOK
  <2>4. cons \in [Consumers -> Positions] /\ effects \in [Events -> [1 .. Writes -> Nat]]
    BY <2>1 DEF Init
  <2> QED BY <1>2, <2>3, <2>4 DEF Init, ReceiverOK, InboxAfterEffects
<1>5. CountersOK
  BY DEF Init, CountersOK
<1> QED BY <1>1, <1>3, <1>4, <1>5 DEF IInv

LEMMA CountersSafe ==
  ASSUME IInv, [Next]_vars
  PROVE  CountersOK'
<1>1. \/ UNCHANGED <<faults, cuts>>
      \/ Fault /\ (cuts' = cuts \/ cuts' = cuts + 1)
  BY DEF Next, Send, Handle, WriteEvent, Poll, SendAcknowledged, SendRetried, SendError, MarkPublished,
         PublisherCrash, Deliver, InboxLookup, LookupError, HandlerWrite, HandlerError, RecordInbox,
         CommitOffset, ConsumerCrash, Rebalance, Interrupted, vars
<1> QED BY <1>1, Numbers DEF IInv, CountersOK, Fault

(* Nothing the sender looks at is touched by a consumer. *)
LEMMA SenderStays ==
  ASSUME IInv, UNCHANGED <<outbox, published, pub, topic>>
  PROVE  SenderOK' /\ LogOK'
BY DEF IInv, SenderOK, LogOK, PublisherOK, MarkedWasSent, SentEvents

LEMMA ReceiverStays ==
  ASSUME IInv, UNCHANGED <<topic, owner, offset, cons, inbox, effects>>
  PROVE  LogOK' /\ ReceiverOK'
<1>1. \A c \in Consumers : ConsumerOK(c)'
  BY ConsumerStays DEF IInv
<1> QED BY <1>1, InboxStays DEF IInv, LogOK, ReceiverOK

LEMMA StepHolds == IInv /\ [Next]_vars => IInv'
<1> SUFFICES ASSUME IInv, [Next]_vars PROVE SenderOK' /\ LogOK' /\ ReceiverOK'
  BY CountersSafe DEF IInv
<1>1. ASSUME NEW e \in Events, WriteEvent(e) PROVE SenderOK' /\ LogOK' /\ ReceiverOK'
  BY <1>1, WriteEventSafe, ReceiverStays DEF WriteEvent, consVars
<1>2. ASSUME NEW p \in Publishers, Poll(p) PROVE SenderOK' /\ LogOK' /\ ReceiverOK'
  BY <1>2, PollSafe, ReceiverStays DEF Poll, consVars
<1>3. ASSUME NEW p \in Publishers, Send(p) PROVE SenderOK' /\ LogOK' /\ ReceiverOK'
  <2>1. Sending(p) /\ UNCHANGED <<outbox, published, consVars>>
    BY <1>3 DEF Send, SendAcknowledged, SendRetried, SendError
  <2>2. CASE SendAcknowledged(p) \/ SendRetried(p)
    <3>1. Len(topic) \in Nat
      BY DEF IInv, LogOK
    <3>2. topic \in Seq(Entries) /\ Envelope(EventOf(p)) \in Entries
      BY <2>1, <3>1, InEvents DEF IInv, LogOK, Envelope, Entries
    <3>3. Len(topic') # Len(topic)
      BY <2>2, <3>1, <3>2 DEF SendAcknowledged, SendRetried
    <3> QED BY <2>1, <2>2, <3>3, SendSafe DEF SendAcknowledged, SendRetried
  <2>3. CASE SendError(p)
    BY <2>1, <2>3, SendSafe DEF SendError
  <2> QED BY <1>3, <2>2, <2>3 DEF Send
<1>4. ASSUME NEW p \in Publishers, MarkPublished(p) \/ PublisherCrash(p)
      PROVE  SenderOK' /\ LogOK' /\ ReceiverOK'
  BY <1>4, RestSafe, ReceiverStays DEF MarkPublished, PublisherCrash, Marked, consVars
<1>5. ASSUME NEW c \in Consumers,
             Deliver(c) \/ Handle(c) \/ CommitOffset(c) \/ ConsumerCrash(c) \/ Rebalance(c)
      PROVE  SenderOK' /\ LogOK' /\ ReceiverOK'
  <2>1. UNCHANGED <<outbox, published, pub, topic>>
    BY <1>5 DEF Deliver, Handle, InboxLookup, LookupError, HandlerWrite, HandlerError,
                RecordInbox, CommitOffset, ConsumerCrash, Rebalance, pubVars
  <2> QED BY <1>5, <2>1, SenderStays, ReceiverSafe DEF IInv
<1>6. CASE UNCHANGED vars
  BY <1>6, SenderStays, ReceiverStays DEF vars
<1> QED BY <1>1, <1>2, <1>3, <1>4, <1>5, <1>6 DEF Next

LEMMA Invariance == Spec => []IInv
BY InitHolds, StepHolds, PTL DEF Spec

(* Every variable of publisher, log and consumer keeps its type; a batch   *)
(* holds at most BatchSize rows, and only committed ones.                  *)
THEOREM TypeCorrect == Spec => []TypeOK
<1>1. IInv => TypeOK
  <2> SUFFICES ASSUME IInv PROVE TypeOK
    OBVIOUS
  <2>1. ASSUME NEW p \in Publishers
        PROVE  /\ pub[p].batch \in Seq(Events) /\ Len(pub[p].batch) <= BatchSize
               /\ pub[p].next \in 1 .. Len(pub[p].batch) + 1
               /\ pub[p].sent \subseteq ToSet(pub[p].batch)
    BY InEvents DEF IInv, PublisherOK
  <2>2. Len(topic) \in Nat /\ DOMAIN topic = 1 .. Len(topic) /\ topic \in Seq([event: Events, id: Nat])
    BY DEF IInv, LogOK, Entries
  <2>3. offset \in 0 .. Len(topic)
    BY <2>2 DEF IInv, ReceiverOK
  <2>4. \A c \in Consumers : cons[c] \in [pc: {"idle", "lookup", "handle"},
                                          pos: 0 .. Len(topic), done: 0 .. Writes]
    <3> TAKE c \in Consumers
    <3>1. cons[c] \in Positions /\ cons[c].pos \in 0 .. Len(topic) /\ cons[c].done \in 0 .. Writes
      BY <2>2, Consuming, Numbers DEF IInv, ConsumerOK
    <3> QED BY <3>1 DEF Positions
  <2>5. cons \in [Consumers -> [pc: {"idle", "lookup", "handle"}, pos: 0 .. Len(topic), done: 0 .. Writes]]
    BY <2>4 DEF IInv, ReceiverOK
  <2> QED BY <2>1, <2>2, <2>3, <2>5 DEF IInv, SenderOK, ReceiverOK, CountersOK, TypeOK
<1> QED BY <1>1, Invariance, PTL

(* Where the producer passes a send error on, no event is marked published *)
(* that is not in the log, whatever crashes, fails or overlaps             *)
(* (publishPending of shield-core).                                        *)
THEOREM NothingMarkedUnsent == ProducerRethrows => (Spec => []MarkedWasSent)
<1> SUFFICES ASSUME ProducerRethrows PROVE Spec => []MarkedWasSent
  OBVIOUS
<1>1. IInv => MarkedWasSent
  BY DEF IInv, SenderOK
<1> QED BY <1>1, Invariance, PTL

(* Where handleMessage passes a handler's error on, the group commits only *)
(* past messages all of whose writes were done and whose id is in the      *)
(* inbox, across crashes, redeliveries and takeovers.                      *)
THEOREM NothingCommittedUnhandled == ConsumerRethrows => (Spec => []CommittedWasHandled)
<1> SUFFICES ASSUME ConsumerRethrows PROVE Spec => []CommittedWasHandled
  OBVIOUS
<1>1. IInv => CommittedWasHandled
  <2> SUFFICES ASSUME IInv, NEW i \in 1 .. offset
               PROVE  TookEffect(topic[i].event) /\ topic[i].id \in inbox
    BY DEF CommittedWasHandled
  <2>1. topic[i].id \in inbox
    BY DEF IInv, ReceiverOK
  <2>2. i \in 1 .. Len(topic)
    BY DEF IInv, ReceiverOK, LogOK
  <2> QED BY <2>1, <2>2 DEF IInv, ReceiverOK, InboxAfterEffects
<1> QED BY <1>1, Invariance, PTL

(* The inbox suppresses no message whose writes are not all done, also     *)
(* where the consumer swallows its handler's errors.                       *)
THEOREM NothingSuppressedUnhandled == Spec => []InboxAfterEffects
<1>1. IInv => InboxAfterEffects
  BY DEF IInv, ReceiverOK
<1> QED BY <1>1, Invariance, PTL

-----------------------------------------------------------------------------
(* How often a write is done.  A run that lost the partition was counted   *)
(* in cuts when it lost it, and may still do the writes it has not done.   *)
(* A run of the owner is paid for by its message's entry in the inbox,     *)
(* which it makes in the end; until then the owner has credit for the      *)
(* writes of this run, and an entry somebody else made does not count.     *)

Overtaken(e, w) ==
    {c \in Consumers \ {owner} :
        cons[c].pc # "idle" /\ Message(c).event = e /\ cons[c].done < w}

InHand == IF cons[owner].pc = "handle" THEN {Message(owner).id} ELSE {}

Charged(e) == (Envelopes(e) \cap inbox) \ InHand

Credit(e, w) ==
    IF cons[owner].pc = "handle" /\ Message(owner).event = e /\ w <= cons[owner].done THEN 1 ELSE 0

RunsOK(e, w) ==
    /\ IsFiniteSet(Overtaken(e, w))
    /\ effects[e][w] + Cardinality(Overtaken(e, w)) <= Cardinality(Charged(e)) + cuts + Credit(e, w)

AllRunsOK == \A e \in Events, w \in 1 .. Writes : RunsOK(e, w)

Countable(e, w) ==
    /\ IsFiniteSet(Envelopes(e)) /\ Cardinality(Envelopes(e)) \in Nat
    /\ IsFiniteSet(Charged(e)) /\ Cardinality(Charged(e)) \in Nat
    /\ effects[e][w] \in Nat /\ cuts \in Nat /\ Credit(e, w) \in {0, 1}

LEMMA RunCounts ==
  ASSUME IInv, NEW e \in Events, NEW w \in 1 .. Writes
  PROVE  Countable(e, w)
<1>1. topic \in Seq(Entries) /\ Len(topic) \in Nat /\ DOMAIN topic = 1 .. Len(topic)
  BY DEF IInv, LogOK
<1>2. Envelopes(e) \subseteq 0 .. Len(topic)
  <2>1. \A i \in 1 .. Len(topic) : topic[i] \in Entries /\ topic[i].id <= Len(topic)
    BY <1>1 DEF IInv, LogOK
  <2>2. \A i \in 1 .. Len(topic) : topic[i].id \in 0 .. Len(topic)
    BY <1>1, <2>1 DEF Entries
  <2> QED BY <1>1, <2>2 DEF Envelopes
<1>3. IsFiniteSet(0 .. Len(topic)) /\ Charged(e) \subseteq Envelopes(e)
  BY <1>1, FS_Interval DEF Charged
<1>4. effects[e][w] \in Nat /\ cuts \in Nat
  BY Numbers DEF IInv, ReceiverOK, CountersOK
<1> QED BY <1>2, <1>3, <1>4, FS_Subset, FS_CardinalityType DEF Countable, Credit

LEMMA RunCountsNext ==
  ASSUME NEW e \in Events, NEW w \in 1 .. Writes
  PROVE  IInv' => Countable(e, w)'
<1>1. IInv => Countable(e, w)
  BY RunCounts
<1> QED BY <1>1, PTL

LEMMA AtMostOneMore ==
  ASSUME NEW S, IsFiniteSet(S), NEW x, NEW T, T \subseteq S \cup {x}
  PROVE  IsFiniteSet(T) /\ Cardinality(T) \in Nat /\ Cardinality(T) <= Cardinality(S) + 1
<1>1. /\ IsFiniteSet(S \cup {x}) /\ Cardinality(S) \in Nat
      /\ Cardinality(S \cup {x}) = Cardinality(S) \/ Cardinality(S \cup {x}) = Cardinality(S) + 1
  BY FS_AddElement, FS_CardinalityType
<1>2. IsFiniteSet(T) /\ Cardinality(T) <= Cardinality(S \cup {x})
  BY <1>1, FS_Subset
<1> QED BY <1>1, <1>2, FS_CardinalityType

(* The run ends or goes on, and what it loses in credit is counted. *)
LEMMA RunKept ==
  ASSUME IInv, IInv', NEW e \in Events, NEW w \in 1 .. Writes, RunsOK(e, w),
         Overtaken(e, w)' \subseteq Overtaken(e, w), Charged(e) \subseteq Charged(e)',
         effects'[e][w] + Credit(e, w) + cuts <= effects[e][w] + Credit(e, w)' + cuts'
  PROVE  RunsOK(e, w)'
<1>1. IsFiniteSet(Overtaken(e, w)') /\ Cardinality(Overtaken(e, w)') <= Cardinality(Overtaken(e, w))
  BY FS_Subset DEF RunsOK
<1>2. Cardinality(Overtaken(e, w)') \in Nat /\ Cardinality(Overtaken(e, w)) \in Nat
  BY <1>1, FS_CardinalityType DEF RunsOK
<1>3. IsFiniteSet(Charged(e)') /\ Cardinality(Charged(e)') \in Nat
      /\ effects'[e][w] \in Nat /\ cuts' \in Nat /\ Credit(e, w)' \in {0, 1}
  BY RunCountsNext DEF Countable
<1>4. Cardinality(Charged(e)) <= Cardinality(Charged(e)')
  BY <1>3, FS_Subset
<1>5. /\ Cardinality(Charged(e)) \in Nat /\ effects[e][w] \in Nat /\ cuts \in Nat /\ Credit(e, w) \in {0, 1}
      /\ effects[e][w] + Cardinality(Overtaken(e, w)) <= Cardinality(Charged(e)) + cuts + Credit(e, w)
  BY RunCounts DEF RunsOK, Countable
<1>6. effects'[e][w] + Cardinality(Overtaken(e, w)') <= Cardinality(Charged(e)') + cuts' + Credit(e, w)'
  BY <1>1, <1>2, <1>3, <1>4, <1>5
<1> QED BY <1>1, <1>6 DEF RunsOK

LEMMA NothingRuns ==
  ASSUME IInv, IInv', AllRunsOK, UNCHANGED <<topic, consVars, cuts>>
  PROVE  AllRunsOK'
<1> SUFFICES ASSUME NEW e \in Events, NEW w \in 1 .. Writes PROVE RunsOK(e, w)'
  BY DEF AllRunsOK
<1>1. UNCHANGED <<topic, owner, cons, inbox, effects, cuts>>
  BY DEF consVars
<1>2. \A c : Message(c)' = Message(c)
  BY <1>1 DEF Message
<1>3. Overtaken(e, w)' = Overtaken(e, w)
  BY <1>1, <1>2 DEF Overtaken
<1>4. Charged(e)' = Charged(e) /\ Credit(e, w)' = Credit(e, w)
  BY <1>1, <1>2 DEF Charged, InHand, Envelopes, Credit
<1>5. RunsOK(e, w)
  BY DEF AllRunsOK
<1> QED BY <1>1, <1>3, <1>4, <1>5 DEF RunsOK

LEMMA GrowthKeepsRuns ==
  ASSUME IInv, IInv', AllRunsOK, NEW x \in Events, NEW n \in {1, 2}, Grows(n, x), UNCHANGED <<consVars, cuts>>
  PROVE  AllRunsOK'
<1> SUFFICES ASSUME NEW e \in Events, NEW w \in 1 .. Writes PROVE RunsOK(e, w)'
  BY DEF AllRunsOK
<1>1. UNCHANGED <<owner, cons, inbox, effects, cuts>> /\ owner \in Consumers
  BY DEF consVars, IInv, ReceiverOK
<1>2. /\ topic' \in Seq(Entries) /\ topic \in Seq(Entries) /\ Len(topic) \in Nat /\ Len(topic') = Len(topic) + n
      /\ \A i \in 1 .. Len(topic) : topic'[i] = topic[i]
  BY DEF Grows, IInv, LogOK
<1>3. \A c \in Consumers : cons[c].pc # "idle" => Message(c)' = Message(c)
  BY <1>1, <1>2, Consuming DEF IInv, Message
<1>4. Envelopes(e) \subseteq Envelopes(e)'
  BY <1>2 DEF Envelopes
<1>5. InHand' = InHand /\ Credit(e, w)' = Credit(e, w)
  BY <1>1, <1>3 DEF InHand, Credit
<1>6. Overtaken(e, w)' \subseteq Overtaken(e, w)
  BY <1>1, <1>3 DEF Overtaken
<1>7. Charged(e) \subseteq Charged(e)'
  BY <1>1, <1>4, <1>5 DEF Charged
<1>8. RunsOK(e, w)
  BY DEF AllRunsOK
<1> QED BY <1>1, <1>5, <1>6, <1>7, <1>8, RunCounts, RunKept DEF Countable

LEMMA SendKeepsRuns ==
  ASSUME IInv, IInv', AllRunsOK, NEW p \in Publishers, Send(p)
  PROVE  AllRunsOK'
<1>1. Sending(p) /\ UNCHANGED <<consVars, cuts>>
  BY DEF Send, SendAcknowledged, SendRetried, SendError
<1>2. PICK x \in Events : x = EventOf(p)
  BY <1>1, InEvents DEF IInv
<1>3. \/ topic' = topic
      \/ topic' = Append(topic, Envelope(x))
      \/ topic' = topic \o <<Envelope(x), Envelope(x)>>
  BY <1>2 DEF Send, SendAcknowledged, SendRetried, SendError
<1>4. topic' = topic \/ Grows(1, x) \/ Grows(2, x)
  BY <1>3, Appending DEF IInv
<1> QED BY <1>1, <1>4, NothingRuns, GrowthKeepsRuns

-----------------------------------------------------------------------------
(* One consumer moves. *)
LEMMA OthersHold ==
  ASSUME NEW c \in Consumers, IInv, NEW r, cons' = [cons EXCEPT ![c] = r], UNCHANGED topic
  PROVE  /\ cons'[c] = r
         /\ \A d \in Consumers \ {c} : cons'[d] = cons[d] /\ Message(d)' = Message(d)
         /\ \A e : Envelopes(e)' = Envelopes(e)
BY DEF Message, Envelopes, IInv, ReceiverOK

(* It leaves its message; if it was the owner, at work, this is a cut. *)
LEMMA StopKeepsRun ==
  ASSUME IInv, IInv', NEW e \in Events, NEW w \in 1 .. Writes, RunsOK(e, w),
         NEW c \in Consumers, NEW n, cons' = [cons EXCEPT ![c] = Waiting(n)],
         UNCHANGED <<topic, owner, effects>>, inbox \subseteq inbox', cuts' = cuts \/ cuts' = cuts + 1,
         c = owner /\ Credit(e, w) = 1 => cuts' = cuts + 1
  PROVE  RunsOK(e, w)'
<1>1. /\ cons'[c].pc = "idle" /\ owner \in Consumers
      /\ \A d \in Consumers \ {c} : cons'[d] = cons[d] /\ Message(d)' = Message(d)
      /\ Envelopes(e)' = Envelopes(e)
  BY OthersHold DEF Waiting, IInv, ReceiverOK
<1>2. Overtaken(e, w)' \subseteq Overtaken(e, w)
  BY <1>1 DEF Overtaken
<1>3. Charged(e) \subseteq Charged(e)' /\ (c # owner => Credit(e, w)' = Credit(e, w))
  <2>1. CASE c = owner
    <3>1. InHand' = {}
      BY <1>1, <2>1 DEF InHand
    <3> QED BY <1>1, <2>1, <3>1 DEF Charged
  <2>2. CASE c # owner
    <3>1. InHand' = InHand /\ Credit(e, w)' = Credit(e, w)
      BY <1>1, <2>2 DEF InHand, Credit
    <3> QED BY <1>1, <3>1 DEF Charged
  <2> QED BY <2>1, <2>2
<1>4. /\ Credit(e, w)' \in {0, 1} /\ Credit(e, w) \in {0, 1}
      /\ effects[e][w] \in Nat /\ cuts \in Nat /\ effects'[e][w] = effects[e][w]
  BY RunCounts, RunCountsNext DEF Countable
<1>5. effects'[e][w] + Credit(e, w) + cuts <= effects[e][w] + Credit(e, w)' + cuts'
  BY <1>3, <1>4
<1> QED BY <1>2, <1>3, <1>5, RunKept

(* It takes its next message, or goes on from the lookup to the handler. *)
LEMMA AdvanceKeepsRun ==
  ASSUME IInv, IInv', NEW e \in Events, NEW w \in 1 .. Writes, RunsOK(e, w),
         NEW c \in Consumers, NEW pc \in {"lookup", "handle"}, cons' = [cons EXCEPT ![c].pc = pc],
         cons[c].done = 0, c = owner \/ cons[c].pc # "idle",
         pc = "handle" => Message(c).id \notin inbox,
         UNCHANGED <<topic, owner, inbox, effects, cuts>>
  PROVE  RunsOK(e, w)'
<1>1. /\ cons'[c].pc = pc /\ cons'[c].pos = cons[c].pos /\ cons'[c].done = 0 /\ owner \in Consumers
      /\ \A d \in Consumers \ {c} : cons'[d] = cons[d]
  BY Consuming DEF IInv, ReceiverOK, Positions
<1>2. /\ \A d \in Consumers : Message(d)' = Message(d)
      /\ Envelopes(e)' = Envelopes(e)
  BY <1>1 DEF Message, Envelopes
<1>3. Overtaken(e, w)' \subseteq Overtaken(e, w)
  BY <1>1, <1>2 DEF Overtaken
<1>4. Charged(e) \subseteq Charged(e)'
  BY <1>1, <1>2 DEF Charged, InHand
<1>5. Credit(e, w)' = Credit(e, w)
  BY <1>1, <1>2 DEF Credit
<1> QED BY <1>3, <1>4, <1>5, RunCounts, RunKept DEF Countable

(* The sum of an overtaken run's write and of the runs still to come stays *)
(* the same; the owner's write is on credit.                               *)
LEMMA WriteKeepsRun ==
  ASSUME IInv, IInv', NEW e \in Events, NEW w \in 1 .. Writes, RunsOK(e, w),
         NEW c \in Consumers, HandlerWrite(c)
  PROVE  RunsOK(e, w)'
<1>1. /\ cons[c].pc = "handle" /\ cons' = [cons EXCEPT ![c].done = @ + 1]
      /\ effects' = [effects EXCEPT ![Message(c).event][cons[c].done + 1] = @ + 1]
      /\ UNCHANGED <<topic, owner, inbox, cuts>>
  BY DEF HandlerWrite
<1>2. cons[c] \in Positions /\ cons[c].done \in Nat /\ Message(c).event \in Events /\ owner \in Consumers
      /\ effects \in [Events -> [1 .. Writes -> Nat]]
  BY <1>1, Consuming DEF IInv, ReceiverOK
<1>3. /\ cons'[c].pc = "handle" /\ cons'[c].pos = cons[c].pos /\ cons'[c].done = cons[c].done + 1
      /\ \A d \in Consumers \ {c} : cons'[d] = cons[d]
  BY <1>1, <1>2 DEF IInv, ReceiverOK, Positions
<1>4. /\ \A d \in Consumers : Message(d)' = Message(d)
      /\ Envelopes(e)' = Envelopes(e)
  BY <1>1, <1>3 DEF Message, Envelopes
<1>5. Charged(e)' = Charged(e)
  BY <1>1, <1>2, <1>3, <1>4 DEF Charged, InHand
<1>6. /\ e = Message(c).event /\ w = cons[c].done + 1 => effects'[e][w] = effects[e][w] + 1
      /\ ~(e = Message(c).event /\ w = cons[c].done + 1) => effects'[e][w] = effects[e][w]
  <2>1. PICK m \in Events, k \in Nat : m = Message(c).event /\ k = cons[c].done + 1
    BY <1>2
  <2>2. effects' = [effects EXCEPT ![m][k] = @ + 1]
    BY <1>1, <2>1
  <2>3. effects' = [effects EXCEPT ![m] = [effects[m] EXCEPT ![k] = @ + 1]]
    BY <2>2
  <2>4. effects[e] \in [1 .. Writes -> Nat]
    BY <1>2
  <2>5. CASE e = m
    <3>1. effects'[e] = [effects[e] EXCEPT ![k] = @ + 1]
      BY <1>2, <2>3, <2>5
    <3> QED BY <2>1, <2>4, <2>5, <3>1
  <2>6. CASE e # m
    <3>1. effects'[e] = effects[e]
      BY <1>2, <2>3, <2>6
    <3> QED BY <2>1, <2>6, <3>1
  <2> QED BY <2>5, <2>6
<1>7. CASE c = owner \/ e # Message(c).event \/ w # cons[c].done + 1
  <2>1. Overtaken(e, w)' \subseteq Overtaken(e, w)
    BY <1>1, <1>2, <1>3, <1>4, <1>7 DEF Overtaken
  <2>2. effects'[e][w] + Credit(e, w) <= effects[e][w] + Credit(e, w)'
    <3>1. CASE c = owner
      BY <1>1, <1>2, <1>3, <1>4, <1>6, <3>1, RunCounts DEF Credit, Countable
    <3>2. CASE c # owner
      BY <1>1, <1>2, <1>3, <1>4, <1>6, <1>7, <3>2, RunCounts DEF Credit, Countable
    <3> QED BY <3>1, <3>2
  <2>3. effects'[e][w] + Credit(e, w) + cuts <= effects[e][w] + Credit(e, w)' + cuts'
    <3>1. effects'[e][w] \in Nat /\ Credit(e, w)' \in {0, 1}
      BY RunCountsNext DEF Countable
    <3> QED BY <1>1, <2>2, <3>1, RunCounts DEF Countable
  <2> QED BY <1>5, <2>1, <2>3, RunKept
<1>8. CASE c # owner /\ e = Message(c).event /\ w = cons[c].done + 1
  <2>1. Overtaken(e, w)' = Overtaken(e, w) \ {c} /\ c \in Overtaken(e, w)
    BY <1>1, <1>2, <1>3, <1>4, <1>8 DEF Overtaken
  <2>2. /\ IsFiniteSet(Overtaken(e, w)') /\ Cardinality(Overtaken(e, w)') = Cardinality(Overtaken(e, w)) - 1
        /\ Cardinality(Overtaken(e, w)) \in Nat
    BY <2>1, FS_RemoveElement, FS_CardinalityType DEF RunsOK
  <2>3. Credit(e, w)' = Credit(e, w)
    BY <1>1, <1>2, <1>3, <1>4, <1>8 DEF Credit
  <2>4. effects'[e][w] = effects[e][w] + 1 /\ cuts' = cuts
    BY <1>1, <1>6, <1>8
  <2>5. effects[e][w] + Cardinality(Overtaken(e, w)) <= Cardinality(Charged(e)) + cuts + Credit(e, w)
    BY DEF RunsOK
  <2>6. effects'[e][w] + Cardinality(Overtaken(e, w)') <= Cardinality(Charged(e)') + cuts' + Credit(e, w)'
    BY <1>5, <2>2, <2>3, <2>4, <2>5, RunCounts DEF Countable
  <2> QED BY <2>2, <2>6 DEF RunsOK
<1> QED BY <1>7, <1>8

(* The owner's entry pays for its run; an entry of the same message made   *)
(* by somebody else is not counted before.                                 *)
LEMMA RecordKeepsRun ==
  ASSUME IInv, IInv', NEW e \in Events, NEW w \in 1 .. Writes, RunsOK(e, w),
         NEW c \in Consumers, RecordInbox(c)
  PROVE  RunsOK(e, w)'
<1>1. /\ cons[c].pc = "handle" /\ cons[c].done = Writes
      /\ inbox' = inbox \cup {Message(c).id}
      /\ UNCHANGED <<topic, owner, effects, cuts>>
  BY DEF RecordInbox, HandlersSucceeded
<1>2. PICK n : cons' = [cons EXCEPT ![c] = Waiting(n)]
  BY DEF RecordInbox, Threw, Again, Done
<1>3. CASE c # owner \/ Credit(e, w) = 0
  <2>1. /\ inbox \subseteq inbox' /\ UNCHANGED <<topic, owner, effects>>
        /\ cuts' = cuts \/ cuts' = cuts + 1
        /\ c = owner /\ Credit(e, w) = 1 => cuts' = cuts + 1
    BY <1>1, <1>3
  <2> QED BY ONLY <1>2, <2>1, IInv, IInv', RunsOK(e, w), StopKeepsRun
<1>4. CASE c = owner /\ Credit(e, w) # 0
  <2>1. /\ cons'[c].pc = "idle" /\ owner \in Consumers
        /\ \A d \in Consumers \ {c} : cons'[d] = cons[d] /\ Message(d)' = Message(d)
        /\ Envelopes(e)' = Envelopes(e)
    BY <1>1, <1>2, OthersHold DEF Waiting, IInv, ReceiverOK
  <2>2. Overtaken(e, w)' \subseteq Overtaken(e, w)
    BY <1>1, <2>1 DEF Overtaken
  <2>3. Message(c).event = e /\ Credit(e, w) = 1 /\ Credit(e, w)' = 0
    BY <1>1, <1>4, <2>1 DEF Credit
  <2>4. PICK id : id = Message(c).id
    OBVIOUS
  <2>5. id \in Envelopes(e)
    <3>1. cons[c].pos + 1 \in 1 .. Len(topic) /\ Message(c) = topic[cons[c].pos + 1] /\ Len(topic) \in Nat
      BY <1>1, Consuming DEF IInv
    <3>2. DOMAIN topic = 1 .. Len(topic)
      BY DEF IInv, LogOK
    <3> QED BY <2>3, <2>4, <3>1, <3>2 DEF Envelopes
  <2>6. Charged(e)' = Charged(e) \cup {id} /\ id \notin Charged(e)
    <3>1. InHand' = {} /\ InHand = {id}
      BY <1>1, <1>4, <2>1, <2>4 DEF InHand
    <3> QED BY <1>1, <2>1, <2>4, <2>5, <3>1 DEF Charged
  <2>7. Cardinality(Charged(e)') = Cardinality(Charged(e)) + 1
    BY <2>6, RunCounts, FS_AddElement DEF Countable
  <2>8. /\ IsFiniteSet(Overtaken(e, w)') /\ Cardinality(Overtaken(e, w)') <= Cardinality(Overtaken(e, w))
        /\ IsFiniteSet(Overtaken(e, w))
    BY <2>2, FS_Subset DEF RunsOK
  <2>9. Cardinality(Overtaken(e, w)') \in Nat /\ Cardinality(Overtaken(e, w)) \in Nat
    BY <2>8, FS_CardinalityType
  <2>10. effects[e][w] + Cardinality(Overtaken(e, w)) <= Cardinality(Charged(e)) + cuts + Credit(e, w)
    BY DEF RunsOK
  <2>11. effects'[e][w] + Cardinality(Overtaken(e, w)') <= Cardinality(Charged(e)') + cuts' + Credit(e, w)'
    BY <1>1, <2>3, <2>7, <2>8, <2>9, <2>10, RunCounts DEF Countable
  <2> QED BY <2>8, <2>11 DEF RunsOK
<1> QED BY <1>3, <1>4

(* The old owner's run, if it has one, is a cut, and becomes a run that    *)
(* may still do what it has not done.                                      *)
LEMMA RebalanceKeepsRun ==
  ASSUME IInv, IInv', NEW e \in Events, NEW w \in 1 .. Writes, RunsOK(e, w),
         NEW c \in Consumers, Rebalance(c)
  PROVE  RunsOK(e, w)'
<1>1. /\ c # owner /\ cons[c].pc = "idle" /\ owner' = c
      /\ cons' = [cons EXCEPT ![c] = Waiting(offset)]
      /\ UNCHANGED <<topic, inbox, effects>>
      /\ cons[owner].pc = "idle" => cuts' = cuts
      /\ cons[owner].pc # "idle" => cuts' = cuts + 1
  BY DEF Rebalance, Interrupted
<1>2. /\ cons'[c].pc = "idle" /\ owner \in Consumers
      /\ \A d \in Consumers \ {c} : cons'[d] = cons[d] /\ Message(d)' = Message(d)
      /\ Envelopes(e)' = Envelopes(e)
  BY <1>1, OthersHold DEF Waiting, IInv, ReceiverOK
<1>3. InHand' = {} /\ Credit(e, w)' = 0
  BY <1>1, <1>2 DEF InHand, Credit
<1>4. Charged(e) \subseteq Charged(e)'
  BY <1>1, <1>2, <1>3 DEF Charged
<1>5. Credit(e, w) \in {0, 1} /\ effects[e][w] \in Nat /\ cuts \in Nat /\ Cardinality(Charged(e)) \in Nat
  BY RunCounts DEF Countable
<1>6. CASE cons[owner].pc = "idle" \/ Credit(e, w) = 1 \/ Message(owner).event # e
  <2>1. Overtaken(e, w)' \subseteq Overtaken(e, w)
    <3>1. cons[owner].pc = "idle" \/ Message(owner).event # e \/ ~(cons[owner].done < w)
      <4>1. cons[owner].done \in Nat
        BY <1>2, Consuming DEF IInv
      <4> QED BY <1>6, <4>1 DEF Credit
    <3> QED BY <1>1, <1>2, <3>1 DEF Overtaken
  <2>2. effects'[e][w] + Credit(e, w) + cuts <= effects[e][w] + Credit(e, w)' + cuts'
    BY <1>1, <1>3, <1>5, <1>6 DEF Credit
  <2> QED BY <1>4, <2>1, <2>2, RunKept
<1>7. CASE cons[owner].pc # "idle" /\ Credit(e, w) = 0
  <2>1. Overtaken(e, w)' \subseteq Overtaken(e, w) \cup {owner}
    BY <1>1, <1>2 DEF Overtaken
  <2>2. /\ IsFiniteSet(Overtaken(e, w)') /\ Cardinality(Overtaken(e, w)') \in Nat
        /\ Cardinality(Overtaken(e, w)') <= Cardinality(Overtaken(e, w)) + 1
    BY <2>1, AtMostOneMore DEF RunsOK
  <2>3. Cardinality(Charged(e)) <= Cardinality(Charged(e)') /\ Cardinality(Charged(e)') \in Nat
    BY <1>4, RunCountsNext, FS_Subset DEF Countable
  <2>4. /\ Cardinality(Overtaken(e, w)) \in Nat
        /\ effects[e][w] + Cardinality(Overtaken(e, w)) <= Cardinality(Charged(e)) + cuts + Credit(e, w)
    BY FS_CardinalityType DEF RunsOK
  <2>5. effects'[e][w] + Cardinality(Overtaken(e, w)') <= Cardinality(Charged(e)') + cuts' + Credit(e, w)'
    BY <1>1, <1>3, <1>5, <1>7, <2>2, <2>3, <2>4
  <2> QED BY <2>2, <2>5 DEF RunsOK
<1> QED BY <1>5, <1>6, <1>7

LEMMA ConsumerKeepsRun ==
  ASSUME IInv, IInv', NEW e \in Events, NEW w \in 1 .. Writes, RunsOK(e, w), NEW c \in Consumers,
         Deliver(c) \/ Handle(c) \/ CommitOffset(c) \/ ConsumerCrash(c) \/ Rebalance(c)
  PROVE  RunsOK(e, w)'
<1>1. /\ cons[c].pc # "handle" => cons[c].done = 0
      /\ Credit(e, w) = 1 /\ c = owner => cons[c].pc = "handle"
  BY Consuming DEF IInv, ConsumerOK, Credit
<1>2. CASE Deliver(c)
  BY <1>1, <1>2, AdvanceKeepsRun DEF Deliver, pubVars
<1>3. CASE InboxLookup(c)
  <2>1. cons[c].pc = "lookup" /\ UNCHANGED <<topic, owner, inbox, effects, cuts>>
    BY <1>3 DEF InboxLookup
  <2>2. CASE AlreadyProcessed(c)
    <3>1. cons' = [cons EXCEPT ![c] = Waiting(cons[c].pos + 1)]
      BY <1>3, <2>2 DEF InboxLookup, Done
    <3> QED BY <1>1, <2>1, <3>1, StopKeepsRun
  <2>3. CASE ~AlreadyProcessed(c)
    <3>1. cons' = [cons EXCEPT ![c].pc = "handle"] /\ Message(c).id \notin inbox
      BY <1>3, <2>3 DEF InboxLookup, AlreadyProcessed
    <3> QED BY <1>1, <2>1, <3>1, AdvanceKeepsRun
  <2> QED BY <2>2, <2>3
<1>4. CASE LookupError(c)
  <2>1. /\ cons[c].pc = "lookup" /\ UNCHANGED <<topic, owner, inbox, effects, cuts>>
        /\ cons' = [cons EXCEPT ![c] = Waiting(cons[c].pos)]
    BY <1>4 DEF LookupError, Again
  <2> QED BY <1>1, <2>1, StopKeepsRun
<1>5. CASE HandlerWrite(c)
  BY <1>5, WriteKeepsRun
<1>6. CASE HandlerError(c)
  <2>1. PICK n : cons' = [cons EXCEPT ![c] = Waiting(n)]
    BY <1>6 DEF HandlerError, Threw, Again, Done
  <2> QED BY <1>6, <2>1, StopKeepsRun DEF HandlerError
<1>7. CASE RecordInbox(c)
  BY <1>7, RecordKeepsRun
<1>8. CASE CommitOffset(c)
  <2>1. UNCHANGED <<topic, owner, cons, inbox, effects, cuts>>
    BY <1>8 DEF CommitOffset
  <2>2. Message(owner)' = Message(owner) /\ \A d : Message(d)' = Message(d)
    BY <2>1 DEF Message
  <2>3. Overtaken(e, w)' = Overtaken(e, w) /\ Charged(e)' = Charged(e) /\ Credit(e, w)' = Credit(e, w)
    BY <2>1, <2>2 DEF Overtaken, Charged, InHand, Envelopes, Credit
  <2> QED BY <2>1, <2>3 DEF RunsOK
<1>9. CASE ConsumerCrash(c)
  <2>1. /\ cons' = [cons EXCEPT ![c] = Waiting(offset)] /\ UNCHANGED <<topic, owner, inbox, effects>>
        /\ cuts' = cuts \/ cuts' = cuts + 1
        /\ cons[c].pc # "idle" => cuts' = cuts + 1
    BY <1>9 DEF ConsumerCrash, Interrupted
  <2>2. c = owner /\ Credit(e, w) = 1 => cuts' = cuts + 1
    BY <1>1, <2>1
  <2> QED BY <2>1, <2>2, StopKeepsRun
<1>10. CASE Rebalance(c)
  BY <1>10, RebalanceKeepsRun
<1> QED BY <1>2, <1>3, <1>4, <1>5, <1>6, <1>7, <1>8, <1>9, <1>10 DEF Handle

LEMMA RunsHold ==
  ASSUME IInv, IInv', AllRunsOK, [Next]_vars
  PROVE  AllRunsOK'
<1>1. CASE UNCHANGED vars
  BY <1>1, NothingRuns DEF vars, consVars
<1>2. ASSUME NEW p \in Publishers, Send(p) PROVE AllRunsOK'
  BY <1>2, SendKeepsRuns
<1>3. ASSUME NEW p \in Publishers, Poll(p) \/ MarkPublished(p) \/ PublisherCrash(p) PROVE AllRunsOK'
  BY <1>3, NothingRuns DEF Poll, MarkPublished, PublisherCrash
<1>4. ASSUME NEW e \in Events, WriteEvent(e) PROVE AllRunsOK'
  BY <1>4, NothingRuns DEF WriteEvent
<1>5. ASSUME NEW c \in Consumers,
             Deliver(c) \/ Handle(c) \/ CommitOffset(c) \/ ConsumerCrash(c) \/ Rebalance(c)
      PROVE  AllRunsOK'
  BY <1>5, ConsumerKeepsRun DEF AllRunsOK
<1> QED BY <1>1, <1>2, <1>3, <1>4, <1>5 DEF Next

LEMMA InitRuns == Init => AllRunsOK
<1> SUFFICES ASSUME Init, NEW e \in Events, NEW w \in 1 .. Writes PROVE RunsOK(e, w)
  BY DEF AllRunsOK
<1>1. Overtaken(e, w) = {}
  BY DEF Init, Waiting, Overtaken
<1>2. IsFiniteSet({}) /\ Cardinality({}) = 0
  BY FS_EmptySet
<1>3. effects[e][w] = 0
  BY DEF Init
<1> QED BY <1>1, <1>2, <1>3, InitHolds, RunCounts DEF RunsOK, Countable

(* A handler's write is repeated only by a second message of the same row  *)
(* or because a run of the handler was cut short or overtaken: the inbox   *)
(* suppresses every other repetition, for any number of pods, messages and *)
(* faults (handleMessage).                                                 *)
THEOREM RepetitionsAccountedFor == Spec => []RepeatsAreAccountedFor
<1>1. IInv /\ IInv' /\ AllRunsOK /\ [Next]_vars => AllRunsOK'
  BY RunsHold
<1>2. IInv /\ AllRunsOK => RepeatsAreAccountedFor
  <2> SUFFICES ASSUME IInv, AllRunsOK, NEW e \in Events, NEW w \in 1 .. Writes
               PROVE  effects[e][w] <= Cardinality(Envelopes(e)) + cuts
    BY DEF RepeatsAreAccountedFor
  <2>1. RunsOK(e, w)
    BY DEF AllRunsOK
  <2>2. Cardinality(Overtaken(e, w)) \in Nat
    BY <2>1, FS_CardinalityType DEF RunsOK
  <2>3. effects[e][w] <= Cardinality(Charged(e)) + cuts + Credit(e, w)
    BY <2>1, <2>2, RunCounts DEF RunsOK, Countable
  <2>4. CASE Credit(e, w) = 0
    <3>1. Charged(e) \subseteq Envelopes(e)
      BY DEF Charged
    <3>2. Cardinality(Charged(e)) <= Cardinality(Envelopes(e))
      BY <3>1, RunCounts, FS_Subset DEF Countable
    <3> QED BY <2>3, <2>4, <3>2, RunCounts DEF Countable
  <2>5. CASE Credit(e, w) = 1
    <3>1. cons[owner].pc = "handle" /\ Message(owner).event = e /\ owner \in Consumers
      BY <2>5 DEF Credit, IInv, ReceiverOK
    <3>2. PICK id : id = Message(owner).id
      OBVIOUS
    <3>3. id \in Envelopes(e)
      <4>1. /\ cons[owner].pos + 1 \in 1 .. Len(topic) /\ Message(owner) = topic[cons[owner].pos + 1]
        BY <3>1, Consuming DEF IInv
      <4>2. DOMAIN topic = 1 .. Len(topic)
        BY DEF IInv, LogOK
      <4> QED BY <3>1, <3>2, <4>1, <4>2 DEF Envelopes
    <3>4. Charged(e) \subseteq Envelopes(e) \ {id}
      BY <3>1, <3>2 DEF Charged, InHand
    <3>5. IsFiniteSet(Envelopes(e) \ {id}) /\ Cardinality(Envelopes(e) \ {id}) = Cardinality(Envelopes(e)) - 1
      BY <3>3, RunCounts, FS_RemoveElement DEF Countable
    <3>6. Cardinality(Charged(e)) <= Cardinality(Envelopes(e) \ {id})
      BY <3>4, <3>5, FS_Subset
    <3> QED BY <2>3, <2>5, <3>5, <3>6, RunCounts DEF Countable
  <2> QED BY <2>4, <2>5, RunCounts DEF Countable
<1> QED BY <1>1, <1>2, InitRuns, Invariance, PTL DEF Spec

-----------------------------------------------------------------------------
(* The channel.  What is in the log was committed, so an event that takes  *)
(* effect was.                                                             *)

SentWasWritten == SentEvents \subseteq outbox

LEMMA SentStaysWritten ==
  ASSUME IInv, IInv', SentWasWritten, [Next]_vars
  PROVE  SentWasWritten'
<1>1. CASE UNCHANGED vars
  BY <1>1 DEF vars, SentWasWritten, SentEvents
<1>2. ASSUME NEW p \in Publishers, Send(p) PROVE SentWasWritten'
  <2>1. Sending(p) /\ UNCHANGED outbox
    BY <1>2 DEF Send, SendAcknowledged, SendRetried, SendError
  <2>2. PICK x \in Events : x = EventOf(p)
    BY <2>1, InEvents DEF IInv
  <2>3. \/ topic' = topic
        \/ topic' = Append(topic, Envelope(x))
        \/ topic' = topic \o <<Envelope(x), Envelope(x)>>
    BY <1>2, <2>2 DEF Send, SendAcknowledged, SendRetried, SendError
  <2>4. topic' = topic \/ Grows(1, x) \/ Grows(2, x)
    BY <2>3, Appending DEF IInv
  <2>5. SentEvents' = SentEvents \/ SentEvents' = SentEvents \cup {x}
    BY <2>4, GrowthKeepsLog DEF IInv, SentEvents
  <2>6. x \in outbox
    BY <2>1, <2>2, InEvents DEF IInv, PublisherOK
  <2> QED BY <2>1, <2>5, <2>6 DEF SentWasWritten
<1>3. ASSUME UNCHANGED topic, outbox \subseteq outbox' PROVE SentWasWritten'
  BY <1>3 DEF SentWasWritten, SentEvents
<1>4. ASSUME NEW e \in Events, WriteEvent(e) PROVE SentWasWritten'
  BY <1>3, <1>4 DEF WriteEvent
<1>5. ASSUME NEW p \in Publishers, Poll(p) \/ MarkPublished(p) \/ PublisherCrash(p) PROVE SentWasWritten'
  BY <1>3, <1>5 DEF Poll, MarkPublished, PublisherCrash
<1>6. ASSUME NEW c \in Consumers,
             Deliver(c) \/ Handle(c) \/ CommitOffset(c) \/ ConsumerCrash(c) \/ Rebalance(c)
      PROVE  SentWasWritten'
  <2>1. UNCHANGED <<topic, outbox>>
    BY <1>6 DEF Deliver, Handle, InboxLookup, LookupError, HandlerWrite, HandlerError,
                RecordInbox, CommitOffset, ConsumerCrash, Rebalance, pubVars
  <2> QED BY <1>3, <2>1
<1> QED BY <1>1, <1>2, <1>4, <1>5, <1>6 DEF Next

Effective == {e \in Events : TookEffect(e)}

(* Only the last of a handler's writes, of the event it handles, is a step *)
(* of the channel.                                                         *)
LEMMA WriteTakesEffect ==
  ASSUME IInv, SentWasWritten, NEW c \in Consumers, HandlerWrite(c)
  PROVE  UNCHANGED <<outbox, Effective>> \/ \E e \in Events : Channel!TakeEffect(e)
<1>1. /\ cons[c].pc = "handle" /\ ~HandlersSucceeded(c) /\ UNCHANGED outbox
      /\ effects' = [effects EXCEPT ![Message(c).event][cons[c].done + 1] = @ + 1]
  BY DEF HandlerWrite, pubVars
<1>2. /\ cons[c].done + 1 \in 1 .. Writes /\ Message(c).event \in Events
      /\ cons[c].pos + 1 \in 1 .. Len(topic) /\ Message(c) = topic[cons[c].pos + 1]
      /\ DOMAIN topic = 1 .. Len(topic)
  BY <1>1, Consuming, Numbers DEF IInv, LogOK, ConsumerOK, HandlersSucceeded
<1>3. PICK m \in Events, k \in 1 .. Writes : m = Message(c).event /\ k = cons[c].done + 1
  BY <1>2
<1>4. m \in outbox
  BY <1>2, <1>3 DEF SentWasWritten, SentEvents
<1>5. effects \in [Events -> [1 .. Writes -> Nat]] /\ effects' = [effects EXCEPT ![m][k] = @ + 1]
  BY <1>1, <1>3 DEF IInv, ReceiverOK
<1>6. \A e \in Events \ {m} : effects'[e] = effects[e]
  BY <1>5
<1>7. \A w \in 1 .. Writes : effects[m][w] > 0 => effects'[m][w] > 0
  BY ONLY <1>5, OneMoreEffect
<1>8. Effective \ {m} = Effective' \ {m} /\ (m \in Effective => m \in Effective')
  BY <1>6, <1>7 DEF Effective, TookEffect
<1>9. CASE m \in Effective' /\ m \notin Effective
  <2>1. Effective' = Effective \cup {m}
    BY <1>8, <1>9
  <2> QED BY <1>1, <1>4, <1>9, <2>1 DEF Channel!TakeEffect, Effective
<1>10. CASE m \in Effective \/ m \notin Effective'
  BY <1>1, <1>8, <1>10
<1> QED BY <1>9, <1>10

LEMMA StepIsChannelStep ==
  ASSUME IInv, SentWasWritten, [Next]_vars
  PROVE  [Channel!Next]_<<outbox, Effective>>
<1>1. ASSUME UNCHANGED <<outbox, effects>> PROVE UNCHANGED <<outbox, Effective>>
  BY <1>1 DEF Effective, TookEffect
<1>2. ASSUME NEW e \in Events, WriteEvent(e) PROVE Channel!Write(e)
  <2>1. e \notin outbox /\ outbox' = outbox \cup {e} /\ UNCHANGED effects
    BY <1>2 DEF WriteEvent, consVars
  <2>2. {x \in Events : TookEffect(x)}' = {x \in Events : TookEffect(x)}
    BY <2>1 DEF TookEffect
  <2> QED BY <2>1, <2>2 DEF Channel!Write
<1>3. ASSUME NEW c \in Consumers, HandlerWrite(c)
      PROVE  UNCHANGED <<outbox, Effective>> \/ \E e \in Events : Channel!TakeEffect(e)
  BY <1>3, WriteTakesEffect
<1>4. ASSUME NEW p \in Publishers, Poll(p) \/ Send(p) \/ MarkPublished(p) \/ PublisherCrash(p)
      PROVE  UNCHANGED <<outbox, Effective>>
  BY <1>1, <1>4 DEF Poll, Send, SendAcknowledged, SendRetried, SendError, MarkPublished,
                    PublisherCrash, consVars
<1>5. ASSUME NEW c \in Consumers,
             \/ Deliver(c) \/ InboxLookup(c) \/ LookupError(c) \/ HandlerError(c) \/ RecordInbox(c)
             \/ CommitOffset(c) \/ ConsumerCrash(c) \/ Rebalance(c)
      PROVE  UNCHANGED <<outbox, Effective>>
  BY <1>1, <1>5 DEF Deliver, InboxLookup, LookupError, HandlerError, RecordInbox, CommitOffset,
                    ConsumerCrash, Rebalance, pubVars
<1>6. CASE UNCHANGED vars
  BY <1>1, <1>6 DEF vars
<1> QED BY <1>2, <1>3, <1>4, <1>5, <1>6 DEF Next, Handle, Channel!Next

(* Outbox, log and inbox together do only what an at-least-once channel    *)
(* may do: an event takes effect once it was committed, one at a time, and *)
(* never loses its effect, whichever errors are swallowed (the outbox      *)
(* publishers and Kafka consumers of both applications).                   *)
THEOREM ImplementsChannel == Spec => Channel!Safety
<1>1. Init => Channel!Init /\ SentWasWritten
  <2> SUFFICES ASSUME Init PROVE Channel!Init /\ SentWasWritten
    OBVIOUS
  <2>1. 1 \in 1 .. Writes
    BY Numbers
  <2>2. \A e \in Events : ~TookEffect(e)
    BY <2>1 DEF Init, TookEffect
  <2>3. DOMAIN topic = {}
    BY DEF Init
  <2> QED BY <2>2, <2>3 DEF Init, Channel!Init, SentWasWritten, SentEvents
<1>2. IInv /\ IInv' /\ SentWasWritten /\ [Next]_vars => SentWasWritten'
  BY SentStaysWritten
<1>3. IInv /\ SentWasWritten /\ [Next]_vars => [Channel!Next]_Channel!vars
  BY StepIsChannelStep DEF Channel!vars, Effective
<1> QED BY <1>1, <1>2, <1>3, Invariance, PTL DEF Spec, Channel!Safety
=============================================================================
