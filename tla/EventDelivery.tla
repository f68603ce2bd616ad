---------------------------- MODULE EventDelivery ----------------------------
(***************************************************************************)
(* Delivery of the domain events of one tenant from the outbox table       *)
(* through a Kafka partition to a consumer's handler: the outbox publisher *)
(* and Kafka producer of the sending application, the Kafka consumer and   *)
(* inbox of the receiving one.  Every application has its own copy of each *)
(* class; they differ in what they do with an error, which the constants   *)
(* ProducerRethrows and ConsumerRethrows select:                           *)
(*   shield-core   TRUE,  TRUE                                             *)
(*   shield-action FALSE, FALSE                                            *)
(***************************************************************************)
EXTENDS Naturals, Sequences, SequencesExt

CONSTANTS
    MaxEvents,         \* outbox rows, numbered by created_at
    Refused,           \* rows the broker always refuses (too large)
    Publishers,        \* pods of the sending application
    Consumers,         \* pods of the receiving application
    BatchSize,         \* take: 100
    Writes,            \* writes a handler commits one after the other
    ProducerRethrows,  \* publishEvent passes a send error on
    ConsumerRethrows,  \* handleMessage passes a handler error on
    MaxFaults          \* bound on send errors, handler errors, crashes
                       \* and session timeouts

Events == 1 .. MaxEvents

ASSUME DeliveryAssumption ==
    /\ {MaxEvents, MaxFaults} \subseteq Nat
    /\ {BatchSize, Writes} \subseteq Nat \ {0}
    /\ {ProducerRethrows, ConsumerRethrows} \subseteq BOOLEAN
    /\ Refused \subseteq Events

VARIABLES
    outbox,     \* rows committed with the state change they announce
    published,  \* rows whose published_at is set
    pub,        \* publishPending of each pod
    topic,      \* the partition: the key is the tenant, so the order is total
    owner,      \* the consumer the partition is assigned to
    offset,     \* the group's committed offset
    cons,       \* the message each consumer is at
    inbox,      \* InboxEvent.event_id
    effects,    \* how often each write of each event's handler was done
    faults,     \* faults so far
    cuts        \* of these, the ones that cut or doubled a handler's run

vars == <<outbox, published, pub, topic, owner, offset, cons, inbox, effects,
          faults, cuts>>
pubVars == <<outbox, published, pub>>
consVars == <<owner, offset, cons, inbox, effects>>

NotRunning == [batch |-> <<>>, next |-> 1, sent |-> {}]
Waiting(position) == [pc |-> "idle", pos |-> position, done |-> 0]

Init ==
    /\ outbox = {}
    /\ published = {}
    /\ pub = [p \in Publishers |-> NotRunning]
    /\ topic = <<>>
    /\ owner \in Consumers
    /\ offset = 0
    /\ cons = [c \in Consumers |-> Waiting(0)]
    /\ inbox = {}
    /\ effects = [e \in Events |-> [w \in 1 .. Writes |-> 0]]
    /\ faults = 0
    /\ cuts = 0

Fault ==
    /\ faults < MaxFaults
    /\ faults' = faults + 1

-----------------------------------------------------------------------------
(* The sending application *)

(* A transaction commits its outbox row; created_at is taken earlier, so   *)
(* rows need not appear in its order.                                      *)
WriteEvent(e) ==
    /\ e \notin outbox
    /\ outbox' = outbox \cup {e}
    /\ UNCHANGED <<published, pub, topic, consVars, faults, cuts>>

(* findMany: the oldest unpublished rows, at most BatchSize of them *)
Oldest(n, rows) ==
    {b \in [1 .. n -> rows] :
        /\ \A i, j \in 1 .. n : i < j => b[i] < b[j]
        /\ \A i \in 1 .. n, e \in rows \ ToSet(b) : b[i] < e}

WholeBacklog(rows) == Oldest(Cardinality(rows), rows)  \* deviation: no limit

Batch(rows) ==
    Oldest(IF Cardinality(rows) <= BatchSize THEN Cardinality(rows) ELSE BatchSize,
           rows)

Poll(p) ==
    /\ pub[p] = NotRunning
    /\ outbox \ published # {}
    /\ \E b \in Batch(outbox \ published) : pub' = [pub EXCEPT ![p].batch = b]
    /\ UNCHANGED <<outbox, published, topic, consVars, faults, cuts>>

Sending(p) == pub[p].next <= Len(pub[p].batch)
EventOf(p) == pub[p].batch[pub[p].next]

(* Every publishEvent draws a new eventId, also for a row sent before. *)
Envelope(e) == [event |-> e, id |-> Len(topic) + 1]

Sent(p) == [pub EXCEPT ![p].next = @ + 1, ![p].sent = @ \cup {EventOf(p)}]

(* The catch of the loop: the row is left for a later poll.  The catch in  *)
(* publishEvent, where it does not rethrow, comes first.                   *)
StopAtFailure(p) ==  \* deviation: a failure ends the loop
    [pub EXCEPT ![p].next = Len(pub[p].batch) + 1]

Skipped(p) == [pub EXCEPT ![p].next = @ + 1]

SendAcknowledged(p) ==
    /\ Sending(p)
    /\ EventOf(p) \notin Refused
    /\ topic' = Append(topic, Envelope(EventOf(p)))
    /\ pub' = Sent(p)
    /\ UNCHANGED <<outbox, published, consVars, faults, cuts>>

(* The client resends the same message when an acknowledgement is lost.    *)
SendRetried(p) ==
    /\ Sending(p)
    /\ EventOf(p) \notin Refused
    /\ Fault
    /\ topic' = topic \o <<Envelope(EventOf(p)), Envelope(EventOf(p))>>
    /\ pub' = Sent(p)
    /\ UNCHANGED <<outbox, published, consVars, cuts>>

(* The send fails for good, the message having reached the log or not.     *)
SendError(p) ==
    /\ Sending(p)
    /\ \/ EventOf(p) \in Refused /\ UNCHANGED <<topic, faults>>
       \/ EventOf(p) \notin Refused /\ Fault /\ UNCHANGED topic
       \/ /\ EventOf(p) \notin Refused /\ Fault
          /\ topic' = Append(topic, Envelope(EventOf(p)))
    /\ pub' = IF ProducerRethrows THEN Skipped(p) ELSE Sent(p)
    /\ UNCHANGED <<outbox, published, consVars, cuts>>

(* updateMany at the end of the loop *)
WholeBatch(p) == ToSet(pub[p].batch)  \* deviation: failed rows are marked too
Marked(p) == pub[p].sent

MarkPublished(p) ==
    /\ pub[p] # NotRunning /\ ~Sending(p)
    /\ published' = published \cup Marked(p)
    /\ pub' = [pub EXCEPT ![p] = NotRunning]
    /\ UNCHANGED <<outbox, topic, consVars, faults, cuts>>

(* The pod dies, or the update fails: nothing is marked. *)
PublisherCrash(p) ==
    /\ pub[p] # NotRunning
    /\ Fault
    /\ pub' = [pub EXCEPT ![p] = NotRunning]
    /\ UNCHANGED <<outbox, published, topic, consVars, cuts>>

-----------------------------------------------------------------------------
(* The receiving application *)

Message(c) == topic[cons[c].pos + 1]

(* handleMessage returned: the consumer goes on with the next message.     *)
Done(c) == [cons EXCEPT ![c] = Waiting(cons[c].pos + 1)]
(* handleMessage threw: the same message is delivered again.               *)
Again(c) == [cons EXCEPT ![c] = Waiting(cons[c].pos)]

Threw(c) == IF ConsumerRethrows THEN Again(c) ELSE Done(c)

(* eachMessage on the next message of the partition this consumer owns *)
Deliver(c) ==
    /\ owner = c
    /\ cons[c].pc = "idle" /\ cons[c].pos < Len(topic)
    /\ cons' = [cons EXCEPT ![c].pc = "lookup"]
    /\ UNCHANGED <<pubVars, topic, owner, offset, inbox, effects, faults, cuts>>

NeverProcessed(c) == FALSE  \* deviation: no inbox check
AlreadyProcessed(c) == Message(c).id \in inbox

InboxLookup(c) ==
    /\ cons[c].pc = "lookup"
    /\ cons' = IF AlreadyProcessed(c) THEN Done(c)
               ELSE [cons EXCEPT ![c].pc = "handle"]
    /\ UNCHANGED <<pubVars, topic, owner, offset, inbox, effects, faults, cuts>>

(* The lookup is outside any catch, in both copies of handleMessage. *)
LookupError(c) ==
    /\ cons[c].pc = "lookup"
    /\ Fault
    /\ cons' = Again(c)
    /\ UNCHANGED <<pubVars, topic, owner, offset, inbox, effects, cuts>>

(* The handlers, one committed write at a time *)
HandlersSucceededEarly(c) ==  \* deviation: off by one
    cons[c].done + 1 >= Writes
HandlersSucceeded(c) == cons[c].done = Writes

HandlerWrite(c) ==
    /\ cons[c].pc = "handle" /\ ~HandlersSucceeded(c)
    /\ effects' = [effects EXCEPT ![Message(c).event][cons[c].done + 1] = @ + 1]
    /\ cons' = [cons EXCEPT ![c].done = @ + 1]
    /\ UNCHANGED <<pubVars, topic, owner, offset, inbox, faults, cuts>>

(* A handler fails, or the inbox insert after the last one. *)
HandlerError(c) ==
    /\ cons[c].pc = "handle"
    /\ Fault
    /\ cuts' = cuts + 1
    /\ cons' = Threw(c)
    /\ UNCHANGED <<pubVars, topic, owner, offset, inbox, effects>>

(* The insert into the inbox; event_id is unique, a second insert fails.   *)
RecordInbox(c) ==
    /\ cons[c].pc = "handle" /\ HandlersSucceeded(c)
    /\ inbox' = inbox \cup {Message(c).id}
    /\ cons' = IF Message(c).id \in inbox THEN Threw(c) ELSE Done(c)
    /\ UNCHANGED <<pubVars, topic, owner, offset, effects, faults, cuts>>

(* The client commits what it has got through, some time later. *)
CommitOffset(c) ==
    /\ owner = c
    /\ offset < cons[c].pos
    /\ offset' = cons[c].pos
    /\ UNCHANGED <<pubVars, topic, owner, cons, inbox, effects, faults, cuts>>

Interrupted(c) == IF cons[c].pc = "idle" THEN UNCHANGED cuts ELSE cuts' = cuts + 1

(* The pod dies and a new one takes its place, from the committed offset.  *)
ConsumerCrash(c) ==
    /\ Fault
    /\ Interrupted(c)
    /\ cons' = [cons EXCEPT ![c] = Waiting(offset)]
    /\ UNCHANGED <<pubVars, topic, owner, offset, inbox, effects>>

(* The owner's session times out; it does not know, and finishes the       *)
(* message it is at beside the new owner.                                  *)
Rebalance(c) ==
    /\ c # owner
    /\ cons[c].pc = "idle"
    /\ Fault
    /\ Interrupted(owner)
    /\ owner' = c
    /\ cons' = [cons EXCEPT ![c] = Waiting(offset)]
    /\ UNCHANGED <<pubVars, topic, offset, inbox, effects>>

-----------------------------------------------------------------------------
Send(p) == SendAcknowledged(p) \/ SendRetried(p) \/ SendError(p)
Handle(c) ==
    \/ InboxLookup(c) \/ LookupError(c)
    \/ HandlerWrite(c) \/ HandlerError(c) \/ RecordInbox(c)

Next ==
    \/ \E e \in Events : WriteEvent(e)
    \/ \E p \in Publishers :
          Poll(p) \/ Send(p) \/ MarkPublished(p) \/ PublisherCrash(p)
    \/ \E c \in Consumers :
          \/ Deliver(c) \/ Handle(c) \/ CommitOffset(c)
          \/ ConsumerCrash(c) \/ Rebalance(c)

Spec == Init /\ [][Next]_vars

(* The publisher is a cron job and the consumer a loop; neither stops.     *)
Fairness ==
    /\ \A p \in Publishers : /\ WF_vars(Poll(p))
                             /\ WF_vars(Send(p))
                             /\ WF_vars(MarkPublished(p))
    /\ \A c \in Consumers : WF_vars(Deliver(c)) /\ WF_vars(Handle(c))

FairSpec == Spec /\ Fairness

-----------------------------------------------------------------------------
SentEvents == {topic[i].event : i \in DOMAIN topic}
TookEffect(e) == \A w \in 1 .. Writes : effects[e][w] > 0

(* Every variable keeps its type. *)
TypeOK ==
    /\ outbox \subseteq Events
    /\ published \subseteq outbox
    /\ \A p \in Publishers :
          /\ pub[p].batch \in Seq(Events) /\ Len(pub[p].batch) <= BatchSize
          /\ pub[p].next \in 1 .. Len(pub[p].batch) + 1
          /\ pub[p].sent \subseteq ToSet(pub[p].batch)
    /\ topic \in Seq([event: Events, id: Nat])
    /\ owner \in Consumers
    /\ offset \in 0 .. Len(topic)
    /\ cons \in [Consumers -> [pc: {"idle", "lookup", "handle"},
                               pos: 0 .. Len(topic), done: 0 .. Writes]]
    /\ inbox \subseteq {topic[i].id : i \in DOMAIN topic}
    /\ effects \in [Events -> [1 .. Writes -> Nat]]
    /\ faults \in 0 .. MaxFaults
    /\ cuts \in 0 .. faults

(* A row marked published is in the log: with several publishers, failed   *)
(* sends and crashes, no event is dropped between outbox and topic ("mark  *)
(* every successful one", publishPending).                                 *)
MarkedWasSent == published \subseteq SentEvents

(* The group never commits past a message whose handlers have not all      *)
(* succeeded, across redeliveries and takeovers ("a failed handler should  *)
(* still see this message redelivered", handleMessage).                    *)
CommittedWasHandled ==
    \A i \in 1 .. offset : TookEffect(topic[i].event) /\ topic[i].id \in inbox

(* The inbox suppresses every other repetition: an effect is doubled only  *)
(* by a second envelope of the same row or by a run of the handler that    *)
(* was cut short or overtaken.                                             *)
Envelopes(e) == {topic[i].id : i \in {j \in DOMAIN topic : topic[j].event = e}}

RepeatsAreAccountedFor ==
    \A e \in Events, w \in 1 .. Writes :
        effects[e][w] <= Cardinality(Envelopes(e)) + cuts

(* "InboxEvent dedup guarantees a duplicated action.simulated.v1 delivery  *)
(* can never double-create these rows" (ActionSimulatedConsumer).          *)
NoDoubleEffect == \A e \in Events, w \in 1 .. Writes : effects[e][w] <= 1

(* At-least-once delivery: every event written takes effect in the end,    *)
(* unless the broker refuses it.                                           *)
EveryEventTakesEffect ==
    \A e \in Events \ Refused : e \in outbox ~> TookEffect(e)

(* The three tables and the log together are an at-least-once channel.     *)
Channel == INSTANCE AtLeastOnceDelivery
    WITH Undeliverable <- Refused,
         written <- outbox,
         effective <- {e \in Events : TookEffect(e)}

ImplementsAtLeastOnce == Channel!Spec
=============================================================================
