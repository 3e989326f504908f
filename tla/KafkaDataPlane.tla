--------------------------- MODULE KafkaDataPlane ---------------------------
(***************************************************************************)
(* The data plane of KafkaMessageBroker (message_broker_collection.py):    *)
(* send and delivery_callback, receive and ack, composed with the control  *)
(* plane of KafkaMessageBroker and with the topic logs of the cluster.     *)
(*                                                                         *)
(*   log[t], start[t]   the messages appended to topic t since it was      *)
(*                      created (offset i holds log[t][i+1]) and its log   *)
(*                      start offset: retention deletes below it;          *)
(*   pending[p][id]     librdkafka's queue of producer id in process p:    *)
(*                      messages produced and not yet acknowledged;        *)
(*   events[p][id]      its events not yet served by poll() or flush(),    *)
(*                      in the order they arrived: delivery reports and    *)
(*                      the _ALL_BROKERS_DOWN error;                       *)
(*   alert[p][id]       consumer id of p has that error event unserved;    *)
(*   position[p][id]    the fetch position of consumer id of process p in  *)
(*                      each topic (NoOffset before its first fetch);      *)
(*   committed[g]       the offsets committed for consumer group g; a      *)
(*                      consumer's group is taken to be its client_id.     *)
(*                                                                         *)
(* Messages are the numbers 1..MaxMsgs, sent in increasing order, so that  *)
(* every payload is distinct.  fate, mark and returned are ghosts; outages *)
(* counts the times every broker became unreachable.                       *)
(***************************************************************************)
EXTENDS KafkaMessageBroker

CONSTANTS
    MaxMsgs,          \* number of distinct messages callers send
    MaxBatch,         \* longest messages list of one send
    MaxQueue,         \* queue.buffering.max.messages of a producer
    DeliveryOutcomes, \* what the cluster may answer to a produced message
    OffsetReset,      \* auto.offset.reset of the consumers
    AutoAck,          \* auto_ack of the consumers (enable.auto.commit)
    MaxOutages,       \* times every broker may become unreachable
    NoOffset          \* no fetch position / no committed offset

ASSUME DeliveryOutcomes \subseteq {"delivered", "failed"}
ASSUME "delivered" \in DeliveryOutcomes
ASSUME OffsetReset \in {"earliest", "latest"}
ASSUME AutoAck \in BOOLEAN

VARIABLES
    log, start, pending, events, alert, position, committed, outages,
    dloc,      \* per caller: the locals of send and receive
    fate,      \* ghost: fate[m] is "new", "sent", "delivered" or "failed"
    mark,      \* ghost: the messages retained in the topic when delete began
    returned   \* ghost: returned[g] holds the messages receive returned to
               \* a consumer of group g

logVars == <<log, start, outages>>
clientVars == <<pending, events, alert, position, committed>>
ghostVars == <<fate, mark, returned>>
dataVars == <<logVars, clientVars, dloc, ghostVars>>
dvars == <<vars, dataVars>>

Msgs == 1..MaxMsgs

NoData == [id |-> NoValue, topic |-> NoTopic, mode |-> "none",
           batch |-> <<>>, idx |-> 0]

NoPositions == [t \in Topics |-> NoOffset]

\* The messages of t that retention has not deleted.
Retained(t) == {log[t][i] : i \in start[t] + 1 .. Len(log[t])}

\* The same after the step.
RetainedNext(t) == {log'[t][i] : i \in start'[t] + 1 .. Len(log'[t])}

\* The error event librdkafka queues for every client when all brokers are
\* down; delivery reports are [msg, ok] records.
BrokersDownEvent == [msg |-> NoValue, ok |-> FALSE]

IsReport(e) == e # BrokersDownEvent

\* Messages waiting in the producer's queue, those with an unserved report
\* included.
Queued(p, id) == Len(pending[p][id]) + Len(SelectSeq(events[p][id], IsReport))

\* delivery_callback(err, _) raises for a report that carries an error, and
\* _error_cb for the _ALL_BROKERS_DOWN event.
CallbackRaises(e) == ~e.ok

\* The MessageBusError the raising callback throws.
Raised(e) == IF IsReport(e) THEN "ETIMEDOUT" ELSE "ERR_SERVICE_UNAVAILABLE"

\* End the call: ret, pc and the locals of both planes.
Finish(c, r) ==
    /\ Return(c, r)
    /\ dloc' = [dloc EXCEPT ![c] = NoData]

\* Everything but the producer queues and the send locals.
SendUnchanged ==
    UNCHANGED <<clusterVars, adapterVars, abandoned, crashes, logVars,
                alert, position, committed, ghostVars>>

-----------------------------------------------------------------------------
(***************************************************************************)
(* send(producer_id, message_type, method, messages): for each message,    *)
(* produce() with delivery_callback, then flush() when method is "sync",   *)
(* poll(timeout) otherwise.  delivery_callback raises MessageBusError      *)
(* (ETIMEDOUT) from inside poll()/flush() for a report with an error.      *)
(***************************************************************************)

Send(c) ==
    /\ pc[c] = "Idle"
    /\ \E id \in ClientIds, t \in Topics, mode \in {"sync", "async"},
          k \in 1..MaxBatch :
         LET first == Min({m \in Msgs : fate[m] = "new"} \cup {MaxMsgs + 1})
             batch == [i \in 1..k |-> first + i - 1] IN
         /\ first + k - 1 <= MaxMsgs
         /\ IF id \notin producers[P(c)]    \* KeyError on self._clients
              THEN /\ Finish(c, "raised")
                   /\ UNCHANGED fate
              ELSE /\ Goto(c, "SendProduce", loc[c])
                   /\ dloc' = [dloc EXCEPT ![c] =
                                 [NoData EXCEPT !.id = id, !.topic = t,
                                    !.mode = mode, !.batch = batch, !.idx = 1]]
                   /\ fate' = [m \in Msgs |->
                                 IF m \in Range(batch) THEN "sent" ELSE fate[m]]
    /\ UNCHANGED <<clusterVars, adapterVars, abandoned, crashes, logVars,
                   clientVars, mark, returned>>

\* After a message is handed over and its poll/flush is done: the next
\* message, or return.
NextMessage(c) ==
    IF dloc[c].idx = Len(dloc[c].batch)
      THEN Finish(c, "ok")
      ELSE /\ Goto(c, "SendProduce", loc[c])
           /\ dloc' = [dloc EXCEPT ![c].idx = @ + 1]

\* Variants of the full-queue case: a queue with no bound, and a produce()
\* retried while the queue is full without serving it.
QueueFullNever(p, id) == FALSE

\* produce() raises BufferError when librdkafka's queue holds
\* queue.buffering.max.messages messages, those whose reports are not yet
\* served included: librdkafka frees a message only then.
QueueFull(p, id) == Queued(p, id) >= MaxQueue

ProduceRetried(c) == UNCHANGED <<callerVars, dloc, pending>>

\* The BufferError leaves send: it is not a MessageBusError.
ProduceRejected(c) ==
    /\ Finish(c, "raised")
    /\ UNCHANGED pending

SendProduce(c) ==
    LET d == dloc[c]
        p == P(c) IN
    /\ pc[c] = "SendProduce"
    /\ IF QueueFull(p, d.id)
         THEN ProduceRejected(c)
         ELSE /\ pending' = [pending EXCEPT ![p][d.id] =
                               Append(@, [msg |-> d.batch[d.idx],
                                          topic |-> d.topic])]
              /\ Goto(c, IF d.mode = "sync" THEN "SendFlush" ELSE "SendPoll",
                      loc[c])
              /\ UNCHANGED dloc
    /\ UNCHANGED events
    /\ SendUnchanged

\* producer.poll(timeout): serves the events that have arrived, in order;
\* the first callback that raises makes poll() return with its exception,
\* leaving the later events queued.
SendPoll(c) ==
    LET p   == P(c)
        id  == dloc[c].id
        ev  == events[p][id]
        bad == {i \in 1..Len(ev) : CallbackRaises(ev[i])} IN
    /\ pc[c] = "SendPoll"
    /\ IF bad = {}
         THEN /\ events' = [events EXCEPT ![p][id] = <<>>]
              /\ NextMessage(c)
         ELSE /\ events' = [events EXCEPT ![p][id] =
                              SubSeq(ev, Min(bad) + 1, Len(ev))]
              /\ Finish(c, Raised(ev[Min(bad)]))
    /\ UNCHANGED pending
    /\ SendUnchanged

\* flush() returns once no message is left in librdkafka's queue.
\* Variant: flush(timeout) that gives up while messages are unanswered.
FlushDoneEarly(p, id) == TRUE

FlushDone(p, id) == pending[p][id] = <<>>

\* producer.flush(): serves the events until the queue is empty.  A callback
\* that raises makes the wrapper yield: flush() stops serving and raises,
\* leaving the later events queued.
SendFlush(c) ==
    LET p  == P(c)
        id == dloc[c].id
        ev == events[p][id] IN
    /\ pc[c] = "SendFlush"
    /\ \/ /\ ev # <<>>
          /\ events' = [events EXCEPT ![p][id] = Tail(ev)]
          /\ IF CallbackRaises(Head(ev)) THEN Finish(c, Raised(Head(ev)))
                                         ELSE UNCHANGED <<callerVars, dloc>>
       \/ /\ ev = <<>>
          /\ FlushDone(p, id)
          /\ NextMessage(c)
          /\ UNCHANGED events
    /\ UNCHANGED pending
    /\ SendUnchanged

\* The cluster answers the oldest message of a producer's queue: it is
\* appended to its topic, or its delivery fails (message.timeout.ms, or the
\* topic does not exist); either way a report is queued for the producer.
Deliver(p, id) ==
    /\ pending[p][id] # <<>>
    /\ LET m == Head(pending[p][id]) IN
       \E o \in DeliveryOutcomes :
         LET ok == o = "delivered" /\ Exists(m.topic) IN
         /\ pending' = [pending EXCEPT ![p][id] = Tail(@)]
         /\ events' = [events EXCEPT ![p][id] =
                          Append(@, [msg |-> m.msg, ok |-> ok])]
         /\ log' = IF ok THEN [log EXCEPT ![m.topic] = Append(@, m.msg)]
                         ELSE log
         /\ fate' = [fate EXCEPT ![m.msg] = IF ok THEN "delivered" ELSE "failed"]
    /\ UNCHANGED <<vars, start, outages, alert, position, committed, dloc,
                   mark, returned>>

-----------------------------------------------------------------------------
(***************************************************************************)
(* receive(consumer_id, timeout) and ack(consumer_id).  The consumers are  *)
(* subscribed to every topic of the model.  timeout 0 is "blocking": poll  *)
(* is repeated while it returns None; any other timeout polls once.        *)
(***************************************************************************)

Receive(c) ==
    /\ pc[c] = "Idle"
    /\ \E id \in ClientIds, mode \in {"blocking", "bounded"} :
         IF id \notin consumers[P(c)]      \* KeyError on self._clients
           THEN Finish(c, "raised")
           ELSE /\ Goto(c, "ReceivePoll", loc[c])
                /\ dloc' = [dloc EXCEPT ![c] =
                              [NoData EXCEPT !.id = id, !.mode = mode]]
    /\ UNCHANGED <<clusterVars, adapterVars, abandoned, crashes, logVars,
                   clientVars, ghostVars>>

\* auto.offset.reset applied to a position that is missing or outside the
\* log: the log start or the log end.
ResetOffset(t) == IF OffsetReset = "earliest" THEN start[t] ELSE Len(log[t])

InRange(o, t) == o # NoOffset /\ start[t] <= o /\ o <= Len(log[t])

\* Where consumer id of p fetches t from: its position, on its first fetch
\* the offset committed for its group, and either reset when out of range.
FetchOffset(p, id, t) ==
    LET o == IF position[p][id][t] # NoOffset THEN position[p][id][t]
                                            ELSE committed[id][t] IN
    IF InRange(o, t) THEN o ELSE ResetOffset(t)

\* The subscribed topics with a message past the fetch offset.
Fetchable(p, id) == {t \in Topics : FetchOffset(p, id, t) < Len(log[t])}

\* consumer.poll() serves the _ALL_BROKERS_DOWN event: _error_cb raises
\* MessageBusError(ERR_SERVICE_UNAVAILABLE) out of poll(), which receive
\* does not catch.  The wrapper drops no message: the poll returns none and
\* the position stays.
PollServesErrorCb(c) ==
    LET p  == P(c)
        id == dloc[c].id IN
    /\ alert[p][id]
    /\ alert' = [alert EXCEPT ![p][id] = FALSE]
    /\ Finish(c, "ERR_SERVICE_UNAVAILABLE")
    /\ UNCHANGED <<position, returned>>

\* One consumer.poll(timeout): a message of a subscribed topic, an error
\* event (a subscribed topic does not exist: ERR_OP_FAILED is raised),
\* the broker-down error, or None, which returns None unless blocking.
\* The fetch positions are established by the poll.
ReceivePoll(c) ==
    LET p       == P(c)
        id      == dloc[c].id
        fetched == [t \in Topics |-> FetchOffset(p, id, t)]
        avail   == Fetchable(p, id) IN
    /\ pc[c] = "ReceivePoll"
    /\ \/ \E t \in avail :
            /\ position' = [position EXCEPT ![p][id] =
                              [fetched EXCEPT ![t] = @ + 1]]
            /\ returned' = [returned EXCEPT ![id] =
                              @ \cup {log[t][fetched[t] + 1]}]
            /\ Finish(c, "ok")
            /\ UNCHANGED alert
       \/ /\ \E t \in Topics : ~Exists(t)
          /\ Finish(c, "ERR_OP_FAILED")
          /\ UNCHANGED <<position, alert, returned>>
       \/ /\ avail = {}
          /\ position' = [position EXCEPT ![p][id] = fetched]
          /\ IF dloc[c].mode = "bounded"
               THEN Finish(c, "nodata")
               ELSE UNCHANGED <<callerVars, dloc>>
          /\ UNCHANGED <<alert, returned>>
       \/ PollServesErrorCb(c)
    /\ UNCHANGED <<clusterVars, adapterVars, abandoned, crashes, logVars,
                   pending, events, committed, fate, mark>>

\* A KeyboardInterrupt during receive's loop is raised as EINTR (lines
\* 439-444).  It comes from outside the program, which need not ever send
\* one.  It arrives while consumer.poll() waits, or just after poll()
\* returned a message, before receive returns it: librdkafka has then
\* advanced the position past the message, and the message is lost to the
\* caller.
ReceiveInterrupt(c) ==
    LET p       == P(c)
        id      == dloc[c].id
        fetched == [t \in Topics |-> FetchOffset(p, id, t)] IN
    /\ pc[c] = "ReceivePoll"
    /\ \/ UNCHANGED position
       \/ \E t \in Fetchable(p, id) :
            position' = [position EXCEPT ![p][id] = [fetched EXCEPT ![t] = @ + 1]]
    /\ Finish(c, "EINTR")
    /\ UNCHANGED <<clusterVars, adapterVars, abandoned, crashes, logVars,
                   pending, events, alert, committed, ghostVars>>

\* consumer.commit(async=False): the consumer's positions become its
\* group's committed offsets; with no position yet it raises
\* KafkaException (_NO_OFFSET).
Ack(c) ==
    /\ pc[c] = "Idle"
    /\ \E id \in ClientIds :
         LET pos == position[P(c)][id] IN
         IF id \notin consumers[P(c)] \/ \A t \in Topics : pos[t] = NoOffset
           THEN /\ Finish(c, "raised")
                /\ UNCHANGED committed
           ELSE /\ committed' = [committed EXCEPT ![id] =
                     [t \in Topics |-> IF pos[t] = NoOffset THEN @[t]
                                                         ELSE pos[t]]]
                /\ Finish(c, "ok")
    /\ UNCHANGED <<clusterVars, adapterVars, abandoned, crashes, logVars,
                   pending, events, alert, position, ghostVars>>

\* librdkafka's periodic commit for a consumer created with auto_ack
\* (enable.auto.commit): its positions become its group's offsets.
AutoCommit(p, id) ==
    LET pos == position[p][id] IN
    /\ AutoAck
    /\ id \in consumers[p]
    /\ \E t \in Topics : pos[t] \notin {NoOffset, committed[id][t]}
    /\ committed' = [committed EXCEPT ![id] =
          [t \in Topics |-> IF pos[t] = NoOffset THEN @[t] ELSE pos[t]]]
    /\ UNCHANGED <<vars, logVars, pending, events, alert, position, dloc,
                   ghostVars>>

-----------------------------------------------------------------------------
(***************************************************************************)
(* The cluster's retention: while a topic's retention.ms is the purge      *)
(* value, the broker's periodic retention check (every                     *)
(* log.retention.check.interval.ms) deletes everything it holds.  Nothing  *)
(* ties that check to delete's time.sleep(1).                              *)
(***************************************************************************)
RetentionCleanup(t) ==
    /\ Fragile(t)
    /\ start[t] < Len(log[t])
    /\ start' = [start EXCEPT ![t] = Len(log[t])]
    /\ UNCHANGED <<vars, log, outages, clientVars, dloc, ghostVars>>

\* Every broker becomes unreachable: librdkafka queues an _ALL_BROKERS_DOWN
\* error for each producer and consumer, whose error_cb runs when that
\* client's queue is next served.  (The adapter never polls an admin
\* client, so an admin's error_cb never runs.)
BrokersDown ==
    /\ outages < MaxOutages
    /\ outages' = outages + 1
    /\ events' = [p \in Procs |-> [id \in ClientIds |->
                    IF id \in producers[p]
                      THEN Append(events[p][id], BrokersDownEvent)
                      ELSE events[p][id]]]
    /\ alert' = [p \in Procs |-> [id \in ClientIds |->
                   alert[p][id] \/ id \in consumers[p]]]
    /\ UNCHANGED <<vars, log, start, pending, position, committed, dloc,
                   ghostVars>>

\* What a step of the control plane does to the data: a deleted
\* topic loses its messages and committed offsets, a process that died
\* loses its producer queues and fetch positions.  mark records the
\* messages retained in a topic when delete is called on it.
DataFollows ==
    /\ log' = [t \in Topics |-> IF (Exists(t))' THEN log[t] ELSE <<>>]
    /\ start' = [t \in Topics |-> IF (Exists(t))' THEN start[t] ELSE 0]
    /\ committed' = [g \in ClientIds |-> [t \in Topics |->
                        IF (Exists(t))' THEN committed[g][t] ELSE NoOffset]]
    /\ pending' = [p \in Procs |-> [id \in ClientIds |->
                     IF id \in producers'[p] THEN pending[p][id] ELSE <<>>]]
    /\ events' = [p \in Procs |-> [id \in ClientIds |->
                     IF id \in producers'[p] THEN events[p][id] ELSE <<>>]]
    /\ position' = [p \in Procs |-> [id \in ClientIds |->
                     IF id \in consumers'[p] THEN position[p][id]
                                              ELSE NoPositions]]
    /\ alert' = [p \in Procs |-> [id \in ClientIds |->
                   alert[p][id] /\ id \in consumers'[p]]]
    /\ dloc' = [c \in Callers |-> IF pc'[c] = "Idle" THEN NoData ELSE dloc[c]]
    /\ mark' = [c \in Callers |->
                  CASE pc[c] = "Idle" /\ pc'[c] = "PurgePhaseA"
                         -> Retained(loc'[c].topic)
                    [] pc'[c] = "Idle" -> {}
                    [] OTHER -> mark[c]]
    /\ UNCHANGED <<fate, returned, outages>>

ControlStep == Next /\ DataFollows

DataInit ==
    /\ Init
    /\ log = [t \in Topics |-> <<>>]
    /\ start = [t \in Topics |-> 0]
    /\ pending = [p \in Procs |-> [id \in ClientIds |-> <<>>]]
    /\ events = [p \in Procs |-> [id \in ClientIds |-> <<>>]]
    /\ alert = [p \in Procs |-> [id \in ClientIds |-> FALSE]]
    /\ outages = 0
    /\ returned = [g \in ClientIds |-> {}]
    /\ position = [p \in Procs |-> [id \in ClientIds |-> NoPositions]]
    /\ committed = [g \in ClientIds |-> NoPositions]
    /\ dloc = [c \in Callers |-> NoData]
    /\ fate = [m \in Msgs |-> "new"]
    /\ mark = [c \in Callers |-> {}]

DataCall(c) ==
    \/ "send" \in Methods /\ Send(c)
    \/ "receive" \in Methods /\ Receive(c)
    \/ "ack" \in Methods /\ Ack(c)

DataContinue(c) ==
    SendProduce(c) \/ SendPoll(c) \/ SendFlush(c) \/ ReceivePoll(c)

DataNext ==
    \/ ControlStep
    \/ \E c \in Callers : DataCall(c) \/ DataContinue(c) \/ ReceiveInterrupt(c)
    \/ \E p \in Procs, id \in ClientIds : Deliver(p, id) \/ AutoCommit(p, id)
    \/ \E t \in Topics : RetentionCleanup(t)
    \/ BrokersDown

\* Calls in progress keep running, as in KafkaMessageBroker; librdkafka
\* answers every queued message within message.timeout.ms.  Neither the
\* retention check, an interrupt nor an outage is assumed to come at any
\* time.
DataSpec ==
    /\ DataInit /\ [][DataNext]_dvars
    /\ \A c \in Callers : WF_dvars(Continue(c) /\ DataFollows)
    /\ \A c \in Callers : WF_dvars(DataContinue(c))
    /\ \A p \in Procs, id \in ClientIds : WF_dvars(Deliver(p, id))

-----------------------------------------------------------------------------
(***************************************************************************)
(* Properties                                                              *)
(***************************************************************************)

Fates == {"new", "sent", "delivered", "failed"}

DataTypeOK ==
    /\ TypeOK
    /\ log \in [Topics -> Seq(Msgs)]
    /\ \A t \in Topics : start[t] \in 0..Len(log[t])
    /\ pending \in [Procs -> [ClientIds -> Seq([msg : Msgs, topic : Topics])]]
    /\ events \in [Procs -> [ClientIds ->
                    Seq([msg : Msgs, ok : BOOLEAN] \cup {BrokersDownEvent})]]
    /\ alert \in [Procs -> [ClientIds -> BOOLEAN]]
    /\ outages \in 0..MaxOutages
    /\ returned \in [ClientIds -> SUBSET Msgs]
    /\ \A p \in Procs, id \in ClientIds : Queued(p, id) <= MaxQueue
    /\ position \in [Procs -> [ClientIds -> [Topics -> Nat \cup {NoOffset}]]]
    /\ committed \in [ClientIds -> [Topics -> Nat \cup {NoOffset}]]
    /\ fate \in [Msgs -> Fates]

\* send(producer_id, message_type, "sync", messages) returns without an
\* exception only when the cluster acknowledged every message of the list:
\* produce() followed by flush() for each message, and delivery_callback
\* raising for any failed report, must together ensure it.
SyncSendDelivered ==
    [][\A c \in Callers :
         ReturnsOk(c, "SendFlush") =>
             \A i \in DOMAIN dloc[c].batch :
                 fate[dloc[c].batch[i]] = "delivered"]_dvars

\* Every send returns: flush() waits for reports that librdkafka is bound
\* to produce, and the loop over the messages is finite.
SendsReturn ==
    \A c \in Callers :
        pc[c] \in {"SendProduce", "SendPoll", "SendFlush"} ~> pc[c] = "Idle"

\* A send that raises ETIMEDOUT from delivery_callback does so because one
\* of the messages it produced failed.
FailureReportedToItsSend ==
    [][\A c \in Callers :
         (Returns(c, "SendPoll", "ETIMEDOUT") \/
          Returns(c, "SendFlush", "ETIMEDOUT")) =>
             \E i \in 1..dloc[c].idx : fate[dloc[c].batch[i]] = "failed"]_dvars

\* A delete that returns 0 has erased the messages the topic held when
\* delete was called: "delete purges content; an immediate subsequent
\* non-blocking receive returns empty".
PurgeErasesMessages ==
    [][\A c \in Callers :
         ReturnsOk(c, "PurgePhaseB") =>
             mark[c] \cap RetainedNext(loc[c].topic) = {}]_dvars

\* At least once, across crashes and errors: ack and librdkafka's
\* auto-commit (lines 446-454) never commit a group's offset past a
\* retained message that receive has not returned to a consumer of the
\* group.  A consumer that dies before its next ack, whose poll raised
\* _error_cb's ERR_SERVICE_UNAVAILABLE, or whose receive was interrupted,
\* resumes at or before it.
CommittedWereReturned ==
    \A g \in ClientIds, t \in Topics :
        committed[g][t] # NoOffset =>
            \A i \in start[t] + 1 .. committed[g][t] : log[t][i] \in returned[g]

=============================================================================
