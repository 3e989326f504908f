------------------------- MODULE KafkaMessageBroker -------------------------
(***************************************************************************)
(* KafkaMessageBroker (src/py-utils/src/utils/message_bus/                 *)
(* message_broker_collection.py): the control plane of the adapter.        *)
(*                                                                         *)
(* One adapter object lives in each process of Procs.  Its state is the    *)
(* handle map self._clients and the two attributes the producer branch of  *)
(* init_client writes and delete reads: self._resource (the topic of the   *)
(* last producer initialised) and self._saved_retention.  Callers are the  *)
(* threads that call the adapter; ProcOf[c] is the process a caller runs   *)
(* in, so two callers of one process share one adapter object.            *)
(*                                                                         *)
(* Every public method is one or more atomic steps, cut where the method   *)
(* makes a call to the cluster; pc[c] is where caller c is, loc[c] its     *)
(* local variables, ret[c] the outcome of its last call.                   *)
(***************************************************************************)
EXTENDS KafkaCluster, Sequences, SequencesExt

CONSTANTS
    Procs,           \* processes, one adapter object each
    Callers,         \* threads calling the adapter
    ProcOf,          \* [Callers -> Procs]
    ClientIds,       \* client_id values passed to init_client
    MaxListRetry,    \* _max_list_message_type_count (15)
    MaxConfigRetry,  \* _max_config_retry_count (3)
    AlterOutcomes,   \* what an alter_configs() future may yield
    ExpireInputs,    \* expire_time_ms values callers pass
    LimitInputs,     \* data_limit_bytes values callers pass
    MaxCrashes,      \* bound on process crashes
    Methods,         \* the public methods the callers call
    NoTopic,         \* self._resource not yet assigned
    NoValue          \* self._saved_retention not yet assigned

ASSUME ProcOf \in [Callers -> Procs]
ASSUME AlterOutcomes \subseteq {"ok", "error", "raise"} /\ "ok" \in AlterOutcomes
ASSUME MinRetention \notin ExpireInputs
ASSUME Methods \subseteq {"init_client", "register_message_type",
                          "deregister_message_type", "add_concurrency",
                          "delete", "set_message_type_expire",
                          "send", "receive", "ack"}  \* the last three: KafkaDataPlane

VARIABLES
    admins,          \* admins[p]: ids in self._clients['admin']
    producers,       \* producers[p]: ids in self._clients['producer']
    consumers,       \* consumers[p]: ids in self._clients['consumer']
    resource,        \* resource[p]: topic of self._resource
    savedRetention,  \* savedRetention[p]: self._saved_retention
    pc, loc, ret,
    abandoned,       \* ghost: fragile topics whose purge was reported failed
    crashes          \* number of process crashes so far

adapterVars == <<admins, producers, consumers, resource, savedRetention>>
callerVars == <<pc, loc, ret>>
vars == <<clusterVars, adapterVars, callerVars, abandoned, crashes>>

P(c) == ProcOf[c]

ClientKinds == {"admin", "producer", "consumer"}

\* Outcomes of a call: "raised" is an exception that is not a
\* MessageBusError (KeyError, AttributeError, a KafkaException from a future);
\* "nodata" is receive's None.
Results == {"none", "ok", "EINVAL", "ENOENT", "ETIMEDOUT", "E2BIG",
            "ERR_OP_FAILED", "ENOKEY", "EINTR", "raised", "nodata",
            "ERR_SERVICE_UNAVAILABLE"}

\* Labels of calls in progress; the last four are send's and receive's,
\* whose steps KafkaDataPlane adds.
PCs == {"Idle", "InitProducerStore", "ProducerDescribe", "RegisterPoll", "DeregisterPoll",
        "ConcurrencyPoll", "PurgePhaseA", "PurgePhaseB", "ConfigureAlter",
        "SendProduce", "SendPoll", "SendFlush", "ReceivePoll"}

\* Non-empty lists of distinct topic names for (de)register_message_type.
NameLists == SetToAllKPermutations(Topics) \ {<<>>}

\* Locals of a call.  before is a ghost: the purged topic's configuration
\* when delete was called.  id is init_client's client_id.
NoLocals == [id |-> NoValue, topic |-> NoTopic, names |-> <<>>, idx |-> 0,
             count |-> 0, retry |-> 0, purged |-> NoTopic, settings |-> <<>>,
             before |-> <<>>]

Handles(p, kind) ==
    CASE kind = "admin"    -> admins[p]
      [] kind = "producer" -> producers[p]
      [] kind = "consumer" -> consumers[p]

Return(c, r) ==
    /\ pc' = [pc EXCEPT ![c] = "Idle"]
    /\ loc' = [loc EXCEPT ![c] = NoLocals]
    /\ ret' = [ret EXCEPT ![c] = r]

Goto(c, label, l) ==
    /\ pc' = [pc EXCEPT ![c] = label]
    /\ loc' = [loc EXCEPT ![c] = l]
    /\ UNCHANGED ret

\* The ghost set after a step: the topics in it or in add that are still
\* fragile, less those a purge has just taken over.
Settle(add, takenOver) ==
    abandoned' = {t \in Topics \ takenOver :
                    (t \in abandoned \/ t \in add) /\ (Fragile(t))'}

-----------------------------------------------------------------------------
(***************************************************************************)
(* init_client                                                             *)
(***************************************************************************)

\* An unknown client_type is rejected.
InitClientInvalidType(c) ==
    /\ pc[c] = "Idle"
    /\ Return(c, "EINVAL")
    /\ UNCHANGED <<clusterVars, adapterVars, abandoned, crashes>>

\* A handle with this client_id exists: only check that the message type(s)
\* are listed, and return.
InitClientExisting(c) ==
    /\ pc[c] = "Idle"
    /\ \E kind \in ClientKinds, id \in ClientIds :
         /\ id \in Handles(P(c), kind)
         /\ \/ kind = "admin" /\ Return(c, "ok")
            \/ kind = "producer" /\ \E t \in Topics :
                  Return(c, IF Listed(t) THEN "ok" ELSE "EINVAL")
            \/ kind = "consumer" /\ \E subs \in SUBSET Topics \ {{}} :
                  Return(c, IF \E t \in subs : Listed(t) THEN "ok" ELSE "EINVAL")
    /\ UNCHANGED <<clusterVars, adapterVars, abandoned, crashes>>

InitAdmin(c) ==
    /\ pc[c] = "Idle"
    /\ \E id \in ClientIds \ admins[P(c)] :
         admins' = [admins EXCEPT ![P(c)] = @ \cup {id}]
    /\ Return(c, "ok")
    /\ UNCHANGED <<clusterVars, producers, consumers, resource,
                   savedRetention, abandoned, crashes>>

\* A new producer: client_id has no producer handle (the check of line 77),
\* and kafka_conf is built.
InitProducer(c) ==
    /\ pc[c] = "Idle"
    /\ \E id \in ClientIds \ producers[P(c)], t \in Topics :
         Goto(c, "InitProducerStore", [NoLocals EXCEPT !.id = id, !.topic = t])
    /\ UNCHANGED <<clusterVars, adapterVars, abandoned, crashes>>

\* The admin and producer handles are stored under client_id, and
\* self._resource is pointed at the message type; nothing checks again
\* that client_id has no handle.
InitProducerStore(c) ==
    LET l == loc[c] IN
    /\ pc[c] = "InitProducerStore"
    /\ admins' = [admins EXCEPT ![P(c)] = @ \cup {l.id}]
    /\ producers' = [producers EXCEPT ![P(c)] = @ \cup {l.id}]
    /\ resource' = [resource EXCEPT ![P(c)] = l.topic]
    /\ Goto(c, "ProducerDescribe", NoLocals)
    /\ UNCHANGED <<clusterVars, consumers, savedRetention, abandoned, crashes>>

\* Variant of CapturedRetention without the purge-value check of lines
\* 131-134.
CapturedRetentionRaw(v) == v

\* describe_configs([self._resource]) and the baseline it records: a
\* retention that is the purge value is taken for the default.  The future
\* raises when the topic does not exist; the handles stay stored.
CapturedRetention(v) == IF v = MinRetention THEN DefaultRetention ELSE v

ProducerDescribe(c) ==
    LET r == resource[P(c)] IN
    /\ pc[c] = "ProducerDescribe"
    /\ IF Exists(r)
         THEN /\ savedRetention' = [savedRetention EXCEPT ![P(c)] =
                    CapturedRetention(topicConfig[r]["retention.ms"])]
              /\ Return(c, "ok")
         ELSE /\ Return(c, "raised")
              /\ UNCHANGED savedRetention
    /\ UNCHANGED <<clusterVars, admins, producers, consumers, resource,
                   abandoned, crashes>>

\* A new consumer: every required entry must be in client_conf.
InitConsumer(c) ==
    /\ pc[c] = "Idle"
    /\ \E id \in ClientIds \ consumers[P(c)], complete \in BOOLEAN :
         IF complete
           THEN /\ consumers' = [consumers EXCEPT ![P(c)] = @ \cup {id}]
                /\ Return(c, "ok")
           ELSE /\ Return(c, "ENOENT")
                /\ UNCHANGED consumers
    /\ UNCHANGED <<clusterVars, admins, producers, resource, savedRetention,
                   abandoned, crashes>>


-----------------------------------------------------------------------------
(***************************************************************************)
(* register_message_type, deregister_message_type, add_concurrency: the    *)
(* admin request, _task_status on its futures, then a loop that polls      *)
(* list_topics() once per step (the time.sleep(list_retry) between polls   *)
(* is the gap in which other steps happen) until the metadata agrees or    *)
(* the retry count passes MaxListRetry.                                    *)
(***************************************************************************)

\* self._clients['admin'][admin_id] raises KeyError for an unknown id.
UnknownAdmin(c, id) ==
    /\ id \notin admins[P(c)]
    /\ Return(c, "raised")
    /\ UNCHANGED <<clusterVars, adapterVars, abandoned, crashes>>

RegisterMessageType(c) ==
    /\ pc[c] = "Idle"
    /\ \E id \in ClientIds, names \in NameLists, n \in 1..MaxPartitions :
         \/ UnknownAdmin(c, id)
         \/ /\ id \in admins[P(c)]
            /\ CreateTopics(ToSet(names), n)
            /\ IF CreateTopicsFailed(ToSet(names)) # {}
                 THEN Return(c, "ERR_OP_FAILED")
                 ELSE Goto(c, "RegisterPoll",
                           [NoLocals EXCEPT !.names = names, !.idx = 1,
                                            !.retry = 1])
            /\ UNCHANGED <<metaPartitions, adapterVars, abandoned, crashes>>

\* register_message_type waits for a name to be listed, deregister for it
\* to be gone.
PollDone(c, t) ==
    IF pc[c] = "RegisterPoll" THEN Listed(t) ELSE ~Listed(t)

\* The next attempt of a confirmation loop.  Variant: list_retry never
\* advances.
NextAttemptStuck(l) == l

NextAttempt(l) == [l EXCEPT !.retry = @ + 1]

\* The attempt index is past the loop's budget.  Variant: no bound (a
\* while loop).
PollNeverTimesOut(l) == FALSE

PollTimedOut(l) == l.retry > MaxListRetry

\* The confirmed name is the last of the list.  Variant: a return in place
\* of the break after the first confirmed name.
LastNameFirst(l) == TRUE

LastName(l) == l.idx = Len(l.names)

\* One iteration of a confirmation loop over loc[c].names; PollDone(c, t)
\* says the metadata agrees for name t, and the loop times out with
\* ETIMEDOUT.
PollNames(c) ==
    LET l == loc[c]
        t == l.names[l.idx] IN
    \/ /\ PollDone(c, t)
       /\ IF LastName(l)
            THEN Return(c, "ok")
            ELSE Goto(c, pc[c], [l EXCEPT !.idx = @ + 1, !.retry = 1])
    \/ /\ ~PollDone(c, t)
       /\ IF PollTimedOut(l)
            THEN Return(c, "ETIMEDOUT")
            ELSE Goto(c, pc[c], NextAttempt(l))

RegisterPoll(c) ==
    /\ pc[c] = "RegisterPoll"
    /\ PollNames(c)
    /\ UNCHANGED <<clusterVars, adapterVars, abandoned, crashes>>

DeregisterMessageType(c) ==
    /\ pc[c] = "Idle"
    /\ \E id \in ClientIds, names \in NameLists :
         \/ UnknownAdmin(c, id)
         \/ /\ id \in admins[P(c)]
            /\ DeleteTopics(ToSet(names))
            /\ IF DeleteTopicsFailed(ToSet(names)) # {}
                 THEN Return(c, "ERR_OP_FAILED")
                 ELSE Goto(c, "DeregisterPoll",
                           [NoLocals EXCEPT !.names = names, !.idx = 1,
                                            !.retry = 1])
            /\ Settle({}, {})
            /\ UNCHANGED <<metaPartitions, adapterVars, crashes>>

DeregisterPoll(c) ==
    /\ pc[c] = "DeregisterPoll"
    /\ PollNames(c)
    /\ UNCHANGED <<clusterVars, adapterVars, abandoned, crashes>>

AddConcurrency(c) ==
    /\ pc[c] = "Idle"
    /\ \E id \in ClientIds, t \in Topics, n \in 1..MaxPartitions :
         \/ UnknownAdmin(c, id)
         \/ /\ id \in admins[P(c)]
            /\ IF CreatePartitionsOk(t, n)
                 THEN /\ partitions' = [partitions EXCEPT ![t] = n]
                      /\ Goto(c, "ConcurrencyPoll",
                              [NoLocals EXCEPT !.topic = t, !.count = n,
                                               !.retry = 1])
                 ELSE /\ Return(c, "ERR_OP_FAILED")
                      /\ UNCHANGED partitions
            /\ UNCHANGED <<metaPartitions, topicConfig, adapterVars,
                           abandoned, crashes>>

\* _get_metadata(admin)[message_type] raises KeyError when the topic is not
\* listed; the loop waits for the listed count to equal the requested one.
ConcurrencyPoll(c) ==
    LET l == loc[c] IN
    /\ pc[c] = "ConcurrencyPoll"
    /\ \/ /\ ~Listed(l.topic)
          /\ Return(c, "raised")
       \/ /\ Listed(l.topic)
          /\ metaPartitions[l.topic] = l.count
          /\ Return(c, "ok")
       \/ /\ Listed(l.topic)
          /\ metaPartitions[l.topic] # l.count
          /\ IF PollTimedOut(l)
               THEN Return(c, "E2BIG")
               ELSE Goto(c, "ConcurrencyPoll", NextAttempt(l))
    /\ UNCHANGED <<clusterVars, adapterVars, abandoned, crashes>>



-----------------------------------------------------------------------------
(***************************************************************************)
(* delete: the retention-flip purge.  Both phases alter self._resource,    *)
(* read afresh on every attempt, not the message_type argument.  Each      *)
(* phase is a loop of up to MaxConfigRetry alter_configs() attempts; an    *)
(* attempt whose future yields a non-None result is retried, and raises    *)
(* once the attempt index exceeds 1; a future that raises propagates.      *)
(***************************************************************************)

StartDelete(c) ==
    /\ pc[c] = "Idle"
    /\ \E id \in ClientIds, t \in Topics :
         \/ UnknownAdmin(c, id)
         \/ /\ id \in admins[P(c)]
            /\ IF resource[P(c)] = NoTopic    \* AttributeError on _resource
                 THEN Return(c, "raised")
                 ELSE Goto(c, "PurgePhaseA",
                           [NoLocals EXCEPT !.topic = t,
                                            !.before = topicConfig[t]])
            /\ UNCHANGED <<clusterVars, adapterVars, abandoned, crashes>>

\* An attempt whose result is not None: retry, raise err, or leave the
\* loop when range(MaxConfigRetry) is exhausted.
RetryAlter(c, err, exhausted) ==
    LET l == loc[c] IN
    IF l.retry > 1 THEN Return(c, err)
    ELSE IF l.retry + 1 < MaxConfigRetry
         THEN Goto(c, pc[c], NextAttempt(l))
         ELSE exhausted

\* Phase A: retention.ms of self._resource set to _min_msg_retention_period.
PurgePhaseA(c) ==
    LET tgt == resource[P(c)]
        l   == loc[c]
        toB == Goto(c, "PurgePhaseB", [l EXCEPT !.retry = 0]) IN
    /\ pc[c] = "PurgePhaseA"
    /\ UNCHANGED <<partitions, metaPartitions, adapterVars, crashes>>
    /\ \E o \in AlterOutcomes :
         \/ /\ o = "raise" \/ ~Exists(tgt)
            /\ Return(c, "raised")
            /\ UNCHANGED <<topicConfig, abandoned>>
         \/ /\ o = "ok" /\ Exists(tgt)
            /\ AlterConfigs(tgt, "retention.ms" :> MinRetention)
            /\ Goto(c, "PurgePhaseB", [l EXCEPT !.retry = 0, !.purged = tgt])
            /\ Settle({}, {tgt})
         \/ /\ o = "error" /\ Exists(tgt)
            /\ RetryAlter(c, "ERR_OP_FAILED", toB)
            /\ UNCHANGED <<topicConfig, abandoned>>

\* An attempt of phase B whose result is not None: retried, and reported
\* as ENOKEY once the attempt index exceeds 1, which leaves the purged
\* topic fragile.  Variant: the result is not looked at.
PhaseBRejectedIgnored(c) ==
    /\ Return(c, "ok")
    /\ UNCHANGED topicConfig
    /\ Settle({}, {})

PhaseBRejected(c) ==
    /\ RetryAlter(c, "ENOKEY", Return(c, "ok"))
    /\ UNCHANGED topicConfig
    /\ Settle(IF loc[c].retry > 1 THEN {loc[c].purged} ELSE {}, {})

\* Phase B, after time.sleep(1): retention.ms of self._resource set back to
\* self._saved_retention.  A failure leaves the purged topic fragile and is
\* reported to the caller.
PurgePhaseB(c) ==
    LET tgt   == resource[P(c)]
        saved == savedRetention[P(c)]
        l     == loc[c] IN
    /\ pc[c] = "PurgePhaseB"
    /\ UNCHANGED <<partitions, metaPartitions, adapterVars, crashes>>
    /\ \/ /\ saved = NoValue                    \* AttributeError
          /\ Return(c, "raised")
          /\ UNCHANGED topicConfig
          /\ Settle({l.purged}, {})
       \/ /\ saved # NoValue
          /\ \E o \in AlterOutcomes :
               \/ /\ o = "raise" \/ ~Exists(tgt)
                  /\ Return(c, "raised")
                  /\ UNCHANGED topicConfig
                  /\ Settle({l.purged}, {})
               \/ /\ o = "ok" /\ Exists(tgt)
                  /\ AlterConfigs(tgt, "retention.ms" :> saved)
                  /\ Return(c, "ok")
                  /\ Settle({}, {})
               \/ /\ o = "error" /\ Exists(tgt)
                  /\ PhaseBRejected(c)

-----------------------------------------------------------------------------
(***************************************************************************)
(* set_message_type_expire and _configure_message_type.                    *)
(***************************************************************************)

\* _config_prop_map
PropMap == [expire_time_ms   |-> "retention.ms",
            data_limit_bytes |-> "segment.bytes",
            file_delete_ms   |-> "file.delete.delay.ms"]

\* list_message_types(admin_id): the names in the cluster metadata that
\* list_topics() returns.  It changes nothing; the KeyError of an unknown
\* admin_id is checked by its callers first.
ListMessageTypes == {t \in Topics : Listed(t)}

\* The checks before the first alter_configs(), in the code's order;
\* "none" when all pass.  keys are the kwargs the caller passed.
ExpireRejection(c, id, t, keys) ==
    IF {"expire_time_ms", "data_limit_bytes"} \ keys # {} THEN "EINVAL"
    ELSE IF id \notin admins[P(c)] THEN "raised"
    ELSE IF t \notin ListMessageTypes THEN "ENOENT"
    ELSE IF keys \ DOMAIN PropMap # {} THEN "EINVAL"
    ELSE "none"

SetMessageTypeExpire(c) ==
    /\ pc[c] = "Idle"
    /\ \E id \in ClientIds, t \in Topics,
          keys \in SUBSET {"expire_time_ms", "data_limit_bytes", "other_key"},
          e \in ExpireInputs, d \in LimitInputs :
         LET err == ExpireRejection(c, id, t, keys) IN
         IF err # "none"
           THEN Return(c, err)
           ELSE Goto(c, "ConfigureAlter",
                     [NoLocals EXCEPT !.topic = t,
                        !.settings = [k \in ConfigKeys |->
                           CASE k = PropMap.expire_time_ms   -> e
                             [] k = PropMap.data_limit_bytes -> d
                             [] k = PropMap.file_delete_ms   -> 1]])
    /\ UNCHANGED <<clusterVars, adapterVars, abandoned, crashes>>

ConfigureAlter(c) ==
    LET l == loc[c] IN
    /\ pc[c] = "ConfigureAlter"
    /\ UNCHANGED <<partitions, metaPartitions, adapterVars, crashes>>
    /\ \E o \in AlterOutcomes :
         \/ /\ o = "raise" \/ ~Exists(l.topic)
            /\ Return(c, "raised")
            /\ UNCHANGED <<topicConfig, abandoned>>
         \/ /\ o = "ok" /\ Exists(l.topic)
            /\ AlterConfigs(l.topic, l.settings)
            /\ Return(c, "ok")
            /\ Settle({}, {})
         \/ /\ o = "error" /\ Exists(l.topic)
            /\ RetryAlter(c, "ERR_OP_FAILED", Return(c, "ok"))
            /\ UNCHANGED <<topicConfig, abandoned>>

-----------------------------------------------------------------------------
(***************************************************************************)
(* A process dies: its adapter object and its callers' calls are gone; the *)
(* cluster keeps whatever the calls already did.  A purge cut between its  *)
(* phases leaves its topic fragile, which the README of the design accepts *)
(* as a known limitation; the ghost records it.                            *)
(***************************************************************************)
Crash(p) ==
    LET victims == {c \in Callers : ProcOf[c] = p} IN
    /\ crashes < MaxCrashes
    /\ crashes' = crashes + 1
    /\ admins' = [admins EXCEPT ![p] = {}]
    /\ producers' = [producers EXCEPT ![p] = {}]
    /\ consumers' = [consumers EXCEPT ![p] = {}]
    /\ resource' = [resource EXCEPT ![p] = NoTopic]
    /\ savedRetention' = [savedRetention EXCEPT ![p] = NoValue]
    /\ pc' = [c \in Callers |-> IF c \in victims THEN "Idle" ELSE pc[c]]
    /\ loc' = [c \in Callers |-> IF c \in victims THEN NoLocals ELSE loc[c]]
    /\ ret' = [c \in Callers |-> IF c \in victims THEN "none" ELSE ret[c]]
    /\ UNCHANGED clusterVars
    /\ Settle({loc[c].purged : c \in {v \in victims : pc[v] = "PurgePhaseB"}}, {})

-----------------------------------------------------------------------------

Init ==
    /\ ClusterInit
    /\ admins = [p \in Procs |-> {}]
    /\ producers = [p \in Procs |-> {}]
    /\ consumers = [p \in Procs |-> {}]
    /\ resource = [p \in Procs |-> NoTopic]
    /\ savedRetention = [p \in Procs |-> NoValue]
    /\ pc = [c \in Callers |-> "Idle"]
    /\ loc = [c \in Callers |-> NoLocals]
    /\ ret = [c \in Callers |-> "none"]
    /\ abandoned = {}
    /\ crashes = 0

\* A call made by caller c to one of Methods.
Call(c) ==
    \/ /\ "init_client" \in Methods
       /\ \/ InitClientInvalidType(c) \/ InitClientExisting(c)
          \/ InitAdmin(c) \/ InitProducer(c) \/ InitConsumer(c)
    \/ "register_message_type" \in Methods /\ RegisterMessageType(c)
    \/ "deregister_message_type" \in Methods /\ DeregisterMessageType(c)
    \/ "add_concurrency" \in Methods /\ AddConcurrency(c)
    \/ "delete" \in Methods /\ StartDelete(c)
    \/ "set_message_type_expire" \in Methods /\ SetMessageTypeExpire(c)

\* The rest of a call already in progress.
Continue(c) ==
    \/ InitProducerStore(c) \/ ProducerDescribe(c) \/ RegisterPoll(c) \/ DeregisterPoll(c)
    \/ ConcurrencyPoll(c) \/ PurgePhaseA(c) \/ PurgePhaseB(c)
    \/ ConfigureAlter(c)

Cluster ==
    /\ \E t \in Topics : MetadataRefresh(t)
    /\ UNCHANGED <<adapterVars, callerVars, abandoned, crashes>>

Next ==
    \/ \E c \in Callers : Call(c) \/ Continue(c)
    \/ \E p \in Procs : Crash(p)
    \/ Cluster

\* A caller's thread is inside the adapter until the call returns, and
\* every step is a cluster call bounded by the socket timeout: a call in
\* progress keeps running.  Nothing obliges callers to make calls, nor the
\* metadata to catch up.
Spec == Init /\ [][Next]_vars /\ \A c \in Callers : WF_vars(Continue(c))



-----------------------------------------------------------------------------
(***************************************************************************)
(* Properties                                                              *)
(***************************************************************************)

\* The largest retry index a loop reaches: list_retry runs to
\* MaxListRetry + 1, tuned_retry to MaxConfigRetry - 1.
MaxRetryIndex ==
    IF MaxListRetry + 1 >= MaxConfigRetry - 1 THEN MaxListRetry + 1
                                             ELSE MaxConfigRetry - 1

TypeOK ==
    /\ partitions \in [Topics -> 0..MaxPartitions]
    /\ metaPartitions \in [Topics -> 0..MaxPartitions]
    /\ \A t \in Topics : topicConfig[t] \in [ConfigKeys -> Nat]
    /\ admins \in [Procs -> SUBSET ClientIds]
    /\ producers \in [Procs -> SUBSET ClientIds]
    /\ consumers \in [Procs -> SUBSET ClientIds]
    /\ resource \in [Procs -> Topics \cup {NoTopic}]
    /\ savedRetention \in [Procs -> Nat \cup {NoValue}]
    /\ pc \in [Callers -> PCs]
    /\ ret \in [Callers -> Results]
    /\ \A c \in Callers :
         /\ loc[c].topic \in Topics \cup {NoTopic}
         /\ loc[c].purged \in Topics \cup {NoTopic}
         /\ loc[c].idx \in 0..Cardinality(Topics)
         /\ loc[c].retry \in 0..MaxRetryIndex
         /\ loc[c].count \in 0..MaxPartitions
    /\ abandoned \subseteq Topics
    /\ crashes \in 0..MaxCrashes

\* delete never leaves a topic silently fragile: a topic whose retention is
\* the purge value is being purged right now (between the phases), or the
\* purge that set it failed in phase B, or its process died between the
\* phases.  This is what delete's two-phase retention flip, the baseline
\* captured by init_client and the retry loops must together ensure.
NoSilentFragileTopic ==
    \A t \in Topics :
        Fragile(t) =>
            \/ t \in abandoned
            \/ \E c \in Callers : pc[c] = "PurgePhaseB" /\ loc[c].purged = t

\* A confirmation loop returns success only when list_topics() agrees with
\* the request: register_message_type's topics are all listed,
\* deregister_message_type's are all gone, add_concurrency's topic shows the
\* requested partition count.
\* Caller c's call returns r from the step at label.
Returns(c, label, r) == pc[c] = label /\ pc'[c] = "Idle" /\ ret'[c] = r
ReturnsOk(c, label) == Returns(c, label, "ok")

ConfirmedMutationsVisible ==
    [][\A c \in Callers :
         /\ ReturnsOk(c, "RegisterPoll") =>
                \A t \in ToSet(loc[c].names) : Listed(t)
         /\ ReturnsOk(c, "DeregisterPoll") =>
                \A t \in ToSet(loc[c].names) : ~Listed(t)
         /\ ReturnsOk(c, "ConcurrencyPoll") =>
                metaPartitions[loc[c].topic] = loc[c].count]_vars

\* add_concurrency reports E2BIG ("Exceeded retry count for creating
\* partitions") only while the metadata still shows fewer partitions than
\* it asked for, i.e. when the topic has not grown to the requested count;
\* another process's larger increase in between is not a failure of its own.
ConcurrencyTimeoutMeansNotVisible ==
    [][\A c \in Callers :
         Returns(c, "ConcurrencyPoll", "E2BIG") =>
             metaPartitions[loc[c].topic] < loc[c].count]_vars

\* delete(admin_id, message_type) alters message_type: the topic phase A
\* set to the purge value is the one the caller named.
PurgeTargetsRequestedTopic ==
    \A c \in Callers :
        (pc[c] = "PurgePhaseB" /\ loc[c].purged # NoTopic)
            => loc[c].purged = loc[c].topic

\* A delete that returns 0 leaves the topic's configuration what it was
\* when delete was called: retention.ms, and the segment.bytes and
\* file.delete.delay.ms that set_message_type_expire set (the purge is
\* invisible in the configuration).
PurgeRestoresConfig ==
    [][\A c \in Callers :
         ReturnsOk(c, "PurgePhaseB") =>
             topicConfig'[loc[c].topic] = loc[c].before]_vars

\* init_client validates and returns when client_id already has a handle
\* ("Validate and return if client already exists", lines 76-98): a
\* producer handle, and the self._resource that goes with it, is only
\* stored for a client_id that has no producer handle.
ProducerStoredOnce ==
    [][\A c \in Callers :
         (pc[c] = "InitProducerStore" /\ pc'[c] = "ProducerDescribe")
             => loc[c].id \notin producers[P(c)]]_vars

\* Every call returns: the confirmation loops and the alter retries are
\* bounded, so no caller stays inside the adapter for ever.
CallsReturn == \A c \in Callers : (pc[c] # "Idle") ~> (pc[c] = "Idle")


-----------------------------------------------------------------------------
(***************************************************************************)
(* Refinement of RetentionSpec, where every call is one atomic step.  A    *)
(* purge between its phases is hidden: the abstract retention of the       *)
(* topic it purged is the one the topic had when delete was called, so     *)
(* phase A is a stutter and phase B is the purge's abstract step.          *)
(***************************************************************************)
PurgingIn(t) == {c \in Callers : pc[c] = "PurgePhaseB" /\ loc[c].purged = t}

AbsRetention ==
    [t \in Topics |->
        IF PurgingIn(t) # {}
        THEN loc[CHOOSE c \in PurgingIn(t) : TRUE].before["retention.ms"]
        ELSE topicConfig[t]["retention.ms"]]

AbsBusy ==
    [c \in Callers |->
        CASE pc[c] \in {"PurgePhaseA", "PurgePhaseB"} ->
                 [kind |-> "purge", topic |-> loc[c].topic]
          [] pc[c] = "ConfigureAlter" ->
                 [kind |-> "config", topic |-> loc[c].topic]
          [] OTHER -> [kind |-> "idle", topic |-> NoTopic]]

Retention == INSTANCE RetentionSpec
    WITH exists <- [t \in Topics |-> Exists(t)],
         retention <- AbsRetention,
         busy <- AbsBusy,
         result <- [c \in Callers |->
                      CASE ret[c] \in {"none", "ok"} -> ret[c]
                        [] OTHER -> "error"]

\* delete, set_message_type_expire, topic creation and deletion and process
\* crashes, seen through the mapping, are steps of the atomic contract: a
\* successful delete leaves the retention as it was (or repairs a topic an
\* earlier purge left fragile), and only a failed or cut purge leaves the
\* purge value.
RetentionContract == Retention!Spec


=============================================================================
