---------------------------- MODULE KafkaCluster ----------------------------
(***************************************************************************)
(* The Kafka cluster that KafkaMessageBroker drives through confluent_kafka *)
(* (message_broker_collection.py).  It is the adapter's environment: its   *)
(* state is what the admin calls change and what list_topics() and         *)
(* describe_configs() read back.                                           *)
(*                                                                         *)
(*   partitions[t]      partition count of topic t at the controller,      *)
(*                      0 when t does not exist;                           *)
(*   metaPartitions[t]  the same as seen in cluster metadata, which        *)
(*                      list_topics() returns and which lags behind the    *)
(*                      controller until MetadataRefresh(t) catches up;    *)
(*   topicConfig[t]     the topic's retention.ms, segment.bytes and        *)
(*                      file.delete.delay.ms.                              *)
(*                                                                         *)
(* AlterConfigs is Kafka's non-incremental AlterConfigs request, the one   *)
(* confluent_kafka's AdminClient.alter_configs() sends: every key the      *)
(* request does not carry is reverted to its default.                      *)
(***************************************************************************)
EXTENDS Naturals, FiniteSets, TLC

CONSTANTS
    Topics,                 \* topic (message type) names
    MaxPartitions,          \* largest partition count a request may ask for
    MinRetention,           \* _min_msg_retention_period = 1
    DefaultRetention,       \* broker default retention.ms (604800000)
    DefaultSegmentBytes,    \* broker default segment.bytes
    DefaultFileDeleteMs     \* broker default file.delete.delay.ms

ASSUME MaxPartitions \in Nat \ {0}

VARIABLES partitions, metaPartitions, topicConfig

clusterVars == <<partitions, metaPartitions, topicConfig>>

\* The configuration keys the adapter touches (_config_prop_map's values).
ConfigKeys == {"retention.ms", "segment.bytes", "file.delete.delay.ms"}

DefaultConfig ==
    [k \in ConfigKeys |->
        CASE k = "retention.ms"         -> DefaultRetention
          [] k = "segment.bytes"        -> DefaultSegmentBytes
          [] k = "file.delete.delay.ms" -> DefaultFileDeleteMs]

Exists(t) == partitions[t] > 0       \* known to the controller
Listed(t) == metaPartitions[t] > 0   \* returned by list_topics()

\* A topic that exists but whose retention is the purge value: the broker
\* deletes everything written to it almost at once.
Fragile(t) == Exists(t) /\ topicConfig[t]["retention.ms"] = MinRetention

ClusterInit ==
    /\ partitions \in [Topics -> 0..1]
    /\ metaPartitions = partitions
    /\ topicConfig = [t \in Topics |-> DefaultConfig]

(***************************************************************************)
(* Admin requests, as seen from the adapter.  Each is an operator over the *)
(* primed cluster variables, conjoined into the adapter action that issues *)
(* it.                                                                     *)
(***************************************************************************)

\* CreateTopics for the set S with n partitions: topics that already exist
\* fail (TOPIC_ALREADY_EXISTS), the others are created with the defaults.
CreateTopics(S, n) ==
    /\ partitions' = [t \in Topics |->
                        IF t \in S /\ ~Exists(t) THEN n ELSE partitions[t]]
    /\ topicConfig' = [t \in Topics |->
                        IF t \in S /\ ~Exists(t) THEN DefaultConfig
                                                 ELSE topicConfig[t]]
CreateTopicsFailed(S) == {t \in S : Exists(t)}

\* DeleteTopics for S: topics that do not exist fail (UNKNOWN_TOPIC).
DeleteTopics(S) ==
    /\ partitions' = [t \in Topics |-> IF t \in S THEN 0 ELSE partitions[t]]
    /\ topicConfig' = [t \in Topics |->
                        IF t \in S THEN DefaultConfig ELSE topicConfig[t]]
DeleteTopicsFailed(S) == {t \in S : ~Exists(t)}

\* CreatePartitions: only an existing topic, only upwards (INVALID_PARTITIONS).
CreatePartitionsOk(t, n) == Exists(t) /\ n > partitions[t]

\* AlterConfigs(t, settings): settings is the function of keys set on the
\* ConfigResource; all other keys revert to their defaults.
AlterConfigs(t, settings) ==
    topicConfig' = [topicConfig EXCEPT ![t] =
                     [k \in ConfigKeys |->
                        IF k \in DOMAIN settings THEN settings[k]
                                                 ELSE DefaultConfig[k]]]

(***************************************************************************)
(* The cluster's own step: metadata for one topic catches up with the      *)
(* controller.                                                             *)
(***************************************************************************)
MetadataRefresh(t) ==
    /\ metaPartitions[t] # partitions[t]
    /\ metaPartitions' = [metaPartitions EXCEPT ![t] = partitions[t]]
    /\ UNCHANGED <<partitions, topicConfig>>

=============================================================================
