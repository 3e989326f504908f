----------------------- MODULE MC_KafkaMessageBroker -----------------------
(***************************************************************************)
(* Model-checking instance of KafkaMessageBroker.  The cfg files choose    *)
(* the processes, callers and retry bounds; the values below are the       *)
(* code's own where TLC can carry them (the retention and segment sizes).  *)
(***************************************************************************)
EXTENDS KafkaMessageBroker

CONSTANTS t1, t2, p1, p2, c1, c2, id1, id2

MCTopics == {t1, t2}
OneTopic == {t1}
MCClientIds == {id1, id2}
OneClientId == {id1}

MCMinRetention == 1                 \* _min_msg_retention_period
MCDefaultRetention == 604800000     \* _default_msg_retention_period
MCDefaultSegmentBytes == 1073741824
MCDefaultFileDeleteMs == 60000
MCExpireInputs == {86400000}
MCLimitInputs == {1048576}

AllMethods == {"init_client", "register_message_type",
               "deregister_message_type", "add_concurrency", "delete",
               "set_message_type_expire"}

\* The methods that touch a topic's configuration.
ConfigMethods == {"init_client", "delete", "set_message_type_expire"}

\* The methods that create, delete and grow topics.
TopicMethods == {"init_client", "register_message_type",
                 "deregister_message_type", "add_concurrency"}

\* The methods that create and grow topics, without deregister: no topic
\* is deleted, so metadata never shows an earlier incarnation's partitions.
GrowMethods == {"init_client", "register_message_type", "add_concurrency"}

\* init_client alone.
InitMethods == {"init_client"}

\* The topic methods with delete, and without set_message_type_expire,
\* whose retention the baseline captured by init_client does not follow.
ContractMethods == TopicMethods \cup {"delete"}

\* One process, one caller: the adapter used sequentially.
OneCaller == {c1}
OneProc == {p1}
OneProcOf == [c \in OneCaller |-> p1]

\* Two processes, one caller each, sharing the cluster.
TwoCallers == {c1, c2}
TwoProcs == {p1, p2}
TwoProcsOf == [c \in TwoCallers |-> IF c = c1 THEN p1 ELSE p2]

\* One process whose adapter object two threads share.
SharedProcOf == [c \in TwoCallers |-> p1]

\* ret is written by every return and read only, primed, by the action
\* properties on that very step; no guard reads it, so states that differ
\* only in ret have the same futures.
MCView == <<clusterVars, adapterVars, pc, loc, abandoned, crashes>>

=============================================================================
