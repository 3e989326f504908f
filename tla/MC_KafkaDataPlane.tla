------------------------- MODULE MC_KafkaDataPlane -------------------------
(***************************************************************************)
(* Model-checking instance of KafkaDataPlane, on top of the constants of   *)
(* MC_KafkaMessageBroker.                                                  *)
(***************************************************************************)
EXTENDS MC_KafkaMessageBroker, KafkaDataPlane

\* The data plane, and delete, whose purge acts on the topic's messages.
DataMethods == {"init_client", "send", "receive", "ack", "delete"}

\* send and the producer's set-up only.
SendMethods == {"init_client", "send"}

\* Sending, then purging.
PurgeMethods == {"init_client", "send", "delete"}

\* As MCView, ret left out for the same reason.
DataView == <<MCView, dataVars>>

=============================================================================
