---------------------------- MODULE RetentionSpec ----------------------------
(***************************************************************************)
(* What the adapter promises about a topic's retention.ms, with every call *)
(* a single atomic step (the contract of delete in the design):            *)
(*                                                                         *)
(*  - set_message_type_expire sets it;                                     *)
(*  - a delete that succeeds leaves it as it was, except that a topic an   *)
(*    earlier purge left at the purge value gets the default back;         *)
(*  - a delete that fails, or whose process dies, may leave the topic at   *)
(*    the purge value: the failure is what reports it;                     *)
(*  - a topic that is created or deleted has the default.                  *)
(*                                                                         *)
(* busy[c] is the call caller c has begun and not finished, among those    *)
(* that touch the retention; result[c] is how c's last call ended.         *)
(***************************************************************************)
EXTENDS Naturals

CONSTANTS Topics, Callers, MinRetention, DefaultRetention, ExpireInputs,
          NoTopic

VARIABLES exists, retention, busy, result

vars == <<exists, retention, busy, result>>

Results == {"none", "ok", "error"}

NotBusy == [kind |-> "idle", topic |-> NoTopic]

Init ==
    /\ exists \in [Topics -> BOOLEAN]
    /\ retention = [t \in Topics |-> DefaultRetention]
    /\ busy = [c \in Callers |-> NotBusy]
    /\ result = [c \in Callers |-> "none"]

Begin(c) ==
    /\ busy[c] = NotBusy
    /\ \E k \in {"purge", "config"}, t \in Topics :
         busy' = [busy EXCEPT ![c] = [kind |-> k, topic |-> t]]
    /\ UNCHANGED <<exists, retention, result>>

\* The call returns without effect: an error, or for a configuration an
\* attempt budget spent without an error.
Abort(c) ==
    /\ busy[c] # NotBusy
    /\ busy' = [busy EXCEPT ![c] = NotBusy]
    /\ \E r \in IF busy[c].kind = "config" THEN {"ok", "error"}
                                              ELSE {"error"} :
         result' = [result EXCEPT ![c] = r]
    /\ UNCHANGED <<exists, retention>>

\* The request is not incremental: without expire_time_ms it resets the
\* retention to the default.
Configure(c) ==
    LET t == busy[c].topic IN
    /\ busy[c].kind = "config"
    /\ exists[t]
    /\ \E v \in ExpireInputs \cup {DefaultRetention} :
         retention' = [retention EXCEPT ![t] = v]
    /\ busy' = [busy EXCEPT ![c] = NotBusy]
    /\ result' = [result EXCEPT ![c] = "ok"]
    /\ UNCHANGED exists

PurgeOk(c) ==
    LET t == busy[c].topic IN
    /\ busy[c].kind = "purge"
    /\ exists[t]
    /\ retention' = [retention EXCEPT ![t] =
                       IF @ = MinRetention THEN DefaultRetention ELSE @]
    /\ busy' = [busy EXCEPT ![c] = NotBusy]
    /\ result' = [result EXCEPT ![c] = "ok"]
    /\ UNCHANGED exists

PurgeFail(c) ==
    LET t == busy[c].topic IN
    /\ busy[c].kind = "purge"
    /\ exists[t]
    /\ retention' = [retention EXCEPT ![t] = MinRetention]
    /\ busy' = [busy EXCEPT ![c] = NotBusy]
    /\ result' = [result EXCEPT ![c] = "error"]
    /\ UNCHANGED exists

\* The callers of S stop at once (their process died); the topic of each
\* purge among them keeps its retention or is left at the purge value.
Stop(S) ==
    /\ busy' = [c \in Callers |-> IF c \in S THEN NotBusy ELSE busy[c]]
    /\ result' = [c \in Callers |-> IF c \in S THEN "none" ELSE result[c]]
    /\ \A t \in Topics :
         \/ retention'[t] = retention[t]
         \/ /\ retention'[t] = MinRetention
            /\ \E c \in S : busy[c] = [kind |-> "purge", topic |-> t]
    /\ UNCHANGED exists

\* Any other call of a caller not in one of the calls above: it may create
\* or delete topics, which then have the default, and returns anything.
OtherCall(c) ==
    /\ busy[c] = NotBusy
    /\ exists' \in [Topics -> BOOLEAN]
    /\ retention' = [t \in Topics |->
                       IF exists'[t] # exists[t] THEN DefaultRetention
                                                 ELSE retention[t]]
    /\ \E r \in Results : result' = [result EXCEPT ![c] = r]
    /\ UNCHANGED busy

Next ==
    \/ \E c \in Callers :
         \/ Begin(c) \/ Abort(c) \/ Configure(c)
         \/ PurgeOk(c) \/ PurgeFail(c) \/ OtherCall(c)
    \/ \E S \in SUBSET Callers : Stop(S)

Spec == Init /\ [][Next]_vars

=============================================================================
