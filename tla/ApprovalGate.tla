---------------------------- MODULE ApprovalGate ----------------------------
(***************************************************************************)
(* What the maintenance centre promises an administrator, with no database, *)
(* queue, worker or clock in sight: a command reaches a host only for a     *)
(* task that was requested, granted by somebody (by a second person when    *)
(* the runbook is sensitive), released for execution and then dispatched,   *)
(* in this order, and each task is dispatched once in its life.             *)
(* MaintenanceTasks implements it under the mapping given there.            *)
(***************************************************************************)
CONSTANTS Tasks, Users, Nobody

VARIABLES
    gate,   \* what has been decided about each task
    begun   \* the tasks of which some command has been sent to a host

vars == <<gate, begun>>

Stages == {"unknown", "requested", "granted", "released", "dispatched", "closed"}

Decision == [stage     : Stages,
             sensitive : BOOLEAN,
             requester : Users \cup {Nobody},
             approver  : Users \cup {Nobody}]

TypeOK == gate \in [Tasks -> Decision] /\ begun \subseteq Tasks

Init ==
    /\ gate = [t \in Tasks |-> [stage |-> "unknown", sensitive |-> FALSE,
                                requester |-> Nobody, approver |-> Nobody]]
    /\ begun = {}

Request(t, u, s) ==
    /\ gate[t].stage = "unknown"
    /\ gate' = [gate EXCEPT ![t] = [stage |-> "requested", sensitive |-> s,
                                    requester |-> u, approver |-> Nobody]]
    /\ UNCHANGED begun

Grant(t, u) ==
    /\ gate[t].stage = "requested"
    /\ gate[t].sensitive => u # gate[t].requester
    /\ gate' = [gate EXCEPT ![t] = [stage |-> "granted", sensitive |-> @.sensitive,
                                    requester |-> @.requester, approver |-> u]]
    /\ UNCHANGED begun

Release(t) ==
    /\ gate[t].stage = "granted"
    /\ gate' = [gate EXCEPT ![t].stage = "released"]
    /\ UNCHANGED begun

Dispatch(t) ==
    /\ gate[t].stage = "released"
    /\ gate' = [gate EXCEPT ![t].stage = "dispatched"]
    /\ UNCHANGED begun

\* Rejected, expired or withdrawn before a worker took it: for good.
Close(t) ==
    /\ gate[t].stage \in {"requested", "granted", "released"}
    /\ gate' = [gate EXCEPT ![t].stage = "closed"]
    /\ UNCHANGED begun

BeginOnHost(t) ==
    /\ gate[t].stage = "dispatched"
    /\ begun' = begun \cup {t}
    /\ UNCHANGED gate

Next ==
    \E t \in Tasks :
        \/ \E u \in Users : \/ \E s \in BOOLEAN : Request(t, u, s)
                            \/ Grant(t, u)
        \/ Release(t) \/ Dispatch(t) \/ Close(t) \/ BeginOnHost(t)

Spec == Init /\ [][Next]_vars
=============================================================================
