----------------------------- MODULE AlertBoard -----------------------------
(***************************************************************************)
(* What the rest of the platform relies on about alerts: the rows of        *)
(* alert_events (backend/app/main.py).  An alert begins firing, may be      *)
(* acknowledged and is resolved for good, and a rule has at most one active *)
(* alert on a host.  AlertLifecycle implements this; AlertEscalation reads  *)
(* nothing else.                                                            *)
(***************************************************************************)
EXTENDS Integers, FiniteSets

CONSTANTS
    Rules,         \* alert rules
    Hosts,
    MaxEvents      \* bound: alerts of one rule, by host

ASSUME MaxEventsAssumption == MaxEvents \in [Hosts -> Nat]

\* The k-th alert of a rule on a host, a row of alert_events.
Events == UNION {Rules \X {h} \X (1..MaxEvents[h]) : h \in Hosts}

VARIABLE event     \* the column status of alert_events

Statuses == {"none", "firing", "acknowledged", "resolved"}
Active   == {"firing", "acknowledged"}

Of(r, h)       == {e \in Events : e[1] = r /\ e[2] = h}
ActiveOf(r, h) == {e \in Of(r, h) : event[e] \in Active}

\* The successors of a status.
After(status) ==
    CASE status = "none"         -> {"firing"}
      [] status = "firing"       -> {"acknowledged", "resolved"}
      [] status = "acknowledged" -> {"resolved"}
      [] status = "resolved"     -> {}

\* alert_events_active_idx.
OneActiveAlert ==
    \A r \in Rules, h \in Hosts : \A d, e \in ActiveOf(r, h) : d = e

BoardInit == event = [e \in Events |-> "none"]

\* One transaction moves any number of alerts.
Move(moved) ==
    /\ \A e \in moved : event'[e] \in After(event[e])
    /\ \A e \in Events \ moved : event'[e] = event[e]
    /\ OneActiveAlert'

BoardStep ==
    /\ event' \in [Events -> Statuses]
    /\ \E moved \in (SUBSET Events) \ {{}} : Move(moved)

BoardSpec == BoardInit /\ [][BoardStep]_event
=============================================================================
