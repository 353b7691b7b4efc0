-------------------------- MODULE AlertEscalation --------------------------
(***************************************************************************)
(* The two loops that come back to alerts nobody has acknowledged           *)
(* (backend/app/main.py): reminders (notification_escalation_loop) and the  *)
(* escalation of overdue alerts (alert_ownership_sla_loop).  Each claims    *)
(* rows in one transaction, sends the messages one by one and records each  *)
(* result; an exception drops what is left of the list.  The alerts move as *)
(* AlertBoard allows, at any time.                                          *)
(***************************************************************************)
EXTENDS AlertBoard, Sequences

CONSTANTS
    MaxReminders,   \* notification_escalation_policy.max_reminders
    MaxFaults,      \* bound on failing rounds and restarts
    None            \* no reminder whose result is to be recorded

ASSUME ReminderAssumption ==
    MaxReminders \in Nat \ {0} /\ MaxFaults \in Nat /\ None \notin Events

VARIABLES
    reminder,    \* notification_escalations: the status of each numbered reminder
    toRemind,    \* reminders claimed and not yet sent
    sending,     \* the alert whose reminder is sent and not yet recorded
    breach,      \* alert_sla_escalations: the status
    toEscalate,  \* breaches claimed and not yet sent
    reminded,    \* history: reminders sent
    late,        \* history: reminders sent for an alert that was not firing any more
    escalated,   \* history: breach messages sent
    faults       \* how many of MaxFaults have happened

escalation ==
    <<reminder, toRemind, sending, breach, toEscalate, reminded, late, escalated, faults>>
vars == <<event, escalation>>

-----------------------------------------------------------------------------
\* The column status; "recorded" is sent, failed, suppressed or no_channel.
BreachStatuses == {"none", "queued", "recorded", "recovered"}

TypeOK ==
    /\ event \in [Events -> Statuses]
    /\ reminder \in [Events -> Seq({"queued", "recorded"})]
    /\ toRemind \subseteq Events
    /\ sending \in Events \cup {None}
    /\ breach \in [Events -> BreachStatuses]
    /\ toEscalate \subseteq Events
    /\ reminded \in [Events -> Nat]
    /\ late \in [Events -> Nat]
    /\ escalated \in [Events -> Nat]
    /\ faults \in 0..MaxFaults

Init ==
    /\ BoardInit
    /\ reminder = [e \in Events |-> <<>>]
    /\ toRemind = {}
    /\ sending = None
    /\ breach = [e \in Events |-> "none"]
    /\ toEscalate = {}
    /\ reminded = [e \in Events |-> 0]
    /\ late = [e \in Events |-> 0]
    /\ escalated = [e \in Events |-> 0]
    /\ faults = 0

Fault == faults < MaxFaults /\ faults' = faults + 1

Once(f, e) == [f EXCEPT ![e] = @ + 1]

-----------------------------------------------------------------------------
(* Reminders                                                                *)

\* Fault: an acknowledged alert is reminded of as well.
RemindableActive == {e \in Events : event[e] \in Active /\ Len(reminder[e]) < MaxReminders}

Remindable == {e \in Events : event[e] = "firing" /\ Len(reminder[e]) < MaxReminders}

\* Fault: a status that the table does not have.
ClaimRemindersPending ==
    /\ toRemind = {} /\ sending = None
    /\ \E due \in (SUBSET Remindable) \ {{}} :
          /\ toRemind' = due
          /\ reminder' = [e \in Events |-> IF e \in due THEN Append(reminder[e], "pending")
                                           ELSE reminder[e]]
    /\ UNCHANGED <<event, sending, breach, toEscalate, reminded, late, escalated, faults>>

\* The round claims those whose interval has passed and which no maintenance
\* window or inhibition holds back.
ClaimReminders ==
    /\ toRemind = {} /\ sending = None
    /\ \E due \in (SUBSET Remindable) \ {{}} :
          /\ toRemind' = due
          /\ reminder' = [e \in Events |-> IF e \in due THEN Append(reminder[e], "queued")
                                           ELSE reminder[e]]
    /\ UNCHANGED <<event, sending, breach, toEscalate, reminded, late, escalated, faults>>

\* dispatch_notifications returns; the alert is not read again before.
SendReminder(e) ==
    /\ e \in toRemind /\ sending = None
    /\ toRemind' = toRemind \ {e}
    /\ sending' = e
    /\ reminded' = Once(reminded, e)
    /\ late' = IF event[e] = "firing" THEN late ELSE Once(late, e)
    /\ UNCHANGED <<event, reminder, breach, toEscalate, escalated, faults>>

RecordReminder ==
    /\ sending # None
    /\ reminder' = [reminder EXCEPT ![sending][Len(reminder[sending])] = "recorded"]
    /\ sending' = None
    /\ UNCHANGED <<event, toRemind, breach, toEscalate, reminded, late, escalated, faults>>

\* Sending or recording raises; the loop starts its next round without the rest.
RemindersRaise ==
    /\ toRemind # {} \/ sending # None
    /\ Fault
    /\ toRemind' = {}
    /\ sending' = None
    /\ UNCHANGED <<event, reminder, breach, toEscalate, reminded, late, escalated>>

-----------------------------------------------------------------------------
(* Overdue alerts                                                           *)

Overdue == {e \in Events : event[e] = "firing" /\ breach[e] = "none"}

\* Fault: only recorded breaches recover.
RecoversRecorded(e) == breach[e] = "recorded" /\ event[e] # "firing"

Recovers(e) == breach[e] \in {"queued", "recorded"} /\ event[e] # "firing"

\* Past breaches recover, then the alerts past one of their deadlines are claimed.
ClaimBreaches ==
    /\ toEscalate = {}
    /\ \E past \in SUBSET Overdue :
          /\ toEscalate' = past
          /\ breach' = [e \in Events |-> IF e \in past THEN "queued"
                                         ELSE IF Recovers(e) THEN "recovered" ELSE breach[e]]
    /\ UNCHANGED <<event, reminder, toRemind, sending, reminded, late, escalated, faults>>

\* No channel is selected: there is no delivery to write, and the result is recorded.
EscalateUnrouted(e) ==
    /\ e \in toEscalate
    /\ toEscalate' = toEscalate \ {e}
    /\ breach' = [breach EXCEPT ![e] = "recorded"]
    /\ UNCHANGED <<event, reminder, toRemind, sending, reminded, late, escalated, faults>>

\* The message goes out (or is suppressed), and its row in notification_deliveries
\* is refused: the kind sla_breach is not one that the CHECK of the table allows.
EscalateRefused(e) ==
    /\ e \in toEscalate
    /\ toEscalate' = {}
    /\ escalated' \in {escalated, Once(escalated, e)}
    /\ UNCHANGED <<event, reminder, toRemind, sending, breach, reminded, late, faults>>

-----------------------------------------------------------------------------
ApiRestart ==
    /\ Fault
    /\ toRemind' = {}
    /\ sending' = None
    /\ toEscalate' = {}
    /\ UNCHANGED <<event, reminder, breach, reminded, late, escalated>>

ReminderStep == ClaimReminders \/ RecordReminder \/ RemindersRaise
                  \/ \E e \in Events : SendReminder(e)

BreachStep == ClaimBreaches \/ \E e \in Events : EscalateUnrouted(e) \/ EscalateRefused(e)

Next ==
    \/ BoardStep /\ UNCHANGED escalation
    \/ ReminderStep
    \/ BreachStep
    \/ ApiRestart

Spec == Init /\ [][Next]_vars

\* The loops catch every exception and never end; sendings time out.
Fairness ==
    /\ WF_vars(RecordReminder)
    /\ WF_vars(\E e \in Events : SendReminder(e))
    /\ WF_vars(ClaimBreaches)
    /\ WF_vars(\E e \in Events : EscalateUnrouted(e) \/ EscalateRefused(e))

FairSpec == Spec /\ Fairness

-----------------------------------------------------------------------------
(* Properties                                                               *)

\* An alert is reminded of at most MaxReminders times, and each numbered
\* reminder goes out at most once, over any number of rounds, failures and restarts.
RemindersBounded ==
    \A e \in Events : reminded[e] <= Len(reminder[e]) /\ Len(reminder[e]) <= MaxReminders

\* An acknowledgement or a recovery can come too late for the reminder that was
\* claimed before it, and for no other.
OneLateReminder == \A e \in Events : late[e] <= 1

\* An alert is escalated at most once.
OneEscalation == \A e \in Events : escalated[e] <= 1

\* Only a failure or a restart leaves the result of a reminder unrecorded.
RemindersRecorded ==
    faults = 0 /\ toRemind = {} /\ sending = None =>
        \A e \in Events, i \in 1..MaxReminders :
            i \in DOMAIN reminder[e] => reminder[e][i] = "recorded"

\* What is sent about an alert is bounded, over any number of rounds, failures
\* and restarts, and its result is kept unless one of these took it.
SendingsBounded == RemindersBounded /\ OneLateReminder /\ OneEscalation /\ RemindersRecorded

\* The breach of an alert that is no longer firing is closed in the end, also
\* one whose message raised.
BreachRecovers ==
    \A e \in Events :
        breach[e] \in {"queued", "recorded"} /\ event[e] # "firing" ~> breach[e] = "recovered"

\* README 3.0: the result of each escalation is kept.  Recording it always
\* raises when a channel is selected, and takes the rest of the list with it.
EscalationsRecorded ==
    toEscalate = {} => \A e \in Events : breach[e] # "queued"
=============================================================================
