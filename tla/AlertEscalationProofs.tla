----------------------- MODULE AlertEscalationProofs -----------------------
(***************************************************************************)
(* Theorems about AlertEscalation for every set of rules and hosts and any  *)
(* number of alerts, reminders, failures and restarts.  Inv ties the        *)
(* reminders sent to the rows written (Numbered), the ones that came too    *)
(* late to the course of the alert (Lateness), the breach messages to the   *)
(* breach (Escalated) and the rows without a result to the list in hand     *)
(* (Recorded).                                                              *)
(***************************************************************************)
EXTENDS AlertEscalation, SequenceTheorems, TLAPS

Marks == {"queued", "recorded"}

\* A reminder claimed and not yet sent has a row that none was sent under.
Numbered(e) ==
    /\ reminded[e] <= Len(reminder[e])
    /\ Len(reminder[e]) <= MaxReminders
    /\ e \in toRemind => reminded[e] < Len(reminder[e])
    /\ sending = e => Len(reminder[e]) > 0

\* Once a reminder came too late the alert is past firing, and none is claimed.
Lateness(e) ==
    /\ late[e] <= 1
    /\ event[e] \in {"none", "firing"} => late[e] = 0
    /\ e \in toRemind => event[e] # "none" /\ late[e] = 0

\* A message goes out only for a breach that was claimed and not yet sent.
Escalated(e) ==
    /\ escalated[e] <= 1
    /\ breach[e] = "none" => escalated[e] = 0
    /\ e \in toEscalate => escalated[e] = 0 /\ breach[e] # "none"

\* Without a fault only the reminders in hand have no result.
Recorded(e) ==
    faults = 0 =>
        \A i \in 1..Len(reminder[e]) :
            reminder[e][i] = "recorded" \/ (i = Len(reminder[e]) /\ (e \in toRemind \/ sending = e))

Inv ==
    /\ TypeOK
    /\ \A e \in Events : Numbered(e) /\ Lateness(e) /\ Escalated(e) /\ Recorded(e)

-----------------------------------------------------------------------------
\* A list of rows with one more at its end.
LEMMA Claimed ==
    ASSUME NEW s \in Seq(Marks)
    PROVE  /\ Append(s, "queued") \in Seq(Marks)
           /\ Len(Append(s, "queued")) = Len(s) + 1
           /\ \A i \in 1..Len(s) : Append(s, "queued")[i] = s[i]
BY DEF Marks

\* A list of rows with a result in its last one.
LEMMA Noted ==
    ASSUME NEW s \in Seq(Marks), Len(s) > 0
    PROVE  LET t == [s EXCEPT ![Len(s)] = "recorded"]
           IN  /\ t \in Seq(Marks)
               /\ Len(t) = Len(s)
               /\ t[Len(s)] = "recorded"
               /\ \A i \in 1..Len(s) : i # Len(s) => t[i] = s[i]
<1>1. Len(s) \in 1..Len(s) /\ "recorded" \in Marks
  BY DEF Marks
<1>. QED
  BY <1>1, ExceptSeq

\* The alerts move forward.
LEMMA Forward ==
    ASSUME TypeOK, BoardStep, NEW e \in Events
    PROVE  /\ event'[e] \in Statuses
           /\ event'[e] = "none" => event[e] = "none"
           /\ event'[e] = "firing" => event[e] \in {"none", "firing"}
<1>1. event'[e] \in Statuses
  BY DEF BoardStep
<1>2. event'[e] = event[e] \/ event'[e] \in After(event[e])
  BY DEF BoardStep, Move
<1>3. event[e] \in Statuses
  <2>1. event \in [Events -> Statuses]
    BY DEF TypeOK
  <2>. QED
    BY <2>1
<1>. QED
  BY <1>1, <1>2, <1>3 DEF After, Statuses

-----------------------------------------------------------------------------
\* The initial state satisfies the inductive invariant.
LEMMA InitInv == Init => Inv
<1>. SUFFICES ASSUME Init PROVE Inv
  OBVIOUS
<1>. USE ReminderAssumption DEF Init
<1>1. TypeOK
  BY DEF TypeOK, BoardInit, Statuses, BreachStatuses
<1>2. ASSUME NEW e \in Events PROVE Numbered(e) /\ Lateness(e) /\ Escalated(e) /\ Recorded(e)
  BY DEF Numbered, Lateness, Escalated, Recorded, BoardInit
<1>. QED
  BY <1>1, <1>2 DEF Inv

\* What a claim does to the list of each alert.
LEMMA ClaimRow ==
    ASSUME TypeOK, ClaimReminders, NEW e \in Events
    PROVE  /\ toRemind = {} /\ sending = None /\ sending' = None
           /\ toRemind' \subseteq Remindable
           /\ reminder'[e] = IF e \in toRemind' THEN Append(reminder[e], "queued")
                             ELSE reminder[e]
           /\ reminder[e] \in Seq(Marks)
BY DEF TypeOK, ClaimReminders, Marks

\* What recording a result does to the list of each alert.
LEMMA RecordRow ==
    ASSUME TypeOK, RecordReminder, NEW e \in Events
    PROVE  /\ sending \in Events /\ sending' = None
           /\ reminder'[e] = IF e = sending
                             THEN [reminder[e] EXCEPT ![Len(reminder[e])] = "recorded"]
                             ELSE reminder[e]
           /\ reminder[e] \in Seq(Marks)
BY DEF TypeOK, RecordReminder, Marks

\* No step writes a value outside the variables' types.
LEMMA TypeStep == Inv /\ [Next]_vars => TypeOK'
<1>. SUFFICES ASSUME Inv, [Next]_vars PROVE TypeOK'
  OBVIOUS
<1>0. TypeOK /\ \A e \in Events : Numbered(e)
  BY DEF Inv
<1>. USE <1>0, ReminderAssumption
<1>1. CASE BoardStep /\ UNCHANGED escalation
  BY <1>1 DEF BoardStep, escalation, TypeOK
<1>2. CASE ClaimReminders
  <2>1. reminder' \in [Events -> Seq(Marks)]
    <3>1. \A e \in Events : reminder'[e] \in Seq(Marks)
      BY <1>2, ClaimRow, Claimed
    <3>. QED
      BY <1>2, <3>1 DEF ClaimReminders
  <2>. QED
    BY <1>2, <2>1 DEF ClaimReminders, TypeOK, Marks, Remindable
<1>3. CASE RecordReminder
  <2>1. reminder' \in [Events -> Seq(Marks)]
    <3>1. \A e \in Events : reminder'[e] \in Seq(Marks)
      BY <1>3, RecordRow, Noted DEF Numbered
    <3>2. DOMAIN reminder' = Events /\ reminder' = [e \in Events |-> reminder'[e]]
      BY <1>3 DEF RecordReminder, TypeOK
    <3>. QED
      BY <3>1, <3>2
  <2>. QED
    BY <1>3, <2>1 DEF RecordReminder, TypeOK, Marks
<1>4. ASSUME NEW e \in Events, SendReminder(e) PROVE TypeOK'
  BY <1>4 DEF SendReminder, Once, TypeOK
<1>5. CASE RemindersRaise
  BY <1>5 DEF RemindersRaise, Fault, TypeOK
<1>6. CASE ClaimBreaches
  BY <1>6 DEF ClaimBreaches, Overdue, TypeOK, BreachStatuses
<1>7. ASSUME NEW e \in Events, EscalateUnrouted(e) PROVE TypeOK'
  BY <1>7 DEF EscalateUnrouted, TypeOK, BreachStatuses
<1>8. ASSUME NEW e \in Events, EscalateRefused(e) PROVE TypeOK'
  BY <1>8 DEF EscalateRefused, Once, TypeOK
<1>9. CASE ApiRestart
  BY <1>9 DEF ApiRestart, Fault, TypeOK
<1>10. CASE UNCHANGED vars
  BY <1>10 DEF vars, escalation, TypeOK
<1>. QED
  BY <1>1, <1>2, <1>3, <1>4, <1>5, <1>6, <1>7, <1>8, <1>9, <1>10
     DEF Next, ReminderStep, BreachStep

\* A reminder has a row of its own, within the limit.
LEMMA NumberedStep == Inv /\ [Next]_vars => \A e \in Events : Numbered(e)'
<1>. SUFFICES ASSUME Inv, [Next]_vars, NEW e \in Events PROVE Numbered(e)'
  OBVIOUS
<1>0. TypeOK /\ Numbered(e) /\ e # None
  BY ReminderAssumption DEF Inv
<1>. USE <1>0, ReminderAssumption
<1>1. reminder[e] \in Seq(Marks) /\ Len(reminder[e]) \in Nat /\ reminded[e] \in Nat
  BY DEF TypeOK, Marks
<1>2. CASE ClaimReminders
  <2>1. reminded' = reminded
    BY <1>2 DEF ClaimReminders
  <2>2. CASE e \in toRemind'
    <3>1. Len(reminder[e]) < MaxReminders
      BY <1>2, <2>2, ClaimRow DEF Remindable
    <3>2. Len(reminder'[e]) = Len(reminder[e]) + 1
      BY <1>1, <1>2, <2>2, ClaimRow, Claimed
    <3>3. sending' = None
      BY <1>2, ClaimRow
    <3>. QED
      BY <1>1, <2>1, <3>1, <3>2, <3>3 DEF Numbered
  <2>3. CASE e \notin toRemind'
    BY <1>1, <1>2, <2>1, <2>3, ClaimRow DEF Numbered
  <2>. QED
    BY <2>2, <2>3
<1>3. CASE RecordReminder
  <2>1. Len(reminder'[e]) = Len(reminder[e])
    BY <1>1, <1>3, RecordRow, Noted DEF Numbered
  <2>. QED
    BY <1>3, <2>1 DEF RecordReminder, Numbered
<1>4. ASSUME NEW x \in Events, SendReminder(x) PROVE Numbered(e)'
  BY <1>1, <1>4 DEF SendReminder, Once, Numbered, TypeOK
<1>5. ASSUME reminder' = reminder, reminded' = reminded, toRemind' \subseteq toRemind,
             sending' \in {sending, None}
      PROVE  Numbered(e)'
  BY <1>5 DEF Numbered
<1>6. ASSUME ~ClaimReminders, ~RecordReminder, \A x \in Events : ~SendReminder(x)
      PROVE  /\ reminder' = reminder /\ reminded' = reminded /\ toRemind' \subseteq toRemind
             /\ sending' \in {sending, None}
  BY <1>6 DEF Next, ReminderStep, BreachStep, RemindersRaise, ClaimBreaches, EscalateUnrouted,
              EscalateRefused, ApiRestart, vars, escalation
<1>. QED
  BY <1>2, <1>3, <1>4, <1>5, <1>6

\* A reminder is late once at most.
LEMMA LatenessStep == Inv /\ [Next]_vars => \A e \in Events : Lateness(e)'
<1>. SUFFICES ASSUME Inv, [Next]_vars, NEW e \in Events PROVE Lateness(e)'
  OBVIOUS
<1>0. TypeOK /\ Lateness(e)
  BY DEF Inv
<1>. USE <1>0
<1>1. CASE BoardStep /\ UNCHANGED escalation
  BY <1>1, Forward DEF Lateness, escalation
<1>2. CASE ClaimReminders
  BY <1>2 DEF ClaimReminders, Remindable, Lateness
<1>3. ASSUME NEW x \in Events, SendReminder(x) PROVE Lateness(e)'
  BY <1>3 DEF SendReminder, Once, Lateness, TypeOK
<1>4. ASSUME event' = event, late' = late, toRemind' \subseteq toRemind PROVE Lateness(e)'
  BY <1>4 DEF Lateness
<1>5. ASSUME ~(BoardStep /\ UNCHANGED escalation), ~ClaimReminders,
             \A x \in Events : ~SendReminder(x)
      PROVE  event' = event /\ late' = late /\ toRemind' \subseteq toRemind
  BY <1>5 DEF Next, ReminderStep, BreachStep, RecordReminder, RemindersRaise, ClaimBreaches,
              EscalateUnrouted, EscalateRefused, ApiRestart, vars, escalation
<1>. QED
  BY <1>1, <1>2, <1>3, <1>4, <1>5

\* A breach is sent once at most.
LEMMA EscalatedStep == Inv /\ [Next]_vars => \A e \in Events : Escalated(e)'
<1>. SUFFICES ASSUME Inv, [Next]_vars, NEW e \in Events PROVE Escalated(e)'
  OBVIOUS
<1>0. TypeOK /\ Escalated(e)
  BY DEF Inv
<1>. USE <1>0
<1>1. CASE ClaimBreaches
  BY <1>1 DEF ClaimBreaches, Overdue, Recovers, Escalated, TypeOK
<1>2. ASSUME NEW x \in Events, EscalateUnrouted(x) PROVE Escalated(e)'
  BY <1>2 DEF EscalateUnrouted, Escalated, TypeOK
<1>3. ASSUME NEW x \in Events, EscalateRefused(x) PROVE Escalated(e)'
  <2>1. escalated[x] = 0 /\ breach[x] # "none"
    BY <1>0, <1>3 DEF EscalateRefused, Escalated, Inv
  <2>2. escalated'[e] = escalated[e] \/ (e = x /\ escalated'[e] = escalated[e] + 1)
    BY <1>3 DEF EscalateRefused, Once, TypeOK
  <2>. QED
    BY <1>3, <2>1, <2>2 DEF EscalateRefused, Escalated
<1>4. ASSUME breach' = breach, escalated' = escalated, toEscalate' \subseteq toEscalate
      PROVE  Escalated(e)'
  BY <1>4 DEF Escalated
<1>5. ASSUME ~BreachStep
      PROVE  breach' = breach /\ escalated' = escalated /\ toEscalate' \subseteq toEscalate
  BY <1>5 DEF Next, ReminderStep, ClaimReminders, SendReminder, RecordReminder,
              RemindersRaise, ApiRestart, vars, escalation
<1>. QED
  BY <1>1, <1>2, <1>3, <1>4, <1>5 DEF BreachStep

\* Every result is recorded before the next reminder.
LEMMA RecordedStep == Inv /\ [Next]_vars => \A e \in Events : Recorded(e)'
<1>. SUFFICES ASSUME Inv, [Next]_vars, NEW e \in Events, faults' = 0 PROVE Recorded(e)'
  BY DEF Recorded
<1>0. TypeOK /\ Numbered(e) /\ Recorded(e) /\ e # None
  BY ReminderAssumption DEF Inv
<1>. USE <1>0
<1>1. reminder[e] \in Seq(Marks) /\ Len(reminder[e]) \in Nat
  BY DEF TypeOK, Marks
<1>2. ~RemindersRaise /\ ~ApiRestart
  BY DEF RemindersRaise, ApiRestart, Fault, TypeOK
<1>3. CASE ClaimReminders
  <2>1. faults' = faults
    BY <1>3 DEF ClaimReminders
  <2>2. \A i \in 1..Len(reminder[e]) : reminder[e][i] = "recorded"
    BY <1>3, <2>1, ClaimRow DEF Recorded
  <2>3. CASE e \in toRemind'
    <3>1. reminder'[e] = Append(reminder[e], "queued")
      BY <1>3, <2>3, ClaimRow
    <3>2. /\ Len(reminder'[e]) = Len(reminder[e]) + 1
          /\ \A i \in 1..Len(reminder[e]) : reminder'[e][i] = "recorded"
      BY <1>1, <2>2, <3>1, Claimed
    <3>. QED
      BY <1>1, <2>3, <3>2 DEF Recorded
  <2>4. CASE e \notin toRemind'
    <3>1. reminder'[e] = reminder[e]
      BY <1>3, <2>4, ClaimRow
    <3>. QED
      BY <2>2, <3>1 DEF Recorded
  <2>. QED
    BY <2>3, <2>4
<1>4. CASE RecordReminder
  <2>1. faults' = faults /\ toRemind' = toRemind
    BY <1>4 DEF RecordReminder
  <2>2. CASE e = sending
    <3>1. Len(reminder[e]) > 0
      BY <2>2 DEF Numbered
    <3>2. reminder'[e] = [reminder[e] EXCEPT ![Len(reminder[e])] = "recorded"]
      BY <1>4, <2>2, RecordRow
    <3>3. /\ Len(reminder'[e]) = Len(reminder[e])
          /\ reminder'[e][Len(reminder[e])] = "recorded"
          /\ \A i \in 1..Len(reminder[e]) :
                i # Len(reminder[e]) => reminder'[e][i] = reminder[e][i]
      BY <1>1, <3>1, <3>2, Noted
    <3>. QED
      BY <2>1, <3>3 DEF Recorded
  <2>3. CASE e # sending
    BY <1>1, <1>4, <2>1, <2>3, RecordRow DEF Recorded
  <2>. QED
    BY <2>2, <2>3
<1>5. ASSUME NEW x \in Events, SendReminder(x) PROVE Recorded(e)'
  BY <1>5 DEF SendReminder, Recorded
<1>6. ASSUME UNCHANGED <<reminder, toRemind, sending, faults>> PROVE Recorded(e)'
  BY <1>6 DEF Recorded
<1>7. ASSUME ~ClaimReminders, ~RecordReminder, \A x \in Events : ~SendReminder(x)
      PROVE  UNCHANGED <<reminder, toRemind, sending, faults>>
  BY <1>2, <1>7 DEF Next, ReminderStep, BreachStep, ClaimBreaches, EscalateUnrouted,
                    EscalateRefused, vars, escalation
<1>. QED
  BY <1>3, <1>4, <1>5, <1>6, <1>7

\* The inductive invariant holds in every reachable state.
LEMMA Invariance == Spec => []Inv
<1>1. Inv /\ [Next]_vars => Inv'
  BY TypeStep, NumberedStep, LatenessStep, EscalatedStep, RecordedStep DEF Inv
<1>. QED
  BY <1>1, InitInv, PTL DEF Spec

-----------------------------------------------------------------------------
\* The tables keep to their CHECKs through every round, failure and restart.
THEOREM TypeCorrect == Spec => []TypeOK
<1>1. Inv => TypeOK
  BY DEF Inv
<1>. QED
  BY <1>1, Invariance, PTL

\* No alert is reminded of more often than the policy allows, and no numbered
\* reminder is sent twice by claim_escalation_reminders and its loop.
THEOREM Reminders == Spec => []RemindersBounded
<1>1. Inv => RemindersBounded
  BY DEF Inv, RemindersBounded, Numbered
<1>. QED
  BY <1>1, Invariance, PTL

\* At most one reminder of an alert is sent after its acknowledgement or recovery.
THEOREM LateOnce == Spec => []OneLateReminder
<1>1. Inv => OneLateReminder
  BY DEF Inv, OneLateReminder, Lateness
<1>. QED
  BY <1>1, Invariance, PTL

\* alert_ownership_sla_loop sends at most one message for an alert.
THEOREM EscalatedOnce == Spec => []OneEscalation
<1>1. Inv => OneEscalation
  BY DEF Inv, OneEscalation, Escalated
<1>. QED
  BY <1>1, Invariance, PTL

\* Between two rounds without a failure every reminder has its result.
THEOREM ResultsKept == Spec => []RemindersRecorded
<1>1. ASSUME Inv, faults = 0, toRemind = {}, sending = None, NEW e \in Events,
             NEW i \in 1..MaxReminders, i \in DOMAIN reminder[e]
      PROVE  reminder[e][i] = "recorded"
  <2>1. TypeOK /\ Recorded(e) /\ e # None
    BY <1>1, ReminderAssumption DEF Inv
  <2>2. DOMAIN reminder[e] = 1..Len(reminder[e])
    BY <2>1 DEF TypeOK
  <2>. QED
    BY <1>1, <2>1, <2>2 DEF Recorded
<1>2. Inv => RemindersRecorded
  BY <1>1 DEF RemindersRecorded
<1>. QED
  BY <1>2, Invariance, PTL

\* All of it together, as the run of this module checks it.
THEOREM Bounded == Spec => []SendingsBounded
<1>1. RemindersBounded /\ OneLateReminder /\ OneEscalation /\ RemindersRecorded => SendingsBounded
  BY DEF SendingsBounded
<1>. QED
  BY <1>1, Reminders, LateOnce, EscalatedOnce, ResultsKept, PTL
=============================================================================
