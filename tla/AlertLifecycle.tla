--------------------------- MODULE AlertLifecycle ---------------------------
(***************************************************************************)
(* From samples to alerts and their notices (backend/app/main.py):          *)
(* collect_monitoring_cycle evaluates every host in a thread of its own,    *)
(* one transaction each (persist_sample_and_evaluate), and dispatches what  *)
(* they return; administrators acknowledge and close alerts and switch      *)
(* rules on and off at any time.                                            *)
(*                                                                          *)
(* A transaction is its reading of the rules, of the samples, of the alerts *)
(* and its commit; between them others commit, among them those of a cycle  *)
(* that failed and whose threads go on.  Sending is NotificationDelivery.   *)
(***************************************************************************)
EXTENDS AlertBoard

CONSTANTS
    Cycles,        \* bound: cycles of which threads are running at a time
    Consecutive,   \* the column consecutive_samples
    MaxFaults      \* bound on failing transactions and dispatches and on crashes

ASSUME LimitsAssumption == Consecutive \in Nat \ {0} /\ MaxFaults \in Nat
ASSUME CyclesAssumption == Cycles \cap {"idle", "dispatching"} = {}

VARIABLES
    enabled,   \* the column of alert_rules
    streak,    \* how many latest samples of the host violate the rule, up to Consecutive
    monitor,   \* monitor_loop: running, or ended by an exception it does not catch
    cycle,     \* where the one holder of monitor_cycle_lock is: its threads, or its notices
    eval,      \* the evaluation of each host in each cycle
    order,     \* pairs of evaluations of a host: the sample of the first is older
    newer,     \* how many newer samples of the host have been committed, up to Consecutive
    outbox,    \* the notices dispatch_notifications is sending
    stray,     \* the notices that threads of a failed dispatch are still sending
    told,      \* history: those it has sent, handed to the retries or suppressed
    faults     \* how many of MaxFaults have happened

samples == <<streak, order, newer>>
lifecycle == <<enabled, samples, event, monitor, cycle, eval, told, outbox, stray, faults>>

-----------------------------------------------------------------------------
Kinds   == {"firing", "resolved"}
Stages  == {"none", "queued", "started", "judged", "selected", "done", "raised"}
Threads == Cycles \X Hosts

Evaluation == [stage : Stages,
               rules : SUBSET Rules,    \* the enabled rules it has read
               bad   : SUBSET Rules,    \* the rules its sample violates
               fires : SUBSET Rules,    \* those that fire, and then those it will INSERT
               ends  : SUBSET Events,   \* what it will set to resolved
               notices : SUBSET (Events \X Kinds)]   \* what it has returned

NoEvaluation == [stage |-> "none", rules |-> {}, bad |-> {}, fires |-> {}, ends |-> {},
                 notices |-> {}]

TypeOK ==
    /\ enabled \in [Rules -> BOOLEAN]
    /\ streak \in [Rules \X Hosts -> 0..Consecutive]
    /\ order \in [Hosts -> SUBSET (Cycles \X Cycles)]
    /\ newer \in [Threads -> 0..Consecutive]
    /\ event \in [Events -> Statuses]
    /\ monitor \in {"running", "ended"}
    /\ cycle \in Cycles \cup {"idle", "dispatching"}
    /\ eval \in [Threads -> Evaluation]
    /\ outbox \subseteq Events \X Kinds
    /\ stray \subseteq Events \X Kinds
    /\ told \subseteq Events \X Kinds
    /\ faults \in 0..MaxFaults

LifecycleInit ==
    /\ enabled = [r \in Rules |-> TRUE]
    /\ streak = [p \in Rules \X Hosts |-> 0]
    /\ order = [h \in Hosts |-> {}]
    /\ newer = [p \in Threads |-> 0]
    /\ BoardInit
    /\ monitor = "running"
    /\ cycle = "idle"
    /\ eval = [p \in Threads |-> NoEvaluation]
    /\ outbox = {}
    /\ stray = {}
    /\ told = {}
    /\ faults = 0

Unused(r, h) == {e \in Of(r, h) : event[e] = "none"}
Fresh(r, h)  == CHOOSE e \in Of(r, h) : event[e] = "none"

Fault == faults < MaxFaults /\ faults' = faults + 1

-----------------------------------------------------------------------------
(* One evaluation                                                           *)

Running(c, h) == eval[<<c, h>>].stage \in {"started", "judged", "selected"}

\* The sample is inserted and the enabled rules are read.  Bound: a host that is
\* given no alerts of a rule does not violate it.
EvalStart(c, h) ==
    /\ eval[<<c, h>>].stage = "queued"
    /\ \E bad \in SUBSET {r \in Rules : Of(r, h) # {}} :
          eval' = [eval EXCEPT ![<<c, h>>] =
                     [NoEvaluation EXCEPT !.stage = "started", !.bad = bad,
                                          !.rules = {r \in Rules : enabled[r]}]]
    /\ order' = [order EXCEPT ![h] = @ \cup {<<d, c>> : d \in {x \in Cycles : Running(x, h)}}]
    /\ UNCHANGED <<enabled, streak, newer, event, monitor, cycle, told, outbox, stray, faults>>

Capped(n) == IF n < Consecutive THEN n ELSE Consecutive

\* Fault: the query has no LIMIT.
SeenUnlimited(c, h, r) == IF r \notin eval[<<c, h>>].bad THEN 0 ELSE streak[<<r, h>>] + 1

\* How many latest samples violate the rule with the new one among them, which is
\* behind the newer ones that others have committed.
Seen(c, h, r) ==
    LET behind == newer[<<c, h>>] IN
    IF streak[<<r, h>>] < behind THEN streak[<<r, h>>]
    ELSE IF r \in eval[<<c, h>>].bad THEN Capped(streak[<<r, h>>] + 1) ELSE behind

EvalJudge(c, h) ==
    /\ eval[<<c, h>>].stage = "started"
    /\ eval' = [eval EXCEPT ![<<c, h>>] =
                   [@ EXCEPT !.stage = "judged",
                             !.fires = {r \in eval[<<c, h>>].rules :
                                            Seen(c, h, r) = Consecutive}]]
    /\ UNCHANGED <<enabled, samples, event, monitor, cycle, told, outbox, stray, faults>>

\* The active alert of each rule it has read, if any, decides what it writes.
EvalSelect(c, h) ==
    LET v == eval[<<c, h>>]
        fires == {r \in v.fires : ActiveOf(r, h) = {}}
        ends == {e \in Events : e[1] \in v.rules \ v.fires /\ e[2] = h /\ event[e] \in Active}
    IN
    /\ v.stage = "judged"
    /\ eval' = [eval EXCEPT ![<<c, h>>] = [NoEvaluation EXCEPT !.stage = "selected",
                                              !.bad = v.bad, !.fires = fires, !.ends = ends]]
    /\ UNCHANGED <<enabled, samples, event, monitor, cycle, told, outbox, stray, faults>>

\* alert_events_active_idx: another evaluation has inserted the alert meanwhile.
Collision(c, h) == \E r \in eval[<<c, h>>].fires : ActiveOf(r, h) # {}

\* What it inserts.  Bound: nothing when the alerts of the rule and host are used up.
Begun(c, h) == {Fresh(r, h) : r \in {x \in eval[<<c, h>>].fires : Unused(x, h) # {}}}

\* What a failed cycle has left behind returns to nobody.
Returns(c, h, stage, notices) ==
    /\ eval' = [eval EXCEPT ![<<c, h>>] =
                   IF cycle = c THEN [NoEvaluation EXCEPT !.stage = stage, !.notices = notices]
                   ELSE NoEvaluation]
    /\ order' = [order EXCEPT ![h] = {p \in @ : c \notin {p[1], p[2]}}]

\* Its sample is one newer sample for those that started before it.
Persists(c, h, begun, ended) ==
    /\ event' = [e \in Events |-> CASE e \in begun -> "firing"
                                    [] e \in ended -> "resolved"
                                    [] OTHER       -> event[e]]
    /\ streak' = [p \in Rules \X Hosts |-> IF p[2] = h THEN Seen(c, h, p[1]) ELSE streak[p]]
    /\ newer' = [p \in Threads |->
                   IF p = <<c, h>> THEN 0
                   ELSE IF p[2] = h /\ <<p[1], c>> \in order[h] THEN Capped(newer[p] + 1)
                   ELSE newer[p]]
    /\ Returns(c, h, "done", (begun \X {"firing"}) \cup (ended \X {"resolved"}))
    /\ UNCHANGED <<enabled, monitor, cycle, told, outbox, stray, faults>>

\* Fault: an alert whose condition is gone stays as it is.
CommitNeverEnds(c, h) ==
    /\ eval[<<c, h>>].stage = "selected" /\ ~Collision(c, h)
    /\ Persists(c, h, Begun(c, h), {})

\* Fault: there is no alert_events_active_idx.
CommitUnchecked(c, h) ==
    /\ eval[<<c, h>>].stage = "selected"
    /\ Persists(c, h, Begun(c, h), eval[<<c, h>>].ends)

EvalCommit(c, h) ==
    /\ eval[<<c, h>>].stage = "selected" /\ ~Collision(c, h)
    /\ Persists(c, h, Begun(c, h), eval[<<c, h>>].ends)

\* The transaction, its sample included, is undone.
Undone(c, h) ==
    /\ Returns(c, h, "raised", {})
    /\ newer' = [newer EXCEPT ![<<c, h>>] = 0]
    /\ UNCHANGED <<enabled, streak, event, monitor, cycle, told, outbox, stray>>

\* The index refuses an INSERT.
EvalCollides(c, h) ==
    /\ eval[<<c, h>>].stage = "selected" /\ Collision(c, h)
    /\ Undone(c, h)
    /\ UNCHANGED faults

\* Any other statement fails.
EvalRaises(c, h) ==
    /\ eval[<<c, h>>].stage \in {"queued", "started", "judged", "selected"}
    /\ Fault
    /\ Undone(c, h)

-----------------------------------------------------------------------------
(* The cycle                                                                *)

\* The notices of the evaluations that have committed.
Intents == UNION {eval[p].notices : p \in Threads}

Free == {c \in Cycles : \A h \in Hosts : eval[<<c, h>>].stage = "none"}

\* The loop or POST /api/monitoring/collect takes the lock and starts a thread
\* for each host, beside those left over from failed cycles.
Collect ==
    /\ cycle = "idle"
    /\ Free # {}
    /\ LET c == CHOOSE c \in Free : TRUE
       IN  /\ cycle' = c
           /\ eval' = [p \in Threads |-> IF p[1] = c THEN [NoEvaluation EXCEPT !.stage = "queued"]
                                          ELSE eval[p]]
    /\ UNCHANGED <<enabled, samples, event, monitor, told, outbox, stray, faults>>

CollectByLoop == monitor = "running" /\ Collect

\* gather raises with the first evaluation that does; the others go on and
\* commit, and what they return is dropped.  The loop catches database errors.
GatherRaises ==
    /\ cycle \in Cycles
    /\ \E h \in Hosts : eval[<<cycle, h>>].stage = "raised"
    /\ cycle' = "idle"
    /\ eval' = [p \in Threads |-> IF eval[p].stage \in {"done", "raised"}
                                    THEN NoEvaluation ELSE eval[p]]
    /\ UNCHANGED <<enabled, samples, event, monitor, told, outbox, stray, faults>>

\* Fault: the lock is given back before the notices are sent.
GatherReturnsUnlocked ==
    /\ cycle \in Cycles
    /\ \A h \in Hosts : eval[<<cycle, h>>].stage = "done"
    /\ cycle' = "idle"
    /\ outbox' = outbox \cup Intents
    /\ eval' = [p \in Threads |-> IF p[1] = cycle THEN NoEvaluation ELSE eval[p]]
    /\ UNCHANGED <<enabled, samples, event, monitor, told, stray, faults>>

\* Fault: the first host that is done ends the waiting for all.
GatherReturnsEarly ==
    /\ cycle \in Cycles
    /\ \E h \in Hosts : eval[<<cycle, h>>].stage = "done"
    /\ cycle' = "dispatching"
    /\ outbox' = outbox \cup Intents
    /\ eval' = [p \in Threads |-> IF eval[p].stage = "done" THEN NoEvaluation ELSE eval[p]]
    /\ UNCHANGED <<enabled, samples, event, monitor, told, stray, faults>>

GatherReturns ==
    /\ cycle \in Cycles
    /\ \A h \in Hosts : eval[<<cycle, h>>].stage = "done"
    /\ cycle' = "dispatching"
    /\ outbox' = outbox \cup Intents
    /\ eval' = [p \in Threads |-> IF p[1] = cycle THEN NoEvaluation ELSE eval[p]]
    /\ UNCHANGED <<enabled, samples, event, monitor, told, stray, faults>>

\* One of the notices has been sent, handed to the retries or suppressed.
Tell(n) ==
    /\ n \in outbox
    /\ outbox' = outbox \ {n}
    /\ told' = told \cup {n}
    /\ UNCHANGED <<enabled, samples, event, monitor, cycle, eval, stray, faults>>

DispatchReturns ==
    /\ cycle = "dispatching"
    /\ outbox = {}
    /\ cycle' = "idle"
    /\ UNCHANGED <<enabled, samples, event, monitor, eval, told, outbox, stray, faults>>

\* A notice raises, before the sendings begin or as one of them.  gather leaves
\* the others to their threads, which the lock does not wait for.  An exception
\* other than psycopg.Error, OSError and RuntimeError ends the loop.
DispatchRaises ==
    /\ cycle = "dispatching"
    /\ outbox # {}
    /\ Fault
    /\ cycle' = "idle"
    /\ monitor' \in {monitor, "ended"}
    /\ outbox' = {}
    /\ \E left \in SUBSET outbox : stray' = stray \cup left
    /\ UNCHANGED <<enabled, samples, event, eval, told>>

\* Such a thread is done.  One whose sending fails never is: nobody reads it.
StrayTells(n) ==
    /\ n \in stray
    /\ stray' = stray \ {n}
    /\ told' = told \cup {n}
    /\ UNCHANGED <<enabled, samples, event, monitor, cycle, eval, outbox, faults>>

\* The process dies or is restarted; nothing about alerts is repaired.
LifecycleRestart ==
    /\ Fault
    /\ monitor' = "running"
    /\ cycle' = "idle"
    /\ eval' = [p \in Threads |-> NoEvaluation]
    /\ order' = [h \in Hosts |-> {}] /\ newer' = [p \in Threads |-> 0]
    /\ outbox' = {} /\ stray' = {}
    /\ UNCHANGED <<enabled, streak, event, told>>

-----------------------------------------------------------------------------
(* Administrators                                                           *)

Acknowledge(e) ==
    /\ event[e] = "firing"
    /\ event' = [event EXCEPT ![e] = "acknowledged"]
    /\ UNCHANGED <<enabled, samples, monitor, cycle, eval, told, outbox, stray, faults>>

\* Closing a resolved alert, which adds only the record of who closed it, is left out.
Close(e) ==
    /\ event[e] \in Active
    /\ event' = [event EXCEPT ![e] = "resolved"]
    /\ UNCHANGED <<enabled, samples, monitor, cycle, eval, told, outbox, stray, faults>>

\* PUT /api/alert-rules/{id}: switching a rule off resolves its active alerts.
Enable(r) ==
    /\ ~enabled[r]
    /\ enabled' = [enabled EXCEPT ![r] = TRUE]
    /\ UNCHANGED <<samples, event, monitor, cycle, eval, told, outbox, stray, faults>>

Disable(r) ==
    /\ enabled' = [enabled EXCEPT ![r] = FALSE]
    /\ event' = [e \in Events |-> IF e[1] = r /\ event[e] \in Active
                                  THEN "resolved" ELSE event[e]]
    /\ UNCHANGED <<samples, monitor, cycle, eval, told, outbox, stray, faults>>

-----------------------------------------------------------------------------
EvalProceeds(c, h) ==
    \/ EvalStart(c, h) \/ EvalJudge(c, h) \/ EvalSelect(c, h)
    \/ EvalCommit(c, h) \/ EvalCollides(c, h)

EvalStep(c, h) == EvalProceeds(c, h) \/ EvalRaises(c, h)

AdminStep ==
    \/ \E e \in Events : Acknowledge(e) \/ Close(e)
    \/ \E r \in Rules : Enable(r) \/ Disable(r)

LifecycleStep ==
    \/ Collect
    \/ \E c \in Cycles, h \in Hosts : EvalStep(c, h)
    \/ GatherRaises \/ GatherReturns \/ DispatchReturns \/ DispatchRaises
    \/ \E n \in Events \X Kinds : Tell(n) \/ StrayTells(n)
    \/ AdminStep

LifecycleNext == LifecycleStep \/ LifecycleRestart

LifecycleSpec == LifecycleInit /\ [][LifecycleNext]_lifecycle

\* The loop runs its cycle while it lives, and statements and threads end.
LifecycleFairness ==
    /\ WF_lifecycle(CollectByLoop)
    /\ WF_lifecycle(GatherRaises)
    /\ WF_lifecycle(GatherReturns)
    /\ WF_lifecycle(DispatchReturns)
    /\ WF_lifecycle(\E n \in Events \X Kinds : Tell(n))
    /\ WF_lifecycle(\E c \in Cycles, h \in Hosts : EvalProceeds(c, h))

FairLifecycle == LifecycleSpec /\ LifecycleFairness

-----------------------------------------------------------------------------
(* Properties                                                               *)

\* Evaluations of one host by two cycles, acknowledgements, closings and rules
\* switched off interleave, and still an alert goes its one way and is alone:
\* alert_events_active_idx refuses what an evaluation would INSERT too late.
ImplementsAlertBoard == BoardSpec

\* The end of an alert is told before its beginning only where the beginning was
\* left to a thread of a dispatch that raised: it is sent outside the lock that
\* keeps cycles from overtaking each other's notices, and by nothing else.
NoticesInOrder ==
    [][\A e \in Events :
         <<e, "firing">> \in told' \ told /\ <<e, "resolved">> \in told
         => <<e, "firing">> \in stray]_lifecycle

\* Without a fault the alerts that have not been told are those of this cycle.
EveryAlertTold ==
    faults = 0 =>
        \A e \in Events : event[e] # "none" =>
            \/ <<e, "firing">> \in told \cup outbox
            \/ cycle \in Cycles /\ <<e, "firing">> \in Intents

\* While monitoring runs, an alert whose rule is on ends when the condition does,
\* and a lasting condition has an active alert again and again, whatever
\* administrators do in between (until the model has used up its alerts).
AlertsFollowSamples ==
    \A r \in Rules, h \in Hosts :
        LET on == enabled[r] /\ monitor = "running"
        IN  /\ <>[](on /\ streak[<<r, h>>] = 0) => <>[](ActiveOf(r, h) = {})
            /\ <>[](on /\ streak[<<r, h>>] = Consecutive) =>
                 []<>(ActiveOf(r, h) # {} \/ Unused(r, h) = {})
=============================================================================
