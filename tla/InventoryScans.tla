--------------------------- MODULE InventoryScans ---------------------------
(***************************************************************************)
(* The three inspections of all hosts (backend/app/main.py): assets,        *)
(* updates and security baseline.  They are the same code three times, but  *)
(* for what calls for an alert: a loop and the administrators' requests     *)
(* share a lock, scan the hosts in parallel, record each result and then,   *)
(* some awaits later, its alert.  When one scan raises, asyncio.gather      *)
(* does, and the others go on after the lock is free again.  The notices of *)
(* the alerts, and an error of finish_automation_run itself, are left out.  *)
(***************************************************************************)
EXTENDS Naturals, FiniteSets

CONSTANTS
    Hosts,
    Callers,    \* who starts cycles
    Loop,       \* the one that is the scheduled loop
    Values,     \* what a scan may find; more is worse
    Threshold,  \* from where on the finding itself is reason for an alert
    MaxDrift,   \* bound on the changes of the hosts and of the rule
    MaxManual,  \* bound on the administrators' requests
    MaxFaults,  \* bound on database errors, failing messages and restarts
    None

ASSUME ScansAssumption ==
    /\ Loop \in Callers /\ None \notin Callers \cup Values
    /\ Values \subseteq Nat /\ 0 \in Values /\ Threshold \in Nat
    /\ MaxDrift \in Nat /\ MaxManual \in Nat /\ MaxFaults \in Nat

VARIABLES
    job,         \* which of the three inspections this is
    truth,       \* external: what a scan of the host would find
    rule,        \* alert_rules.enabled of the inspection's rule
    baseline,    \* host_*_scans: what the last successful scan found
    lastOk,      \* host_*_scans: was the last scan successful?
    alert,       \* hosts with an active alert of the rule
    holder,      \* asyncio.Lock of the inspection
    cycle,       \* where each caller is
    ended,       \* the loop's task is over: a cycle of its raised what it does not catch
    inventory,   \* the hosts each caller has loaded
    scan,        \* where each scan of a cycle is
    run,         \* automation_runs.status of each caller's cycle, none before it has the lock
    verdict,     \* history: did the last recorded scan of the host call for an alert?
    scanned,     \* history: hosts that succeeded in the caller's cycle
    missed,      \* history: hosts whose alert is not of the last verdict: it did not arrive,
                 \* or the alert was closed by hand or with its rule since
    overlapped,  \* history: hosts scanned by two cycles at a time, and not alone since
    drift, manual, faults  \* how many of the bounds are used

hostVars  == <<truth, rule, alert>>
cycleVars == <<holder, cycle, ended, inventory, run>>
rowVars   == <<baseline, lastOk, verdict>>
scanVars  == <<rowVars, scan, scanned>>
vars == <<job, hostVars, cycleVars, scanVars, missed, overlapped, drift, manual, faults>>

-----------------------------------------------------------------------------
Jobs       == {"asset", "patch", "security"}
Runs       == {"none", "running", "success", "partial", "failed"}
Scanning   == {"probing", "quiet", "fires"}
ScanStages == Scanning \cup {"no", "raised"}

TypeOK ==
    /\ job \in Jobs /\ rule \in BOOLEAN
    /\ truth \in [Hosts -> Values]
    /\ baseline \in [Hosts -> Values \cup {None}]
    /\ lastOk \in [Hosts -> BOOLEAN]
    /\ alert \subseteq Hosts
    /\ holder \in Callers \cup {None}
    /\ cycle \in [Callers -> {"idle", "waiting", "scanning", "dispatching", "failing"}]
    /\ ended \in BOOLEAN
    /\ inventory \in [Callers -> SUBSET Hosts]
    /\ scan \in [Callers \X Hosts -> ScanStages]
    /\ run \in [Callers -> Runs]
    /\ verdict \in [Hosts -> BOOLEAN]
    /\ scanned \in [Callers -> SUBSET Hosts]
    /\ missed \subseteq Hosts /\ overlapped \subseteq Hosts
    /\ drift \in 0..MaxDrift /\ manual \in 0..MaxManual /\ faults \in 0..MaxFaults

Init ==
    /\ job \in Jobs /\ rule = TRUE
    /\ truth = [h \in Hosts |-> 0]
    /\ baseline = [h \in Hosts |-> None]
    /\ lastOk = [h \in Hosts |-> FALSE]
    /\ alert = {}
    /\ holder = None
    /\ cycle = [c \in Callers |-> "idle"] /\ ended = FALSE
    /\ inventory = [c \in Callers |-> {}]
    /\ scan = [p \in Callers \X Hosts |-> "no"]
    /\ run = [c \in Callers |-> "none"]
    /\ verdict = [h \in Hosts |-> FALSE]
    /\ scanned = [c \in Callers |-> {}]
    /\ missed = {} /\ overlapped = {}
    /\ drift = 0 /\ manual = 0 /\ faults = 0

Fault == faults < MaxFaults /\ faults' = faults + 1
Drift == drift < MaxDrift /\ drift' = drift + 1

\* compare_asset_snapshots: the first scan is the baseline, and leaves the alert as it is.
Drifted(found, before) == before # None /\ found # before
\* security_regression_count: a check is worse than in the scan before.
Regressed(found, before) == before # None /\ found > before

\* The updates of the host reach the threshold of the policy.
Missing(found) == found >= Threshold

\* The score is below the minimum, or a check is worse.
Insecure(found, before) == found >= Threshold \/ Regressed(found, before)

UnderWay(h) == {c \in Callers : scan[<<c, h>>] \in Scanning}

\* Hosts whose verdict is on its way to the alert table.
Untold == {h \in Hosts : \E c \in Callers : scan[<<c, h>>] \in {"quiet", "fires"}}

-----------------------------------------------------------------------------
(* The hosts and the rule, at any time                                      *)

HostDrifts(h) ==
    /\ Drift
    /\ \E found \in Values \ {truth[h]} : truth' = [truth EXCEPT ![h] = found]
    /\ UNCHANGED <<job, rule, alert, cycleVars, scanVars, missed, overlapped, manual, faults>>

\* update_alert_rule; switching the rule off resolves its alerts.
SwitchRule ==
    /\ Drift
    /\ rule' = ~rule
    /\ alert' = {}
    /\ missed' = Hosts
    /\ UNCHANGED <<job, truth, cycleVars, scanVars, overlapped, manual, faults>>

\* close_incident: an administrator resolves the alert, whatever the host is like.
CloseIncident(h) ==
    /\ h \in alert
    /\ alert' = alert \ {h}
    /\ missed' = missed \cup {h}
    /\ UNCHANGED <<job, truth, rule, cycleVars, scanVars, overlapped, drift, manual, faults>>

-----------------------------------------------------------------------------
(* Cycles                                                                   *)

\* The lock is seen free and the inventory is loaded in an await; the scans that
\* a failed cycle of this caller has left over have ended (a bound).
Begins(c, hosts) ==
    /\ cycle[c] = "idle" /\ holder = None
    /\ \A h \in Hosts : scan[<<c, h>>] \notin Scanning
    /\ inventory' = [inventory EXCEPT ![c] = hosts]
    /\ UNCHANGED <<job, hostVars, baseline, lastOk, verdict, missed, drift, faults>>

Waits(c) ==
    /\ cycle' = [cycle EXCEPT ![c] = "waiting"]
    /\ run' = [run EXCEPT ![c] = "none"]
    /\ UNCHANGED <<holder, ended, scan, scanned, overlapped>>

\* start_automation_run inserts the row; a scan of each host begins.
Acquires(c, hosts) ==
    /\ holder = None /\ holder' = c
    /\ cycle' = [cycle EXCEPT ![c] = "scanning"]
    /\ run' = [run EXCEPT ![c] = "running"]
    /\ scan' = [p \in DOMAIN scan |-> IF p[1] # c THEN scan[p]
                                      ELSE IF p[2] \in hosts THEN "probing" ELSE "no"]
    /\ scanned' = [scanned EXCEPT ![c] = {}]
    /\ overlapped' = overlapped \cup {h \in hosts : UnderWay(h) # {}}

LoopBegins == ~ended /\ Begins(Loop, Hosts) /\ Waits(Loop) /\ UNCHANGED manual

Asked(c) == c # Loop /\ manual < MaxManual /\ manual' = manual + 1

AdminBegins(c, hosts) == Asked(c) /\ Begins(c, hosts) /\ Waits(c)

\* run_automation_job loads the inventory first, and then does not wait.
RunJob(c) == Asked(c) /\ Begins(c, Hosts) /\ Acquires(c, Hosts) /\ UNCHANGED ended

\* Others may have been waiting too.
Acquire(c) ==
    /\ cycle[c] = "waiting"
    /\ Acquires(c, inventory[c])
    /\ UNCHANGED <<job, hostVars, ended, inventory, baseline, lastOk, verdict, missed, drift,
                   manual, faults>>

\* Fault: the lock is taken and not given back.
ReleasesRowOnly(c, status) ==
    /\ cycle' = [cycle EXCEPT ![c] = "idle"]
    /\ run' = [run EXCEPT ![c] = status]
    /\ inventory' = [inventory EXCEPT ![c] = {}]
    /\ scanned' = [scanned EXCEPT ![c] = {}]
    /\ UNCHANGED holder

\* The lock is released with the last statement of the cycle, and what it knew is gone.
Releases(c, status) ==
    /\ holder' = None
    /\ cycle' = [cycle EXCEPT ![c] = "idle"]
    /\ run' = [run EXCEPT ![c] = status]
    /\ inventory' = [inventory EXCEPT ![c] = {}]
    /\ scanned' = [scanned EXCEPT ![c] = {}]

GatherReturns(c) ==
    /\ cycle[c] = "scanning"
    /\ \A h \in Hosts : scan[<<c, h>>] = "no"
    /\ cycle' = [cycle EXCEPT ![c] = "dispatching"]
    /\ UNCHANGED <<job, hostVars, holder, ended, inventory, run, scanVars, missed, overlapped,
                   drift, manual, faults>>

\* The notices of all hosts are lost with the one that raised.
GatherRaises(c) ==
    /\ cycle[c] = "scanning"
    /\ \E h \in Hosts : scan[<<c, h>>] = "raised"
    /\ cycle' = [cycle EXCEPT ![c] = "failing"]
    /\ UNCHANGED <<job, hostVars, holder, ended, inventory, run, scanVars, missed, overlapped,
                   drift, manual, faults>>

DispatchRaises(c) ==
    /\ cycle[c] = "dispatching" /\ Fault
    /\ cycle' = [cycle EXCEPT ![c] = "failing"]
    /\ UNCHANGED <<job, hostVars, holder, ended, inventory, run, scanVars, missed, overlapped,
                   drift, manual>>

\* What was raised goes on to the caller.  The loop survives four classes of it.
FinishFailed(c) ==
    /\ cycle[c] = "failing"
    /\ Releases(c, "failed")
    /\ ended' \in {ended, ended \/ c = Loop}
    /\ UNCHANGED <<job, hostVars, rowVars, scan, missed, overlapped, drift, manual, faults>>

\* Fault: a status that the CHECK of automation_runs does not know.
FinishIncomplete(c) ==
    LET ok == {h \in inventory[c] : lastOk[h]} IN
    /\ cycle[c] = "dispatching"
    /\ Releases(c, IF ok = inventory[c] THEN "success" ELSE "incomplete")
    /\ UNCHANGED <<job, hostVars, ended, rowVars, scan, missed, overlapped, drift, manual, faults>>

\* Fault: a cycle that was not interrupted is a success.
FinishOptimistic(c) ==
    /\ cycle[c] = "dispatching"
    /\ Releases(c, "success")
    /\ UNCHANGED <<job, hostVars, ended, rowVars, scan, missed, overlapped, drift, manual, faults>>

\* The last row of each host is counted, whoever wrote it.
Finish(c) ==
    LET ok == {h \in inventory[c] : lastOk[h]} IN
    /\ cycle[c] = "dispatching"
    /\ Releases(c, IF ok = inventory[c] THEN "success" ELSE IF ok = {} THEN "failed" ELSE "partial")
    /\ UNCHANGED <<job, hostVars, ended, rowVars, scan, missed, overlapped, drift, manual, faults>>

-----------------------------------------------------------------------------
(* Scans                                                                    *)

\* No answer, or none that can be read.
ProbeFails(c, h) ==
    /\ scan[<<c, h>>] = "probing"
    /\ scan' = [scan EXCEPT ![<<c, h>>] = "no"]
    /\ lastOk' = [lastOk EXCEPT ![h] = FALSE]
    /\ UNCHANGED <<job, hostVars, cycleVars, baseline, verdict, scanned, missed, overlapped, drift,
                   manual, faults>>

\* The answer is compared and inserted; what it is compared with is the last
\* successful scan, for nothing awaits between the two.  (The updates are looked
\* up in a thread in between, but are compared with nothing.)
Records(c, h, stage) ==
    /\ scan[<<c, h>>] = "probing"
    /\ scan' = [scan EXCEPT ![<<c, h>>] = stage]
    /\ baseline' = [baseline EXCEPT ![h] = truth[h]]
    /\ lastOk' = [lastOk EXCEPT ![h] = TRUE]
    /\ verdict' = [verdict EXCEPT ![h] = (stage = "fires")]
    /\ scanned' = [scanned EXCEPT ![c] = @ \cup {h}]
    /\ overlapped' = IF holder = c /\ UnderWay(h) = {c} THEN overlapped \ {h} ELSE overlapped
    /\ UNCHANGED <<job, hostVars, cycleVars, missed, drift, manual, faults>>

RecordAssets(c, h) ==
    /\ job = "asset"
    /\ Records(c, h, IF baseline[h] = None THEN "no"
                     ELSE IF Drifted(truth[h], baseline[h]) THEN "fires" ELSE "quiet")

RecordUpdates(c, h) ==
    /\ job = "patch"
    /\ Records(c, h, IF Missing(truth[h]) THEN "fires" ELSE "quiet")

RecordSecurity(c, h) ==
    /\ job = "security"
    /\ Records(c, h, IF Insecure(truth[h], baseline[h]) THEN "fires" ELSE "quiet")

Record(c, h) == RecordAssets(c, h) \/ RecordUpdates(c, h) \/ RecordSecurity(c, h)

\* Fault: an alert is never resolved by a scan.
UpdateAlertOnlyFires(c, h) ==
    /\ scan[<<c, h>>] \in {"quiet", "fires"}
    /\ scan' = [scan EXCEPT ![<<c, h>>] = "no"]
    /\ alert' = IF rule /\ scan[<<c, h>>] = "fires" THEN alert \cup {h} ELSE alert
    /\ missed' = IF rule THEN missed \ {h} ELSE missed \cup {h}
    /\ UNCHANGED <<job, truth, rule, cycleVars, baseline, lastOk, verdict, scanned, overlapped,
                   drift, manual, faults>>

\* update_*_alert, in a thread: inserts, keeps or resolves, when the rule is on.
UpdateAlert(c, h) ==
    /\ scan[<<c, h>>] \in {"quiet", "fires"}
    /\ scan' = [scan EXCEPT ![<<c, h>>] = "no"]
    /\ alert' = IF ~rule THEN alert
                ELSE IF scan[<<c, h>>] = "fires" THEN alert \cup {h} ELSE alert \ {h}
    /\ missed' = IF rule THEN missed \ {h} ELSE missed \cup {h}
    /\ UNCHANGED <<job, truth, rule, cycleVars, baseline, lastOk, verdict, scanned, overlapped,
                   drift, manual, faults>>

\* A database error, before or after the result is recorded.
ScanRaises(c, h) ==
    /\ scan[<<c, h>>] \in Scanning /\ Fault
    /\ scan' = [scan EXCEPT ![<<c, h>>] = "raised"]
    /\ missed' = IF scan[<<c, h>>] = "probing" THEN missed ELSE missed \cup {h}
    /\ UNCHANGED <<job, hostVars, cycleVars, baseline, lastOk, verdict, scanned, overlapped, drift,
                   manual>>

-----------------------------------------------------------------------------
\* Fault: rows of cycles that are gone stay running.
ApiRestartKeepsRuns ==
    /\ Fault
    /\ holder' = None
    /\ cycle' = [c \in Callers |-> "idle"] /\ ended' = FALSE
    /\ inventory' = [c \in Callers |-> {}] /\ scanned' = [c \in Callers |-> {}]
    /\ missed' = missed \cup Untold
    /\ scan' = [p \in DOMAIN scan |-> "no"]
    /\ UNCHANGED <<job, hostVars, run, rowVars, overlapped, drift, manual>>

\* initialize_db ends the rows of cycles that are gone.
ApiRestart ==
    /\ Fault
    /\ holder' = None
    /\ cycle' = [c \in Callers |-> "idle"]
    /\ ended' = FALSE
    /\ inventory' = [c \in Callers |-> {}] /\ scanned' = [c \in Callers |-> {}]
    /\ run' = [c \in Callers |-> IF run[c] = "running" THEN "failed" ELSE run[c]]
    /\ missed' = missed \cup Untold
    /\ scan' = [p \in DOMAIN scan |-> "no"]
    /\ UNCHANGED <<job, hostVars, rowVars, overlapped, drift, manual>>

ScanStep(c, h) == ProbeFails(c, h) \/ Record(c, h) \/ UpdateAlert(c, h)

CycleStep(c) ==
    Acquire(c) \/ GatherReturns(c) \/ GatherRaises(c) \/ FinishFailed(c) \/ Finish(c)

Next ==
    \/ \E h \in Hosts : HostDrifts(h) \/ CloseIncident(h)
    \/ SwitchRule
    \/ LoopBegins
    \/ \E c \in Callers, hosts \in (SUBSET Hosts) \ {{}} : AdminBegins(c, hosts)
    \/ \E c \in Callers : RunJob(c) \/ CycleStep(c) \/ DispatchRaises(c)
    \/ \E c \in Callers, h \in Hosts : ScanStep(c, h) \/ ScanRaises(c, h)
    \/ ApiRestart

Spec == Init /\ [][Next]_vars

\* A loop that has not ended comes back every minute, its policy is on and it is due
\* in the end, remote commands time out, and a host that the loop asks again and
\* again answers one day.
Fairness ==
    /\ WF_vars(LoopBegins)
    /\ WF_vars(\E c \in Callers : CycleStep(c))
    /\ WF_vars(\E c \in Callers, h \in Hosts : ScanStep(c, h))
    /\ \A h \in Hosts : SF_vars(Record(Loop, h))

FairSpec == Spec /\ Fairness

-----------------------------------------------------------------------------
(* Properties                                                               *)

\* Between scans a host has an alert exactly if its last scan called for one,
\* unless that verdict met a fault or a rule that is off, the alert was closed since,
\* by an administrator or with its rule, or two scans of the host overlapped and
\* their verdicts arrived in the other order.  A verdict that does arrive, of a scan
\* that is alone, ends each of these exceptions.
AlertMatchesLastScan ==
    \A h \in Hosts :
        UnderWay(h) = {} /\ h \notin missed \cup overlapped => (h \in alert <=> verdict[h])

\* A row says running only while its cycle holds the lock, through errors and restarts.
RunningIsHeld == \A c \in Callers : run[c] = "running" => holder = c

\* A cycle that ends as a success has scanned each of its hosts; only a scan left
\* over from another cycle can have stood in.
SuccessMeansScanned ==
    [][\A c \in Callers :
          run'[c] = "success" =>
             run[c] = "success" \/ inventory[c] \subseteq scanned[c] \cup overlapped]_vars

\* Missing updates are found again after any fault, and after an incident that was
\* closed too early: in the end the alert is what the host is like, or the loop has
\* ended.  (Drift is not: it is a difference to a scan already recorded.)
UpdatesHeal ==
    \A h \in Hosts :
        [](job = "patch" => <>(ended \/ (rule => (h \in alert <=> truth[h] >= Threshold))))
=============================================================================
