----------------------- MODULE MaintenanceTasksProofs -----------------------
(***************************************************************************)
(* Theorems about MaintenanceTasks for every set of tasks, hosts, users,    *)
(* runbooks, alerts and workers.  Everything follows from one inductive     *)
(* invariant, Inv: TypeOK says nothing of why a row may be claimed once or  *)
(* why its approval survives, so Inv ties each row to the coroutine that    *)
(* holds it (Coroutines), to its approval (Approvals), to the locks on it   *)
(* (Claims) and to the commands already sent (Progress).                    *)
(***************************************************************************)
EXTENDS MaintenanceTasks, TLAPS

\* Rows in the table have a host, a runbook and a requester.
Rows ==
    \A t \in Tasks : Status(t) # "absent" =>
        /\ row[t].host \in Hosts
        /\ row[t].runbook \in Runbooks
        /\ row[t].requestedBy \in Users

\* A coroutine exists from the claim on, and while it lives the row is running
\* or has been reaped.  Until the claim nothing has run and nothing succeeded.
Coroutine(t) ==
    /\ phase[t] = "none" => Status(t) \notin {"running", "succeeded", "timed_out"}
    /\ phase[t] # "none" => Status(t) \in {"running"} \cup Outcomes
    /\ phase[t] \in Active => Status(t) \in {"running", "timed_out"}
    /\ phase[t] = "finishing" => outcome[t] \in Outcomes

Coroutines == \A t \in Tasks : Coroutine(t)

\* No approver before the approval; once a row relies on one, an independent one.
Approval(t) ==
    /\ Status(t) = "pending" => row[t].approvedBy = None
    /\ Status(t) \in {"approved", "queued"} \/ phase[t] # "none" => Approved(t)

Approvals == \A t \in Tasks : Approval(t)

\* A selected row stays queued until its claim commits, and has one claimant.
Claims ==
    /\ \A w \in Workers : claim[w] # None => Status(claim[w]) = "queued"
    /\ \A v, w \in Workers : claim[v] # None /\ claim[v] = claim[w] => v = w

\* What has been sent to the host, by where the coroutine is.
Sent(t) ==
    /\ phase[t] \in {"none", "preparing"} => begun[t] = {}
    /\ phase[t] = "precheck" => begun[t] = {"precheck"}
    /\ phase[t] = "execution" => begun[t] = RunbookCommands(t) \ {"verification"}
    /\ phase[t] = "verification" => begun[t] = Commands
    /\ phase[t] \in {"precheck", "verification"} => row[t].runbook \in Mutating
    /\ phase[t] = "finishing" /\ outcome[t] = "succeeded" => begun[t] = RunbookCommands(t)
    /\ Status(t) = "succeeded" => begun[t] = RunbookCommands(t)

Progress == \A t \in Tasks : Sent(t)

\* A command started after the cancel request never passes a check.
Late ==
    \A t \in lateStart :
        phase[t] \in Commands /\ row[t].cancelRequested /\ t \notin checked

\* A command can outlive its coroutine only where the coroutine did not succeed.
Leftover(t) ==
    t \in remote =>
        /\ phase[t] \in Commands \cup {"finishing", "done", "lost"}
        /\ phase[t] = "finishing" => outcome[t] # "succeeded"
        /\ Status(t) \in {"running", "failed", "cancelled", "timed_out"}

Leftovers == \A t \in Tasks : Leftover(t)

Inv == TypeOK /\ Rows /\ Coroutines /\ Approvals /\ Claims /\ OneRunningRowPerHost
       /\ Progress /\ Late /\ Leftovers

-----------------------------------------------------------------------------
(* The inserted row, whichever of the three requests inserts it.            *)
LEMMA Requests ==
    ASSUME Inv, NEW t \in Tasks, NEW u \in Users,
           \/ \E h \in Hosts, rb \in Runbooks : Create(t, u, h, rb)
           \/ \E a \in Alerts, rb \in Runbooks : CreateFromAlert(t, u, a, rb)
           \/ \E source \in Tasks : Retry(t, u, source)
    PROVE  \E h \in Hosts, rb \in Runbooks, a \in Alerts \cup {None}, source \in Tasks \cup {None} :
              Insert(t, h, rb, a, source, u)
<1>1. CASE \E h \in Hosts, rb \in Runbooks : Create(t, u, h, rb)
  BY <1>1 DEF Create
<1>2. CASE \E a \in Alerts, rb \in Runbooks : CreateFromAlert(t, u, a, rb)
  BY <1>2, AlertAssumption DEF CreateFromAlert
<1>3. ASSUME NEW source \in Tasks, Retry(t, u, source)
      PROVE  \E h \in Hosts, rb \in Runbooks, a \in Alerts \cup {None}, x \in Tasks \cup {None} :
                Insert(t, h, rb, a, x, u)
  <2>1. Status(source) # "absent"
    BY <1>3 DEF Retry
  <2>2. /\ row[source].host \in Hosts /\ row[source].runbook \in Runbooks
        /\ row[source].alert \in Alerts \cup {None}
    BY <2>1 DEF Inv, Rows, TypeOK, Row
  <2>. QED
    BY <1>3, <2>2 DEF Retry
<1>. QED
  BY <1>1, <1>2, <1>3

\* A row stays a row when a deadline passes or a heartbeat is missed or sent,
LEMMA RowFlags ==
    ASSUME NEW r \in Row
    PROVE  /\ [r EXCEPT !.lapsed = TRUE] \in Row
           /\ [r EXCEPT !.stale = TRUE] \in Row
           /\ [r EXCEPT !.stale = FALSE] \in Row
<1>1. [r EXCEPT !.lapsed = TRUE] \in Row
  BY DEF Row
<1>2. [r EXCEPT !.stale = TRUE] \in Row
  BY DEF Row
<1>3. [r EXCEPT !.stale = FALSE] \in Row
  BY DEF Row
<1>. QED
  BY <1>1, <1>2, <1>3

\* when its status changes,
LEMMA RowStatus ==
    ASSUME NEW r \in Row, NEW st \in OpenStatus \cup TerminalStatus
    PROVE  [r EXCEPT !.status = st] \in Row
BY DEF Row

\* when it is approved or rejected,
LEMMA RowDecided ==
    ASSUME NEW r \in Row, NEW st \in OpenStatus \cup TerminalStatus, NEW u \in Users
    PROVE  [r EXCEPT !.status = st, !.approvedBy = u] \in Row
BY DEF Row

\* when it is cancelled,
LEMMA RowCancel ==
    ASSUME NEW r \in Row, NEW st \in OpenStatus \cup TerminalStatus
    PROVE  [r EXCEPT !.cancelRequested = TRUE, !.status = st] \in Row
BY DEF Row

\* when a worker claims it,
LEMMA RowClaimed ==
    ASSUME NEW r \in Row, NEW st \in OpenStatus \cup TerminalStatus, NEW w \in Workers
    PROVE  [r EXCEPT !.status = st, !.worker = w, !.stale = FALSE] \in Row
BY DEF Row

\* and when its execution is recorded.
LEMMA RowFinished ==
    ASSUME NEW r \in Row, NEW st \in OpenStatus \cup TerminalStatus
    PROVE  [r EXCEPT !.status = st, !.stale = FALSE] \in Row
BY DEF Row

\* No handler, worker or reaper step writes a value outside the variables' types.
LEMMA TypeStep == Inv /\ [Next]_vars => TypeOK'
<1>. SUFFICES ASSUME Inv, TypeOK, [Next]_vars PROVE TypeOK'
  BY DEF Inv
<1>. USE DEF TypeOK
<1>0. \A t \in Tasks : row[t] \in Row
  OBVIOUS
<1>1. ASSUME NEW t \in Tasks, NEW u \in Users, NEW h \in Hosts, NEW rb \in Runbooks,
             NEW a \in Alerts \cup {None}, NEW source \in Tasks \cup {None},
             Insert(t, h, rb, a, source, u) PROVE TypeOK'
  <2>1. [NoRow EXCEPT !.status = "pending", !.host = h, !.runbook = rb,
                      !.alert = a, !.retryOf = source, !.requestedBy = u] \in Row
    BY DEF NoRow, Row, OpenStatus
  <2>2. row' \in [Tasks -> Row]
    BY <1>1, <2>1 DEF Insert
  <2>. QED
    BY <1>1, <2>2 DEF Insert, api, worker, exec
<1>2. ASSUME NEW t \in Tasks, NEW u \in Users, Approve(t, u) PROVE TypeOK'
  <2>1. [row[t] EXCEPT !.status = "approved", !.approvedBy = u] \in Row
    BY <1>0, RowDecided DEF OpenStatus
  <2>2. row' \in [Tasks -> Row]
    BY <1>2, <2>1 DEF Approve
  <2>. QED
    BY <1>2, <2>2 DEF Approve, api, worker, exec
<1>3. ASSUME NEW t \in Tasks, NEW u \in Users, Reject(t, u) PROVE TypeOK'
  <2>1. [row[t] EXCEPT !.status = "rejected", !.approvedBy = u] \in Row
    BY <1>0, RowDecided DEF TerminalStatus
  <2>2. row' \in [Tasks -> Row]
    BY <1>3, <2>1 DEF Reject
  <2>. QED
    BY <1>3, <2>2 DEF Reject, api, worker, exec
<1>4. ASSUME NEW t \in Tasks, Cancel(t) PROVE TypeOK'
  <2>0. PICK st \in {"running", "cancelled"} :
          row' = [row EXCEPT ![t].cancelRequested = TRUE, ![t].status = st]
    BY <1>4 DEF Cancel
  <2>1. [row[t] EXCEPT !.cancelRequested = TRUE, !.status = st] \in Row
    BY <1>0, RowCancel DEF OpenStatus, TerminalStatus
  <2>2. row' \in [Tasks -> Row]
    BY <2>0, <2>1 DEF Cancel
  <2>. QED
    BY <1>4, <2>2 DEF Cancel, api, worker, exec
<1>5. ASSUME NEW t \in Tasks, ApprovalLapses(t) PROVE TypeOK'
  <2>1. [row[t] EXCEPT !.lapsed = TRUE] \in Row
    BY <1>0, RowFlags
  <2>2. row' \in [Tasks -> Row]
    BY <1>5, <2>1 DEF ApprovalLapses
  <2>. QED
    BY <1>5, <2>2 DEF ApprovalLapses, api, worker, exec
<1>6. ASSUME NEW t \in Tasks, ExecuteExpired(t) PROVE TypeOK'
  <2>1. [row[t] EXCEPT !.status = "failed"] \in Row
    BY <1>0, RowStatus DEF TerminalStatus
  <2>2. row' \in [Tasks -> Row]
    BY <1>6, <2>1 DEF ExecuteExpired
  <2>. QED
    BY <1>6, <2>2 DEF ExecuteExpired, api, worker, exec
<1>7. ASSUME NEW t \in Tasks, ExecuteReadOnly(t) PROVE TypeOK'
  <2>1. [row[t] EXCEPT !.status = "queued"] \in Row
    BY <1>0, RowStatus DEF OpenStatus
  <2>2. row' \in [Tasks -> Row]
    BY <1>7, <2>1 DEF ExecuteReadOnly, Enqueue
  <2>. QED
    BY <1>7, <2>2 DEF ExecuteReadOnly, Enqueue, worker, exec
<1>8. ASSUME NEW t \in Tasks, ExecuteChecksHost(t) PROVE TypeOK'
  BY <1>0, <1>8 DEF ExecuteChecksHost, api, worker, exec, Phases, Active, Commands, Outcomes
<1>9. ASSUME NEW t \in Tasks, ExecuteQueued(t) PROVE TypeOK'
  <2>1. [row[t] EXCEPT !.status = "queued"] \in Row
    BY <1>0, RowStatus DEF OpenStatus
  <2>2. row' \in [Tasks -> Row]
    BY <1>9, <2>1 DEF ExecuteQueued, Enqueue
  <2>. QED
    BY <1>9, <2>2 DEF ExecuteQueued, Enqueue, worker, exec
<1>10. ASSUME NEW t \in Tasks, ExecuteRefused(t) PROVE TypeOK'
  BY <1>0, <1>10 DEF ExecuteRefused, api, worker, exec, Phases, Active, Commands, Outcomes
<1>11. ASSUME NEW t \in Tasks, HeartbeatLapses(t) PROVE TypeOK'
  <2>1. [row[t] EXCEPT !.stale = TRUE] \in Row
    BY <1>0, RowFlags
  <2>2. row' \in [Tasks -> Row]
    BY <1>11, <2>1 DEF HeartbeatLapses
  <2>. QED
    BY <1>11, <2>2 DEF HeartbeatLapses, api, worker, exec
<1>12. ASSUME ReapStuck PROVE TypeOK'
  <2>1. ASSUME NEW t \in Tasks PROVE [row[t] EXCEPT !.status = "timed_out"] \in Row
    BY <1>0, RowStatus DEF TerminalStatus
  <2>2. row' \in [Tasks -> Row]
    BY <1>0, <1>12, <2>1 DEF ReapStuck
  <2>. QED
    BY <1>12, <2>2 DEF ReapStuck, api, worker, exec
<1>13. ASSUME ApiRestart PROVE TypeOK'
  BY <1>0, <1>13 DEF ApiRestart, api, worker, exec, Phases, Active, Commands, Outcomes
<1>14. ASSUME NEW w \in Workers, NEW t \in Tasks, ClaimSelect(w, t) PROVE TypeOK'
  BY <1>0, <1>14 DEF ClaimSelect, api, worker, exec, Phases, Active, Commands, Outcomes
<1>15. ASSUME NEW w \in Workers, NEW t \in Tasks, ClaimUpdate(w, t) PROVE TypeOK'
  <2>1. [row[t] EXCEPT !.status = "running", !.worker = w, !.stale = FALSE] \in Row
    BY <1>0, RowClaimed DEF OpenStatus
  <2>2. row' \in [Tasks -> Row]
    BY <1>15, <2>1 DEF ClaimUpdate
  <2>. QED
    BY <1>15, <2>2 DEF ClaimUpdate, api, Phases, Active
<1>16. ASSUME NEW w \in Workers, LeaveLoop(w), faults' \in 0..MaxFaults PROVE TypeOK'
  BY <1>0, <1>16 DEF LeaveLoop, api, worker, exec, Phases, Active, Commands, Outcomes
<1>17. ASSUME NEW w \in Workers, WorkerStops(w) PROVE TypeOK'
  BY <1>0, <1>17 DEF WorkerStops, api, worker, exec, Phases, Active, Commands, Outcomes
<1>18. ASSUME NEW w \in Workers, WorkerCrash(w) PROVE TypeOK'
  <2>1. faults' \in 0..MaxFaults
    BY <1>18, BoundAssumption DEF WorkerCrash
  <2>. QED
    BY <1>18, <2>1 DEF WorkerCrash, api, Phases
<1>19. ASSUME NEW w \in Workers, WorkerRestart(w) PROVE TypeOK'
  BY <1>0, <1>19 DEF WorkerRestart, api, worker, exec, Phases, Active, Commands, Outcomes
<1>20. ASSUME NEW t \in Tasks, Prepared(t) PROVE TypeOK'
  <2>1. FirstCommand(t) \in Commands
    BY DEF FirstCommand, Commands
  <2>. QED
    BY <1>20, <2>1 DEF Prepared, Start, api, worker, Phases, Active
<1>21. ASSUME NEW t \in Tasks, PrepareFails(t) PROVE TypeOK'
  BY <1>0, <1>21 DEF PrepareFails, Ends, api, worker, exec, Phases, Active, Commands, Outcomes
<1>22. ASSUME NEW t \in Tasks, CheckPasses(t) PROVE TypeOK'
  <2>1. [row[t] EXCEPT !.stale = FALSE] \in Row
    BY <1>0, RowFlags
  <2>2. row' \in [Tasks -> Row]
    BY <1>22, <2>1 DEF CheckPasses
  <2>. QED
    BY <1>22, <2>2 DEF CheckPasses, api, worker
<1>23. ASSUME NEW t \in Tasks, CheckFails(t) PROVE TypeOK'
  BY <1>0, <1>23 DEF CheckFails, Ends, api, worker, exec, Phases, Active, Commands, Outcomes
<1>24. ASSUME NEW t \in Tasks, CommandSucceeds(t) PROVE TypeOK'
  BY <1>0, <1>24 DEF CommandSucceeds, Succeeds, Start, Ends, api, worker, exec, Phases, Active,
                       Commands, Outcomes
<1>25. ASSUME NEW t \in Tasks, CommandFails(t) PROVE TypeOK'
  BY <1>0, <1>25 DEF CommandFails, Ends, api, worker, exec, Phases, Active, Commands, Outcomes
<1>26. ASSUME NEW t \in Tasks, CommandTimesOut(t) PROVE TypeOK'
  BY <1>0, <1>26 DEF CommandTimesOut, Ends, api, worker, exec, Phases, Active, Commands, Outcomes
<1>27. ASSUME NEW t \in Tasks, Finish(t) PROVE TypeOK'
  <2>0. outcome[t] \in TerminalStatus
    BY <1>27 DEF Inv, Coroutines, Coroutine, Finish, Outcomes, TerminalStatus
  <2>1. [row[t] EXCEPT !.status = outcome[t], !.stale = FALSE] \in Row
    BY <1>0, <2>0, RowFinished
  <2>2. row' \in [Tasks -> Row]
    BY <1>27, <2>1 DEF Finish
  <2>. QED
    BY <1>27, <2>2 DEF Finish, api, worker, Phases
<1>28. ASSUME NEW t \in Tasks, FinishRaises(t) PROVE TypeOK'
  BY <1>0, <1>28 DEF FinishRaises, api, worker, exec, Phases, Active, Commands, Outcomes
<1>29. CASE UNCHANGED vars
  BY <1>29 DEF vars, api, worker, exec
<1>30. faults \in 0..MaxFaults
  OBVIOUS
<1>. HIDE DEF TypeOK
<1>31. ASSUME NEW t \in Tasks, ApiStep(t) PROVE TypeOK'
  BY <1>1, <1>2, <1>3, <1>4, <1>5, <1>6, <1>7, <1>8, <1>9, <1>10, <1>11, <1>31, Requests
     DEF ApiStep
<1>32. ASSUME NEW t \in Tasks, ExecStep(t) PROVE TypeOK'
  BY <1>20, <1>21, <1>22, <1>23, <1>24, <1>25, <1>26, <1>27, <1>28, <1>32 DEF ExecStep
<1>33. ASSUME NEW w \in Workers, WorkerStep(w) PROVE TypeOK'
  <2>1. ASSUME NEW t \in Tasks, ClaimConflict(w, t) PROVE TypeOK'
    BY <1>16, <1>30, <2>1 DEF ClaimConflict
  <2>2. CASE LoopFails(w)
    BY <1>16, <1>30, <2>2, BoundAssumption DEF LoopFails
  <2>. QED
    BY <1>14, <1>15, <1>17, <1>18, <1>19, <1>33, <2>1, <2>2 DEF WorkerStep
<1>. QED
  BY <1>12, <1>13, <1>29, <1>31, <1>32, <1>33 DEF Next

\* A row names its host, runbook and requester from its INSERT on.
LEMMA RowsStep == Inv /\ [Next]_vars => Rows'
<1>. SUFFICES ASSUME Inv, [Next]_vars PROVE Rows'
  OBVIOUS
<1>. USE DEF Rows, Status
<1>0. Rows /\ row \in [Tasks -> Row] /\ \A s \in Tasks : row[s] \in Row
  BY DEF Inv, TypeOK
<1>1. ASSUME NEW t \in Tasks, NEW u \in Users, NEW h \in Hosts, NEW rb \in Runbooks,
             NEW a \in Alerts \cup {None}, NEW source \in Tasks \cup {None},
             Insert(t, h, rb, a, source, u) PROVE Rows'
  BY <1>0, <1>1 DEF Insert, Row
<1>2. ASSUME NEW t \in Tasks, NEW u \in Users, Approve(t, u) PROVE Rows'
  BY <1>0, <1>2 DEF Approve, Row
<1>3. ASSUME NEW t \in Tasks, NEW u \in Users, Reject(t, u) PROVE Rows'
  BY <1>0, <1>3 DEF Reject, Row
<1>4. ASSUME NEW t \in Tasks, Cancel(t) PROVE Rows'
  BY <1>0, <1>4 DEF Cancel, Row
<1>5. ASSUME NEW t \in Tasks, ApprovalLapses(t) PROVE Rows'
  BY <1>0, <1>5 DEF ApprovalLapses, Row
<1>6. ASSUME NEW t \in Tasks, ExecuteExpired(t) PROVE Rows'
  BY <1>0, <1>6 DEF ExecuteExpired, Row
<1>7. ASSUME NEW t \in Tasks, ExecuteReadOnly(t) PROVE Rows'
  BY <1>0, <1>7 DEF ExecuteReadOnly, Enqueue, ApprovalHolds, Row
<1>8. ASSUME NEW t \in Tasks, ExecuteChecksHost(t) PROVE Rows'
  BY <1>0, <1>8 DEF ExecuteChecksHost, Row
<1>9. ASSUME NEW t \in Tasks, ExecuteQueued(t) PROVE Rows'
  BY <1>0, <1>9 DEF ExecuteQueued, Enqueue, ApprovalHolds, Row
<1>10. ASSUME NEW t \in Tasks, ExecuteRefused(t) PROVE Rows'
  BY <1>0, <1>10 DEF ExecuteRefused, Row
<1>11. ASSUME NEW t \in Tasks, HeartbeatLapses(t) PROVE Rows'
  BY <1>0, <1>11 DEF HeartbeatLapses, Row
<1>12. ASSUME ReapStuck PROVE Rows'
  BY <1>0, <1>12 DEF ReapStuck, Stuck, Row
<1>13. ASSUME ApiRestart PROVE Rows'
  BY <1>0, <1>13 DEF ApiRestart, Row
<1>14. ASSUME NEW w \in Workers, NEW t \in Tasks, ClaimSelect(w, t) PROVE Rows'
  BY <1>0, <1>14 DEF ClaimSelect, Row
<1>15. ASSUME NEW w \in Workers, NEW t \in Tasks, ClaimUpdate(w, t) PROVE Rows'
  <2>1. Status(t) = "queued"
    BY <1>15, NoneAssumption DEF Inv, Claims, ClaimUpdate
  <2>. QED
    BY <1>0, <1>15, <2>1 DEF ClaimUpdate, Row
<1>16. ASSUME NEW w \in Workers, LeaveLoop(w) PROVE Rows'
  BY <1>0, <1>16 DEF LeaveLoop, Row
<1>17. ASSUME NEW w \in Workers, WorkerStops(w) PROVE Rows'
  BY <1>0, <1>17 DEF WorkerStops, Row
<1>18. ASSUME NEW w \in Workers, WorkerCrash(w) PROVE Rows'
  BY <1>0, <1>18 DEF WorkerCrash, Row
<1>19. ASSUME NEW w \in Workers, WorkerRestart(w) PROVE Rows'
  BY <1>0, <1>19 DEF WorkerRestart, Row
<1>20. ASSUME NEW t \in Tasks, Prepared(t) PROVE Rows'
  BY <1>0, <1>20 DEF Prepared, Start, Row
<1>21. ASSUME NEW t \in Tasks, PrepareFails(t) PROVE Rows'
  BY <1>0, <1>21 DEF PrepareFails, Ends, Row
<1>22. ASSUME NEW t \in Tasks, CheckPasses(t) PROVE Rows'
  BY <1>0, <1>22 DEF CheckPasses, StillRunning, Row
<1>23. ASSUME NEW t \in Tasks, CheckFails(t) PROVE Rows'
  BY <1>0, <1>23 DEF CheckFails, Ends, Row
<1>24. ASSUME NEW t \in Tasks, CommandSucceeds(t) PROVE Rows'
  BY <1>0, <1>24 DEF CommandSucceeds, Succeeds, Start, Ends, Row
<1>25. ASSUME NEW t \in Tasks, CommandFails(t) PROVE Rows'
  BY <1>0, <1>25 DEF CommandFails, Ends, Row
<1>26. ASSUME NEW t \in Tasks, CommandTimesOut(t) PROVE Rows'
  BY <1>0, <1>26 DEF CommandTimesOut, Ends, Row
<1>27. ASSUME NEW t \in Tasks, Finish(t) PROVE Rows'
  <2>1. Status(t) # "absent"
    BY <1>27 DEF Inv, Coroutines, Coroutine, Finish, Outcomes
  <2>. QED
    BY <1>0, <1>27, <2>1 DEF Finish, Row
<1>28. ASSUME NEW t \in Tasks, FinishRaises(t) PROVE Rows'
  BY <1>0, <1>28 DEF FinishRaises, Row
<1>29. CASE UNCHANGED vars
  BY <1>0, <1>29 DEF vars, api, worker, exec
<1>. QED
  BY <1>1, <1>2, <1>3, <1>4, <1>5, <1>6, <1>7, <1>8, <1>9, <1>10, <1>11, <1>12, <1>13,
     <1>14, <1>15, <1>16, <1>17, <1>18, <1>19, <1>20, <1>21, <1>22, <1>23, <1>24, <1>25,
     <1>26, <1>27, <1>28, <1>29, Requests
     DEF Next, ApiStep, ExecStep, WorkerStep, ClaimConflict, LoopFails

\* No writer moves a row to a status its coroutine does not allow.
LEMMA CoroutineStep == Inv /\ [Next]_vars => Coroutines'
<1>. SUFFICES ASSUME Inv, [Next]_vars, NEW s \in Tasks PROVE Coroutine(s)'
  BY DEF Coroutines
<1>. USE DEF Coroutine, Status
<1>0. /\ row \in [Tasks -> Row] /\ row[s] \in Row /\ Coroutine(s)
      /\ phase \in [Tasks -> Phases] /\ outcome \in [Tasks -> Outcomes \cup {None}]
  BY DEF Inv, TypeOK, Coroutines
<1>1. ASSUME NEW t \in Tasks, NEW u \in Users, NEW h \in Hosts, NEW rb \in Runbooks,
             NEW a \in Alerts \cup {None}, NEW source \in Tasks \cup {None},
             Insert(t, h, rb, a, source, u) PROVE Coroutine(s)'
  BY <1>0, <1>1 DEF Insert, exec, Row, Active, Outcomes, Commands
<1>2. ASSUME NEW t \in Tasks, NEW u \in Users, Approve(t, u) PROVE Coroutine(s)'
  BY <1>0, <1>2 DEF Approve, exec, Row, Active, Outcomes, Commands
<1>3. ASSUME NEW t \in Tasks, NEW u \in Users, Reject(t, u) PROVE Coroutine(s)'
  BY <1>0, <1>3 DEF Reject, exec, Row, Active, Outcomes, Commands
<1>4. ASSUME NEW t \in Tasks, Cancel(t) PROVE Coroutine(s)'
  BY <1>0, <1>4 DEF Cancel, exec, Row, Active, Outcomes, Commands
<1>5. ASSUME NEW t \in Tasks, ApprovalLapses(t) PROVE Coroutine(s)'
  BY <1>0, <1>5 DEF ApprovalLapses, exec, Row, Active, Outcomes, Commands
<1>6. ASSUME NEW t \in Tasks, ExecuteExpired(t) PROVE Coroutine(s)'
  BY <1>0, <1>6 DEF ExecuteExpired, exec, Row, Active, Outcomes, Commands
<1>7. ASSUME NEW t \in Tasks, ExecuteReadOnly(t) PROVE Coroutine(s)'
  BY <1>0, <1>7 DEF ExecuteReadOnly, Enqueue, ApprovalHolds, exec, Row, Active, Outcomes, Commands
<1>8. ASSUME NEW t \in Tasks, ExecuteChecksHost(t) PROVE Coroutine(s)'
  BY <1>0, <1>8 DEF ExecuteChecksHost, exec, Row, Active, Outcomes, Commands
<1>9. ASSUME NEW t \in Tasks, ExecuteQueued(t) PROVE Coroutine(s)'
  BY <1>0, <1>9 DEF ExecuteQueued, Enqueue, ApprovalHolds, exec, Row, Active, Outcomes, Commands
<1>10. ASSUME NEW t \in Tasks, ExecuteRefused(t) PROVE Coroutine(s)'
  BY <1>0, <1>10 DEF ExecuteRefused, exec, Row, Active, Outcomes, Commands
<1>11. ASSUME NEW t \in Tasks, HeartbeatLapses(t) PROVE Coroutine(s)'
  BY <1>0, <1>11 DEF HeartbeatLapses, exec, Row, Active, Outcomes, Commands
<1>12. ASSUME ReapStuck PROVE Coroutine(s)'
  BY <1>0, <1>12 DEF ReapStuck, Stuck, exec, Row, Active, Outcomes, Commands
<1>13. ASSUME ApiRestart PROVE Coroutine(s)'
  BY <1>0, <1>13 DEF ApiRestart, exec, Row, Active, Outcomes, Commands
<1>14. ASSUME NEW w \in Workers, NEW t \in Tasks, ClaimSelect(w, t)
      PROVE Coroutine(s)'
  BY <1>0, <1>14 DEF ClaimSelect, exec, Row, Active, Outcomes, Commands
<1>15. ASSUME NEW w \in Workers, NEW t \in Tasks, ClaimUpdate(w, t)
      PROVE Coroutine(s)'
  <2>1. Status(t) = "queued"
    BY <1>15, NoneAssumption DEF Inv, Claims, ClaimUpdate
  <2>. QED
    BY <1>0, <1>15, <2>1 DEF ClaimUpdate, Row, Active, Outcomes, Commands
<1>16. ASSUME NEW w \in Workers, LeaveLoop(w) PROVE Coroutine(s)'
  BY <1>0, <1>16 DEF LeaveLoop, Busy, exec, Row, Active, Outcomes, Commands
<1>17. ASSUME NEW w \in Workers, WorkerStops(w) PROVE Coroutine(s)'
  BY <1>0, <1>17 DEF WorkerStops, exec, Row, Active, Outcomes, Commands
<1>18. ASSUME NEW w \in Workers, WorkerCrash(w) PROVE Coroutine(s)'
  BY <1>0, <1>18 DEF WorkerCrash, Busy, exec, Row, Active, Outcomes, Commands
<1>19. ASSUME NEW w \in Workers, WorkerRestart(w) PROVE Coroutine(s)'
  BY <1>0, <1>19 DEF WorkerRestart, exec, Row, Active, Outcomes, Commands
<1>20. ASSUME NEW t \in Tasks, Prepared(t) PROVE Coroutine(s)'
  <2>1. FirstCommand(t) \in Commands
    BY DEF FirstCommand, Commands
  <2>. QED
    BY <1>0, <1>20, <2>1 DEF Prepared, Start, Active, Commands, Outcomes
<1>21. ASSUME NEW t \in Tasks, PrepareFails(t) PROVE Coroutine(s)'
  BY <1>0, <1>21 DEF PrepareFails, Ends, exec, Row, Active, Outcomes, Commands
<1>22. ASSUME NEW t \in Tasks, CheckPasses(t) PROVE Coroutine(s)'
  BY <1>0, <1>22 DEF CheckPasses, StillRunning, exec, Row, Active, Outcomes, Commands
<1>23. ASSUME NEW t \in Tasks, CheckFails(t) PROVE Coroutine(s)'
  BY <1>0, <1>23 DEF CheckFails, Ends, exec, Row, Active, Outcomes, Commands
<1>24. ASSUME NEW t \in Tasks, CommandSucceeds(t) PROVE Coroutine(s)'
  BY <1>0, <1>24 DEF CommandSucceeds, Succeeds, Start, Ends, exec, Row, Active, Outcomes, Commands
<1>25. ASSUME NEW t \in Tasks, CommandFails(t) PROVE Coroutine(s)'
  BY <1>0, <1>25 DEF CommandFails, Ends, exec, Row, Active, Outcomes, Commands
<1>26. ASSUME NEW t \in Tasks, CommandTimesOut(t) PROVE Coroutine(s)'
  BY <1>0, <1>26 DEF CommandTimesOut, Ends, exec, Row, Active, Outcomes, Commands
<1>27. ASSUME NEW t \in Tasks, Finish(t) PROVE Coroutine(s)'
  BY <1>0, <1>27 DEF Finish, exec, Row, Active, Outcomes, Commands
<1>28. ASSUME NEW t \in Tasks, FinishRaises(t) PROVE Coroutine(s)'
  BY <1>0, <1>28 DEF FinishRaises, exec, Row, Active, Outcomes, Commands
<1>29. CASE UNCHANGED vars
  BY <1>0, <1>29 DEF vars, api, worker, exec
<1>. QED
  BY <1>1, <1>2, <1>3, <1>4, <1>5, <1>6, <1>7, <1>8, <1>9, <1>10, <1>11, <1>12, <1>13,
     <1>14, <1>15, <1>16, <1>17, <1>18, <1>19, <1>20, <1>21, <1>22, <1>23, <1>24, <1>25,
     <1>26, <1>27, <1>28, <1>29, Requests
     DEF Next, ApiStep, ExecStep, WorkerStep, ClaimConflict, LoopFails

\* Nothing but approve sets approved_by, and nothing relies on a row without it.
LEMMA ApprovalStep == Inv /\ [Next]_vars => Approvals'
<1>. SUFFICES ASSUME Inv, [Next]_vars, NEW s \in Tasks PROVE Approval(s)'
  BY DEF Approvals
<1>. USE DEF Approval, Approved, Sensitive, Status
<1>0. /\ row \in [Tasks -> Row] /\ row[s] \in Row /\ Approval(s)
      /\ phase \in [Tasks -> Phases]
  BY DEF Inv, TypeOK, Approvals
<1>1. ASSUME NEW t \in Tasks, NEW u \in Users, NEW h \in Hosts, NEW rb \in Runbooks,
             NEW a \in Alerts \cup {None}, NEW source \in Tasks \cup {None},
             Insert(t, h, rb, a, source, u) PROVE Approval(s)'
  <2>1. phase[t] = "none"
    BY <1>1 DEF Inv, Coroutines, Coroutine, Insert, Outcomes
  <2>. QED
    BY <1>0, <1>1, <2>1 DEF Insert, exec, Row, NoRow
<1>2. ASSUME NEW t \in Tasks, NEW u \in Users, Approve(t, u) PROVE Approval(s)'
  BY <1>0, <1>2 DEF Approve, exec, Row, Active, Commands
<1>3. ASSUME NEW t \in Tasks, NEW u \in Users, Reject(t, u) PROVE Approval(s)'
  BY <1>0, <1>3 DEF Reject, exec, Row, Active, Commands
<1>4. ASSUME NEW t \in Tasks, Cancel(t) PROVE Approval(s)'
  BY <1>0, <1>4 DEF Cancel, exec, Row, Active, Commands
<1>5. ASSUME NEW t \in Tasks, ApprovalLapses(t) PROVE Approval(s)'
  BY <1>0, <1>5 DEF ApprovalLapses, exec, Row, Active, Commands
<1>6. ASSUME NEW t \in Tasks, ExecuteExpired(t) PROVE Approval(s)'
  BY <1>0, <1>6 DEF ExecuteExpired, exec, Row, Active, Commands
<1>7. ASSUME NEW t \in Tasks, ExecuteReadOnly(t) PROVE Approval(s)'
  BY <1>0, <1>7 DEF ExecuteReadOnly, Enqueue, ApprovalHolds, exec, Row, Active, Commands
<1>8. ASSUME NEW t \in Tasks, ExecuteChecksHost(t) PROVE Approval(s)'
  BY <1>0, <1>8 DEF ExecuteChecksHost, exec, Row, Active, Commands
<1>9. ASSUME NEW t \in Tasks, ExecuteQueued(t) PROVE Approval(s)'
  BY <1>0, <1>9 DEF ExecuteQueued, Enqueue, ApprovalHolds, exec, Row, Active, Commands
<1>10. ASSUME NEW t \in Tasks, ExecuteRefused(t) PROVE Approval(s)'
  BY <1>0, <1>10 DEF ExecuteRefused, exec, Row, Active, Commands
<1>11. ASSUME NEW t \in Tasks, HeartbeatLapses(t) PROVE Approval(s)'
  BY <1>0, <1>11 DEF HeartbeatLapses, exec, Row, Active, Commands
<1>12. ASSUME ReapStuck PROVE Approval(s)'
  BY <1>0, <1>12 DEF ReapStuck, Stuck, exec, Row, Active, Commands
<1>13. ASSUME ApiRestart PROVE Approval(s)'
  BY <1>0, <1>13 DEF ApiRestart, exec, Row, Active, Commands
<1>14. ASSUME NEW w \in Workers, NEW t \in Tasks, ClaimSelect(w, t) PROVE Approval(s)'
  BY <1>0, <1>14 DEF ClaimSelect, exec, Row, Active, Commands
<1>15. ASSUME NEW w \in Workers, NEW t \in Tasks, ClaimUpdate(w, t) PROVE Approval(s)'
  <2>1. Status(t) = "queued"
    BY <1>15, NoneAssumption DEF Inv, Claims, ClaimUpdate
  <2>. QED
    BY <1>0, <1>15, <2>1 DEF ClaimUpdate, Row
<1>16. ASSUME NEW w \in Workers, LeaveLoop(w) PROVE Approval(s)'
  BY <1>0, <1>16 DEF LeaveLoop, Busy, exec, Row, Active, Commands
<1>17. ASSUME NEW w \in Workers, WorkerStops(w) PROVE Approval(s)'
  BY <1>0, <1>17 DEF WorkerStops, exec, Row, Active, Commands
<1>18. ASSUME NEW w \in Workers, WorkerCrash(w) PROVE Approval(s)'
  BY <1>0, <1>18 DEF WorkerCrash, Busy, exec, Row, Active, Commands
<1>19. ASSUME NEW w \in Workers, WorkerRestart(w) PROVE Approval(s)'
  BY <1>0, <1>19 DEF WorkerRestart, exec, Row, Active, Commands
<1>20. ASSUME NEW t \in Tasks, Prepared(t) PROVE Approval(s)'
  BY <1>0, <1>20 DEF Prepared, Start, exec, Row, Active, Commands
<1>21. ASSUME NEW t \in Tasks, PrepareFails(t) PROVE Approval(s)'
  BY <1>0, <1>21 DEF PrepareFails, Ends, exec, Row, Active, Commands
<1>22. ASSUME NEW t \in Tasks, CheckPasses(t) PROVE Approval(s)'
  BY <1>0, <1>22 DEF CheckPasses, StillRunning, exec, Row, Active, Commands
<1>23. ASSUME NEW t \in Tasks, CheckFails(t) PROVE Approval(s)'
  BY <1>0, <1>23 DEF CheckFails, Ends, exec, Row, Active, Commands
<1>24. ASSUME NEW t \in Tasks, CommandSucceeds(t) PROVE Approval(s)'
  BY <1>0, <1>24 DEF CommandSucceeds, Succeeds, Start, Ends, exec, Row, Active, Commands
<1>25. ASSUME NEW t \in Tasks, CommandFails(t) PROVE Approval(s)'
  BY <1>0, <1>25 DEF CommandFails, Ends, exec, Row, Active, Commands
<1>26. ASSUME NEW t \in Tasks, CommandTimesOut(t) PROVE Approval(s)'
  BY <1>0, <1>26 DEF CommandTimesOut, Ends, exec, Row, Active, Commands
<1>27. ASSUME NEW t \in Tasks, Finish(t) PROVE Approval(s)'
  <2>1. outcome[t] \in Outcomes
    BY <1>27 DEF Inv, Coroutines, Coroutine, Finish
  <2>. QED
    BY <1>0, <1>27, <2>1 DEF Finish, exec, Row, Active, Commands, Outcomes
<1>28. ASSUME NEW t \in Tasks, FinishRaises(t) PROVE Approval(s)'
  BY <1>0, <1>28 DEF FinishRaises, exec, Row, Active, Commands
<1>29. CASE UNCHANGED vars
  BY <1>0, <1>29 DEF vars, api, worker, exec
<1>. QED
  BY <1>1, <1>2, <1>3, <1>4, <1>5, <1>6, <1>7, <1>8, <1>9, <1>10, <1>11, <1>12, <1>13,
     <1>14, <1>15, <1>16, <1>17, <1>18, <1>19, <1>20, <1>21, <1>22, <1>23, <1>24, <1>25,
     <1>26, <1>27, <1>28, <1>29, Requests
     DEF Next, ApiStep, ExecStep, WorkerStep, ClaimConflict, LoopFails

\* FOR UPDATE SKIP LOCKED: nobody moves a selected row, nobody selects it twice.
LEMMA ClaimsStep == Inv /\ [Next]_vars => Claims'
<1>. SUFFICES ASSUME Inv, [Next]_vars PROVE Claims'
  OBVIOUS
<1>. USE DEF Claims, Status
<1>0. /\ Claims /\ row \in [Tasks -> Row] /\ \A s \in Tasks : row[s] \in Row
      /\ claim \in [Workers -> Tasks \cup {None}] /\ None \notin Tasks
  BY NoneAssumption DEF Inv, TypeOK
<1>1. ASSUME NEW t \in Tasks, NEW u \in Users, NEW h \in Hosts, NEW rb \in Runbooks,
             NEW a \in Alerts \cup {None}, NEW source \in Tasks \cup {None},
             Insert(t, h, rb, a, source, u) PROVE Claims'
  BY <1>0, <1>1 DEF Insert, worker, Row
<1>2. ASSUME NEW t \in Tasks, NEW u \in Users, Approve(t, u) PROVE Claims'
  BY <1>0, <1>2 DEF Approve, worker, Row
<1>3. ASSUME NEW t \in Tasks, NEW u \in Users, Reject(t, u) PROVE Claims'
  BY <1>0, <1>3 DEF Reject, worker, Row
<1>4. ASSUME NEW t \in Tasks, Cancel(t) PROVE Claims'
  BY <1>0, <1>4 DEF Cancel, Locked, worker, Row
<1>5. ASSUME NEW t \in Tasks, ApprovalLapses(t) PROVE Claims'
  BY <1>0, <1>5 DEF ApprovalLapses, worker, Row
<1>6. ASSUME NEW t \in Tasks, ExecuteExpired(t) PROVE Claims'
  BY <1>0, <1>6 DEF ExecuteExpired, worker, Row
<1>7. ASSUME NEW t \in Tasks, ExecuteReadOnly(t) PROVE Claims'
  BY <1>0, <1>7 DEF ExecuteReadOnly, Enqueue, ApprovalHolds, worker, Row
<1>8. ASSUME NEW t \in Tasks, ExecuteChecksHost(t) PROVE Claims'
  BY <1>0, <1>8 DEF ExecuteChecksHost, worker, Row
<1>9. ASSUME NEW t \in Tasks, ExecuteQueued(t) PROVE Claims'
  BY <1>0, <1>9 DEF ExecuteQueued, Enqueue, ApprovalHolds, worker, Row
<1>10. ASSUME NEW t \in Tasks, ExecuteRefused(t) PROVE Claims'
  BY <1>0, <1>10 DEF ExecuteRefused, worker, Row
<1>11. ASSUME NEW t \in Tasks, HeartbeatLapses(t) PROVE Claims'
  BY <1>0, <1>11 DEF HeartbeatLapses, worker, Row
<1>12. ASSUME ReapStuck PROVE Claims'
  BY <1>0, <1>12 DEF ReapStuck, Stuck, worker, Row
<1>13. ASSUME ApiRestart PROVE Claims'
  BY <1>0, <1>13 DEF ApiRestart, worker, Row
<1>14. ASSUME NEW w \in Workers, NEW t \in Tasks, ClaimSelect(w, t) PROVE Claims'
<2>. QED
    BY <1>0, <1>14 DEF ClaimSelect, Claimable, Locked
<1>15. ASSUME NEW w \in Workers, NEW t \in Tasks, ClaimUpdate(w, t) PROVE Claims'
  BY <1>0, <1>15 DEF ClaimUpdate, worker, Row
<1>16. ASSUME NEW w \in Workers, LeaveLoop(w) PROVE Claims'
  BY <1>0, <1>16 DEF LeaveLoop, Busy, worker, Row
<1>17. ASSUME NEW w \in Workers, WorkerStops(w) PROVE Claims'
  BY <1>0, <1>17 DEF WorkerStops, worker, Row
<1>18. ASSUME NEW w \in Workers, WorkerCrash(w) PROVE Claims'
  BY <1>0, <1>18 DEF WorkerCrash, Busy, worker, Row
<1>19. ASSUME NEW w \in Workers, WorkerRestart(w) PROVE Claims'
  BY <1>0, <1>19 DEF WorkerRestart, worker, Row
<1>20. ASSUME NEW t \in Tasks, Prepared(t) PROVE Claims'
  BY <1>0, <1>20 DEF Prepared, Start, worker, Row
<1>21. ASSUME NEW t \in Tasks, PrepareFails(t) PROVE Claims'
  BY <1>0, <1>21 DEF PrepareFails, Ends, worker, Row
<1>22. ASSUME NEW t \in Tasks, CheckPasses(t) PROVE Claims'
  BY <1>0, <1>22 DEF CheckPasses, StillRunning, worker, Row
<1>23. ASSUME NEW t \in Tasks, CheckFails(t) PROVE Claims'
  BY <1>0, <1>23 DEF CheckFails, Ends, worker, Row
<1>24. ASSUME NEW t \in Tasks, CommandSucceeds(t) PROVE Claims'
  BY <1>0, <1>24 DEF CommandSucceeds, Succeeds, Start, Ends, worker, Row
<1>25. ASSUME NEW t \in Tasks, CommandFails(t) PROVE Claims'
  BY <1>0, <1>25 DEF CommandFails, Ends, worker, Row
<1>26. ASSUME NEW t \in Tasks, CommandTimesOut(t) PROVE Claims'
  BY <1>0, <1>26 DEF CommandTimesOut, Ends, worker, Row
<1>27. ASSUME NEW t \in Tasks, Finish(t) PROVE Claims'
  <2>1. Status(t) # "queued"
    BY <1>27 DEF Inv, Coroutines, Coroutine, Finish, Outcomes
  <2>. QED
    BY <1>0, <1>27, <2>1 DEF Finish, worker, Row
<1>28. ASSUME NEW t \in Tasks, FinishRaises(t) PROVE Claims'
  BY <1>0, <1>28 DEF FinishRaises, worker, Row
<1>29. CASE UNCHANGED vars
  BY <1>0, <1>29 DEF vars, api, worker, exec
<1>. QED
  BY <1>1, <1>2, <1>3, <1>4, <1>5, <1>6, <1>7, <1>8, <1>9, <1>10, <1>11, <1>12, <1>13,
     <1>14, <1>15, <1>16, <1>17, <1>18, <1>19, <1>20, <1>21, <1>22, <1>23, <1>24, <1>25,
     <1>26, <1>27, <1>28, <1>29, Requests
     DEF Next, ApiStep, ExecStep, WorkerStep, ClaimConflict, LoopFails

\* Only the claim makes a row running, and the unique index guards the claim.
LEMMA OneRunningStep == Inv /\ [Next]_vars => OneRunningRowPerHost'
<1>. SUFFICES ASSUME Inv, [Next]_vars PROVE OneRunningRowPerHost'
  OBVIOUS
<1>. USE DEF OneRunningRowPerHost, Status
<1>0. /\ OneRunningRowPerHost /\ row \in [Tasks -> Row] /\ \A s \in Tasks : row[s] \in Row
  BY DEF Inv, TypeOK
<1>1. ASSUME NEW t \in Tasks, NEW u \in Users, NEW h \in Hosts, NEW rb \in Runbooks,
             NEW a \in Alerts \cup {None}, NEW source \in Tasks \cup {None},
             Insert(t, h, rb, a, source, u) PROVE OneRunningRowPerHost'
  BY <1>0, <1>1 DEF Insert, Row
<1>2. ASSUME NEW t \in Tasks, NEW u \in Users, Approve(t, u)
      PROVE OneRunningRowPerHost'
  BY <1>0, <1>2 DEF Approve, Row
<1>3. ASSUME NEW t \in Tasks, NEW u \in Users, Reject(t, u)
      PROVE OneRunningRowPerHost'
  BY <1>0, <1>3 DEF Reject, Row
<1>4. ASSUME NEW t \in Tasks, Cancel(t) PROVE OneRunningRowPerHost'
  BY <1>0, <1>4 DEF Cancel, Row
<1>5. ASSUME NEW t \in Tasks, ApprovalLapses(t) PROVE OneRunningRowPerHost'
  BY <1>0, <1>5 DEF ApprovalLapses, Row
<1>6. ASSUME NEW t \in Tasks, ExecuteExpired(t) PROVE OneRunningRowPerHost'
  BY <1>0, <1>6 DEF ExecuteExpired, Row
<1>7. ASSUME NEW t \in Tasks, ExecuteReadOnly(t) PROVE OneRunningRowPerHost'
  BY <1>0, <1>7 DEF ExecuteReadOnly, Enqueue, ApprovalHolds, Row
<1>8. ASSUME NEW t \in Tasks, ExecuteChecksHost(t) PROVE OneRunningRowPerHost'
  BY <1>0, <1>8 DEF ExecuteChecksHost, Row
<1>9. ASSUME NEW t \in Tasks, ExecuteQueued(t) PROVE OneRunningRowPerHost'
  BY <1>0, <1>9 DEF ExecuteQueued, Enqueue, ApprovalHolds, Row
<1>10. ASSUME NEW t \in Tasks, ExecuteRefused(t) PROVE OneRunningRowPerHost'
  BY <1>0, <1>10 DEF ExecuteRefused, Row
<1>11. ASSUME NEW t \in Tasks, HeartbeatLapses(t) PROVE OneRunningRowPerHost'
  BY <1>0, <1>11 DEF HeartbeatLapses, Row
<1>12. ASSUME ReapStuck PROVE OneRunningRowPerHost'
  BY <1>0, <1>12 DEF ReapStuck, Stuck, Row
<1>13. ASSUME ApiRestart PROVE OneRunningRowPerHost'
  BY <1>0, <1>13 DEF ApiRestart, Row
<1>14. ASSUME NEW w \in Workers, NEW t \in Tasks, ClaimSelect(w, t)
      PROVE OneRunningRowPerHost'
  BY <1>0, <1>14 DEF ClaimSelect, Row
<1>15. ASSUME NEW w \in Workers, NEW t \in Tasks, ClaimUpdate(w, t)
      PROVE OneRunningRowPerHost'
  BY <1>0, <1>15 DEF ClaimUpdate, HostRuns, Row
<1>16. ASSUME NEW w \in Workers, LeaveLoop(w) PROVE OneRunningRowPerHost'
  BY <1>0, <1>16 DEF LeaveLoop, Busy, Row
<1>17. ASSUME NEW w \in Workers, WorkerStops(w) PROVE OneRunningRowPerHost'
  BY <1>0, <1>17 DEF WorkerStops, Row
<1>18. ASSUME NEW w \in Workers, WorkerCrash(w) PROVE OneRunningRowPerHost'
  BY <1>0, <1>18 DEF WorkerCrash, Busy, Row
<1>19. ASSUME NEW w \in Workers, WorkerRestart(w) PROVE OneRunningRowPerHost'
  BY <1>0, <1>19 DEF WorkerRestart, Row
<1>20. ASSUME NEW t \in Tasks, Prepared(t) PROVE OneRunningRowPerHost'
  BY <1>0, <1>20 DEF Prepared, Start, Row
<1>21. ASSUME NEW t \in Tasks, PrepareFails(t) PROVE OneRunningRowPerHost'
  BY <1>0, <1>21 DEF PrepareFails, Ends, Row
<1>22. ASSUME NEW t \in Tasks, CheckPasses(t) PROVE OneRunningRowPerHost'
  BY <1>0, <1>22 DEF CheckPasses, StillRunning, Row
<1>23. ASSUME NEW t \in Tasks, CheckFails(t) PROVE OneRunningRowPerHost'
  BY <1>0, <1>23 DEF CheckFails, Ends, Row
<1>24. ASSUME NEW t \in Tasks, CommandSucceeds(t) PROVE OneRunningRowPerHost'
  BY <1>0, <1>24 DEF CommandSucceeds, Succeeds, Start, Ends, Row
<1>25. ASSUME NEW t \in Tasks, CommandFails(t) PROVE OneRunningRowPerHost'
  BY <1>0, <1>25 DEF CommandFails, Ends, Row
<1>26. ASSUME NEW t \in Tasks, CommandTimesOut(t) PROVE OneRunningRowPerHost'
  BY <1>0, <1>26 DEF CommandTimesOut, Ends, Row
<1>27. ASSUME NEW t \in Tasks, Finish(t) PROVE OneRunningRowPerHost'
  <2>1. outcome[t] # "running"
    BY <1>27 DEF Inv, Coroutines, Coroutine, Finish, Outcomes
  <2>. QED
    BY <1>0, <1>27, <2>1 DEF Finish, Row
<1>28. ASSUME NEW t \in Tasks, FinishRaises(t) PROVE OneRunningRowPerHost'
  BY <1>0, <1>28 DEF FinishRaises, Row
<1>29. CASE UNCHANGED vars
  BY <1>0, <1>29 DEF vars, api, worker, exec
<1>. QED
  BY <1>1, <1>2, <1>3, <1>4, <1>5, <1>6, <1>7, <1>8, <1>9, <1>10, <1>11, <1>12, <1>13,
     <1>14, <1>15, <1>16, <1>17, <1>18, <1>19, <1>20, <1>21, <1>22, <1>23, <1>24, <1>25,
     <1>26, <1>27, <1>28, <1>29, Requests
     DEF Next, ApiStep, ExecStep, WorkerStep, ClaimConflict, LoopFails

\* The commands of a runbook are started in order, each by the one before it.
LEMMA ProgressStep == Inv /\ [Next]_vars => Progress'
<1>. SUFFICES ASSUME Inv, [Next]_vars, NEW s \in Tasks PROVE Sent(s)'
  BY DEF Progress
<1>. USE DEF Sent, RunbookCommands, Status
<1>0. /\ row \in [Tasks -> Row] /\ row[s] \in Row /\ Sent(s) /\ Coroutine(s)
      /\ phase \in [Tasks -> Phases] /\ outcome \in [Tasks -> Outcomes \cup {None}]
      /\ begun \in [Tasks -> SUBSET Commands]
  BY DEF Inv, TypeOK, Coroutines, Progress
<1>1. ASSUME NEW t \in Tasks, NEW u \in Users, NEW h \in Hosts, NEW rb \in Runbooks,
             NEW a \in Alerts \cup {None}, NEW source \in Tasks \cup {None},
             Insert(t, h, rb, a, source, u) PROVE Sent(s)'
  <2>1. phase[t] = "none"
    BY <1>1 DEF Inv, Coroutines, Coroutine, Insert, Status, Outcomes
  <2>. QED
    BY <1>0, <1>1, <2>1 DEF Insert, exec, Row, NoRow
<1>2. ASSUME NEW t \in Tasks, NEW u \in Users, Approve(t, u) PROVE Sent(s)'
  BY <1>0, <1>2 DEF Approve, exec, Row, Coroutine, Active, Commands
<1>3. ASSUME NEW t \in Tasks, NEW u \in Users, Reject(t, u) PROVE Sent(s)'
  BY <1>0, <1>3 DEF Reject, exec, Row, Coroutine, Active, Commands
<1>4. ASSUME NEW t \in Tasks, Cancel(t) PROVE Sent(s)'
  BY <1>0, <1>4 DEF Cancel, exec, Row, Coroutine, Active, Commands
<1>5. ASSUME NEW t \in Tasks, ApprovalLapses(t) PROVE Sent(s)'
  BY <1>0, <1>5 DEF ApprovalLapses, exec, Row, Coroutine, Active, Commands
<1>6. ASSUME NEW t \in Tasks, ExecuteExpired(t) PROVE Sent(s)'
  BY <1>0, <1>6 DEF ExecuteExpired, exec, Row, Coroutine, Active, Commands
<1>7. ASSUME NEW t \in Tasks, ExecuteReadOnly(t) PROVE Sent(s)'
  BY <1>0, <1>7 DEF ExecuteReadOnly, Enqueue, ApprovalHolds, exec, Row, Coroutine, Active, Commands
<1>8. ASSUME NEW t \in Tasks, ExecuteChecksHost(t) PROVE Sent(s)'
  BY <1>0, <1>8 DEF ExecuteChecksHost, exec, Row, Coroutine, Active, Commands
<1>9. ASSUME NEW t \in Tasks, ExecuteQueued(t) PROVE Sent(s)'
  BY <1>0, <1>9 DEF ExecuteQueued, Enqueue, ApprovalHolds, exec, Row, Coroutine, Active, Commands
<1>10. ASSUME NEW t \in Tasks, ExecuteRefused(t) PROVE Sent(s)'
  BY <1>0, <1>10 DEF ExecuteRefused, exec, Row, Coroutine, Active, Commands
<1>11. ASSUME NEW t \in Tasks, HeartbeatLapses(t) PROVE Sent(s)'
  BY <1>0, <1>11 DEF HeartbeatLapses, exec, Row, Coroutine, Active, Commands
<1>12. ASSUME ReapStuck PROVE Sent(s)'
  BY <1>0, <1>12 DEF ReapStuck, Stuck, exec, Row, Coroutine, Active, Commands
<1>13. ASSUME ApiRestart PROVE Sent(s)'
  BY <1>0, <1>13 DEF ApiRestart, exec, Row, Coroutine, Active, Commands
<1>14. ASSUME NEW w \in Workers, NEW t \in Tasks, ClaimSelect(w, t) PROVE Sent(s)'
  BY <1>0, <1>14 DEF ClaimSelect, exec, Row, Coroutine, Active, Commands
<1>15. ASSUME NEW w \in Workers, NEW t \in Tasks, ClaimUpdate(w, t) PROVE Sent(s)'
  <2>1. Status(t) = "queued"
    BY <1>15, NoneAssumption DEF Inv, Claims, ClaimUpdate
  <2>. QED
    BY <1>0, <1>15, <2>1 DEF ClaimUpdate, Row, Coroutine, Outcomes
<1>16. ASSUME NEW w \in Workers, LeaveLoop(w) PROVE Sent(s)'
  BY <1>0, <1>16 DEF LeaveLoop, Busy, exec, Row, Coroutine, Active, Commands
<1>17. ASSUME NEW w \in Workers, WorkerStops(w) PROVE Sent(s)'
  BY <1>0, <1>17 DEF WorkerStops, exec, Row, Coroutine, Active, Commands
<1>18. ASSUME NEW w \in Workers, WorkerCrash(w) PROVE Sent(s)'
  BY <1>0, <1>18 DEF WorkerCrash, Busy, exec, Row, Coroutine, Active, Commands
<1>19. ASSUME NEW w \in Workers, WorkerRestart(w) PROVE Sent(s)'
  BY <1>0, <1>19 DEF WorkerRestart, exec, Row, Coroutine, Active, Commands
<1>20. ASSUME NEW t \in Tasks, Prepared(t) PROVE Sent(s)'
  <2>. QED
    BY <1>0, <1>20 DEF Prepared, Start, FirstCommand, Commands, Coroutine, Active
<1>21. ASSUME NEW t \in Tasks, PrepareFails(t) PROVE Sent(s)'
  BY <1>0, <1>21 DEF PrepareFails, Ends, exec, Row, Coroutine, Active, Commands
<1>22. ASSUME NEW t \in Tasks, CheckPasses(t) PROVE Sent(s)'
  BY <1>0, <1>22 DEF CheckPasses, StillRunning, exec, Row, Coroutine, Active, Commands
<1>23. ASSUME NEW t \in Tasks, CheckFails(t) PROVE Sent(s)'
  BY <1>0, <1>23 DEF CheckFails, Ends, exec, Row, Coroutine, Active, Commands
<1>24. ASSUME NEW t \in Tasks, CommandSucceeds(t) PROVE Sent(s)'
  <2>1. Status(t) # "succeeded"
    BY <1>24 DEF Inv, Coroutines, Coroutine, CommandSucceeds, Commands, Active
  <2>2. CASE phase[t] = "precheck" /\ Start(t, "execution")
    BY <1>0, <1>24, <2>1, <2>2 DEF CommandSucceeds, Succeeds, Start, Commands
  <2>3. CASE phase[t] = "execution" /\ row[t].runbook \in Mutating /\ Start(t, "verification")
    BY <1>0, <1>24, <2>1, <2>3 DEF CommandSucceeds, Succeeds, Start, Commands
  <2>4. CASE phase[t] = "execution" /\ row[t].runbook \notin Mutating /\ Ends(t, "succeeded")
    BY <1>0, <1>24, <2>1, <2>4 DEF CommandSucceeds, Succeeds, Ends, Commands
  <2>5. CASE phase[t] = "verification" /\ Ends(t, "succeeded")
    BY <1>0, <1>24, <2>1, <2>5 DEF CommandSucceeds, Succeeds, Ends, Commands
  <2>. QED
    BY <1>24, <2>2, <2>3, <2>4, <2>5 DEF CommandSucceeds, Succeeds
<1>25. ASSUME NEW t \in Tasks, CommandFails(t) PROVE Sent(s)'
  BY <1>0, <1>25 DEF CommandFails, Ends, exec, Row, Coroutine, Active, Commands
<1>26. ASSUME NEW t \in Tasks, CommandTimesOut(t) PROVE Sent(s)'
  BY <1>0, <1>26 DEF CommandTimesOut, Ends, exec, Row, Coroutine, Active, Commands
<1>27. ASSUME NEW t \in Tasks, Finish(t) PROVE Sent(s)'
  BY <1>0, <1>27 DEF Finish, exec, Row, Coroutine, Active, Commands
<1>28. ASSUME NEW t \in Tasks, FinishRaises(t) PROVE Sent(s)'
  BY <1>0, <1>28 DEF FinishRaises, exec, Row, Coroutine, Active, Commands
<1>29. CASE UNCHANGED vars
  BY <1>0, <1>29 DEF vars, api, worker, exec
<1>. QED
  BY <1>1, <1>2, <1>3, <1>4, <1>5, <1>6, <1>7, <1>8, <1>9, <1>10, <1>11, <1>12, <1>13,
     <1>14, <1>15, <1>16, <1>17, <1>18, <1>19, <1>20, <1>21, <1>22, <1>23, <1>24, <1>25,
     <1>26, <1>27, <1>28, <1>29, Requests
     DEF Next, ApiStep, ExecStep, WorkerStep, ClaimConflict, LoopFails

\* A cancel request is never taken back, so a late command can only fail its check.
LEMMA LateStep == Inv /\ [Next]_vars => Late'
<1>. SUFFICES ASSUME Inv, [Next]_vars PROVE Late'
  OBVIOUS
<1>. USE DEF Late
<1>0. /\ Late /\ row \in [Tasks -> Row] /\ \A s \in Tasks : row[s] \in Row
      /\ phase \in [Tasks -> Phases] /\ lateStart \subseteq Tasks
      /\ checked \subseteq Tasks /\ \A s \in Tasks : Coroutine(s)
  BY DEF Inv, TypeOK, Coroutines
<1>1. ASSUME NEW t \in Tasks, NEW u \in Users, NEW h \in Hosts, NEW rb \in Runbooks,
             NEW a \in Alerts \cup {None}, NEW source \in Tasks \cup {None},
             Insert(t, h, rb, a, source, u) PROVE Late'
  <2>1. phase[t] = "none"
    BY <1>1 DEF Inv, Coroutines, Coroutine, Insert, Status, Outcomes
  <2>. QED
    BY <1>0, <1>1, <2>1 DEF Insert, exec, Row, Commands
<1>2. ASSUME NEW t \in Tasks, NEW u \in Users, Approve(t, u) PROVE Late'
  BY <1>0, <1>2 DEF Approve, exec, Row, Commands
<1>3. ASSUME NEW t \in Tasks, NEW u \in Users, Reject(t, u) PROVE Late'
  BY <1>0, <1>3 DEF Reject, exec, Row, Commands
<1>4. ASSUME NEW t \in Tasks, Cancel(t) PROVE Late'
  BY <1>0, <1>4 DEF Cancel, exec, Row, Commands
<1>5. ASSUME NEW t \in Tasks, ApprovalLapses(t) PROVE Late'
  BY <1>0, <1>5 DEF ApprovalLapses, exec, Row, Commands
<1>6. ASSUME NEW t \in Tasks, ExecuteExpired(t) PROVE Late'
  BY <1>0, <1>6 DEF ExecuteExpired, exec, Row, Commands
<1>7. ASSUME NEW t \in Tasks, ExecuteReadOnly(t) PROVE Late'
  BY <1>0, <1>7 DEF ExecuteReadOnly, Enqueue, ApprovalHolds, exec, Row, Commands
<1>8. ASSUME NEW t \in Tasks, ExecuteChecksHost(t) PROVE Late'
  BY <1>0, <1>8 DEF ExecuteChecksHost, exec, Row, Commands
<1>9. ASSUME NEW t \in Tasks, ExecuteQueued(t) PROVE Late'
  BY <1>0, <1>9 DEF ExecuteQueued, Enqueue, ApprovalHolds, exec, Row, Commands
<1>10. ASSUME NEW t \in Tasks, ExecuteRefused(t) PROVE Late'
  BY <1>0, <1>10 DEF ExecuteRefused, exec, Row, Commands
<1>11. ASSUME NEW t \in Tasks, HeartbeatLapses(t) PROVE Late'
  BY <1>0, <1>11 DEF HeartbeatLapses, exec, Row, Commands
<1>12. ASSUME ReapStuck PROVE Late'
  BY <1>0, <1>12 DEF ReapStuck, Stuck, Status, exec, Row, Commands
<1>13. ASSUME ApiRestart PROVE Late'
  BY <1>0, <1>13 DEF ApiRestart, exec, Row, Commands
<1>14. ASSUME NEW w \in Workers, NEW t \in Tasks, ClaimSelect(w, t) PROVE Late'
  BY <1>0, <1>14 DEF ClaimSelect, exec, Row, Commands
<1>15. ASSUME NEW w \in Workers, NEW t \in Tasks, ClaimUpdate(w, t) PROVE Late'
  <2>1. Status(t) = "queued"
    BY <1>15, NoneAssumption DEF Inv, Claims, ClaimUpdate, Status
  <2>2. phase[t] = "none"
    BY <1>0, <2>1 DEF Coroutine, Outcomes
  <2>. QED
    BY <1>0, <1>15, <2>2 DEF ClaimUpdate, Row, Commands
<1>16. ASSUME NEW w \in Workers, LeaveLoop(w) PROVE Late'
  BY <1>0, <1>16 DEF LeaveLoop, Busy, exec, Row, Commands
<1>17. ASSUME NEW w \in Workers, WorkerStops(w) PROVE Late'
  BY <1>0, <1>17 DEF WorkerStops, exec, Row, Commands
<1>18. ASSUME NEW w \in Workers, WorkerCrash(w) PROVE Late'
  BY <1>0, <1>18 DEF WorkerCrash, Busy, exec, Row, Commands
<1>19. ASSUME NEW w \in Workers, WorkerRestart(w) PROVE Late'
  BY <1>0, <1>19 DEF WorkerRestart, exec, Row, Commands
<1>20. ASSUME NEW t \in Tasks, Prepared(t) PROVE Late'
  <2>1. FirstCommand(t) \in Commands
    BY DEF FirstCommand, Commands
  <2>. QED
    BY <1>0, <1>20, <2>1 DEF Prepared, Start, Commands
<1>21. ASSUME NEW t \in Tasks, PrepareFails(t) PROVE Late'
  BY <1>0, <1>21 DEF PrepareFails, Ends, exec, Row, Commands
<1>22. ASSUME NEW t \in Tasks, CheckPasses(t) PROVE Late'
  BY <1>0, <1>22 DEF CheckPasses, StillRunning, exec, Row, Commands
<1>23. ASSUME NEW t \in Tasks, CheckFails(t) PROVE Late'
  BY <1>0, <1>23 DEF CheckFails, Ends, exec, Row, Commands
<1>24. ASSUME NEW t \in Tasks, CommandSucceeds(t) PROVE Late'
  BY <1>0, <1>24 DEF CommandSucceeds, Succeeds, Start, Ends, exec, Row, Commands
<1>25. ASSUME NEW t \in Tasks, CommandFails(t) PROVE Late'
  BY <1>0, <1>25 DEF CommandFails, Ends, exec, Row, Commands
<1>26. ASSUME NEW t \in Tasks, CommandTimesOut(t) PROVE Late'
  BY <1>0, <1>26 DEF CommandTimesOut, Ends, exec, Row, Commands
<1>27. ASSUME NEW t \in Tasks, Finish(t) PROVE Late'
  BY <1>0, <1>27 DEF Finish, exec, Row, Commands
<1>28. ASSUME NEW t \in Tasks, FinishRaises(t) PROVE Late'
  BY <1>0, <1>28 DEF FinishRaises, exec, Row, Commands
<1>29. CASE UNCHANGED vars
  BY <1>0, <1>29 DEF vars, api, worker, exec
<1>. QED
  BY <1>1, <1>2, <1>3, <1>4, <1>5, <1>6, <1>7, <1>8, <1>9, <1>10, <1>11, <1>12, <1>13,
     <1>14, <1>15, <1>16, <1>17, <1>18, <1>19, <1>20, <1>21, <1>22, <1>23, <1>24, <1>25,
     <1>26, <1>27, <1>28, <1>29, Requests
     DEF Next, ApiStep, ExecStep, WorkerStep, ClaimConflict, LoopFails

\* Only a coroutine that ends without success leaves its command behind.
LEMMA LeftoverStep == Inv /\ [Next]_vars => Leftovers'
<1>. SUFFICES ASSUME Inv, [Next]_vars, NEW s \in Tasks PROVE Leftover(s)'
  BY DEF Leftovers
<1>. USE DEF Leftover, Status
<1>0. /\ Leftover(s) /\ row \in [Tasks -> Row] /\ row[s] \in Row
      /\ phase \in [Tasks -> Phases] /\ remote \subseteq Tasks
      /\ outcome \in [Tasks -> Outcomes \cup {None}] /\ Coroutine(s)
      /\ \A x \in Tasks : row[x] \in Row
  BY DEF Inv, TypeOK, Coroutines, Leftovers
<1>1. ASSUME NEW t \in Tasks, NEW u \in Users, NEW h \in Hosts, NEW rb \in Runbooks,
             NEW a \in Alerts \cup {None}, NEW source \in Tasks \cup {None},
             Insert(t, h, rb, a, source, u) PROVE Leftover(s)'
  <2>1. phase[t] = "none"
    BY <1>1 DEF Inv, Coroutines, Coroutine, Insert, Status, Outcomes
  <2>. QED
    BY <1>0, <1>1, <2>1 DEF Insert, exec, Row, Commands
<1>2. ASSUME NEW t \in Tasks, NEW u \in Users, Approve(t, u) PROVE Leftover(s)'
  BY <1>0, <1>2 DEF Approve, exec, Row, Commands
<1>3. ASSUME NEW t \in Tasks, NEW u \in Users, Reject(t, u) PROVE Leftover(s)'
  BY <1>0, <1>3 DEF Reject, exec, Row, Commands
<1>4. ASSUME NEW t \in Tasks, Cancel(t) PROVE Leftover(s)'
  BY <1>0, <1>4 DEF Cancel, exec, Row, Commands
<1>5. ASSUME NEW t \in Tasks, ApprovalLapses(t) PROVE Leftover(s)'
  BY <1>0, <1>5 DEF ApprovalLapses, exec, Row, Commands
<1>6. ASSUME NEW t \in Tasks, ExecuteExpired(t) PROVE Leftover(s)'
  BY <1>0, <1>6 DEF ExecuteExpired, exec, Row, Commands
<1>7. ASSUME NEW t \in Tasks, ExecuteReadOnly(t) PROVE Leftover(s)'
  BY <1>0, <1>7 DEF ExecuteReadOnly, Enqueue, ApprovalHolds, exec, Row, Commands
<1>8. ASSUME NEW t \in Tasks, ExecuteChecksHost(t) PROVE Leftover(s)'
  BY <1>0, <1>8 DEF ExecuteChecksHost, exec, Row, Commands
<1>9. ASSUME NEW t \in Tasks, ExecuteQueued(t) PROVE Leftover(s)'
  BY <1>0, <1>9 DEF ExecuteQueued, Enqueue, ApprovalHolds, exec, Row, Commands
<1>10. ASSUME NEW t \in Tasks, ExecuteRefused(t) PROVE Leftover(s)'
  BY <1>0, <1>10 DEF ExecuteRefused, exec, Row, Commands
<1>11. ASSUME NEW t \in Tasks, HeartbeatLapses(t) PROVE Leftover(s)'
  BY <1>0, <1>11 DEF HeartbeatLapses, exec, Row, Commands
<1>12. ASSUME ReapStuck PROVE Leftover(s)'
  BY <1>0, <1>12 DEF ReapStuck, Stuck, Status, exec, Row, Commands
<1>13. ASSUME ApiRestart PROVE Leftover(s)'
  BY <1>0, <1>13 DEF ApiRestart, exec, Row, Commands
<1>14. ASSUME NEW w \in Workers, NEW t \in Tasks, ClaimSelect(w, t) PROVE Leftover(s)'
  BY <1>0, <1>14 DEF ClaimSelect, exec, Row, Commands
<1>15. ASSUME NEW w \in Workers, NEW t \in Tasks, ClaimUpdate(w, t) PROVE Leftover(s)'
  <2>1. Status(t) = "queued"
    BY <1>15, NoneAssumption DEF Inv, Claims, ClaimUpdate, Status
  <2>. QED
    BY <1>0, <1>15, <2>1 DEF ClaimUpdate, Row
<1>16. ASSUME NEW w \in Workers, LeaveLoop(w) PROVE Leftover(s)'
  BY <1>0, <1>16 DEF LeaveLoop, Busy, exec, Row, Commands
<1>17. ASSUME NEW w \in Workers, WorkerStops(w) PROVE Leftover(s)'
  BY <1>0, <1>17 DEF WorkerStops, exec, Row, Commands
<1>18. ASSUME NEW w \in Workers, WorkerCrash(w) PROVE Leftover(s)'
  BY <1>0, <1>18 DEF WorkerCrash, Busy, exec, Row, Commands
<1>19. ASSUME NEW w \in Workers, WorkerRestart(w) PROVE Leftover(s)'
  BY <1>0, <1>19 DEF WorkerRestart, exec, Row, Commands
<1>20. ASSUME NEW t \in Tasks, Prepared(t) PROVE Leftover(s)'
  <2>1. FirstCommand(t) \in Commands
    BY DEF FirstCommand, Commands
  <2>2. Status(t) \in {"running", "timed_out"}
    BY <1>20 DEF Inv, Coroutines, Coroutine, Prepared, Active
  <2>. QED
    BY <1>0, <1>20, <2>1, <2>2 DEF Prepared, Start, Commands
<1>21. ASSUME NEW t \in Tasks, PrepareFails(t) PROVE Leftover(s)'
  BY <1>0, <1>21 DEF PrepareFails, Ends, exec, Row, Commands
<1>22. ASSUME NEW t \in Tasks, CheckPasses(t) PROVE Leftover(s)'
  BY <1>0, <1>22 DEF CheckPasses, StillRunning, exec, Row, Commands
<1>23. ASSUME NEW t \in Tasks, CheckFails(t) PROVE Leftover(s)'
  BY <1>0, <1>23 DEF CheckFails, Ends, exec, Row, Commands
<1>24. ASSUME NEW t \in Tasks, CommandSucceeds(t) PROVE Leftover(s)'
  <2>1. Status(t) \in {"running", "timed_out"}
    BY <1>24 DEF Inv, Coroutines, Coroutine, CommandSucceeds, Active
  <2>2. ASSUME NEW c \in Commands, Start(t, c) PROVE Leftover(s)'
    BY <1>0, <1>24, <2>1, <2>2 DEF CommandSucceeds, Start, Commands
  <2>3. ASSUME Succeeds(t) PROVE Leftover(s)'
    BY <1>0, <1>24, <2>3 DEF CommandSucceeds, Succeeds, Ends
  <2>. QED
    BY <1>24, <2>2, <2>3 DEF CommandSucceeds, Commands
<1>25. ASSUME NEW t \in Tasks, CommandFails(t) PROVE Leftover(s)'
  BY <1>0, <1>25 DEF CommandFails, Ends, exec, Row, Commands
<1>26. ASSUME NEW t \in Tasks, CommandTimesOut(t) PROVE Leftover(s)'
  BY <1>0, <1>26 DEF CommandTimesOut, Ends, exec, Row, Commands
<1>27. ASSUME NEW t \in Tasks, Finish(t) PROVE Leftover(s)'
  <2>1. outcome[t] \in Outcomes
    BY <1>27 DEF Inv, Coroutines, Coroutine, Finish
  <2>. QED
    BY <1>0, <1>27, <2>1 DEF Finish, Outcomes, Row, Commands
<1>28. ASSUME NEW t \in Tasks, FinishRaises(t) PROVE Leftover(s)'
  BY <1>0, <1>28 DEF FinishRaises, exec, Row, Commands
<1>29. CASE UNCHANGED vars
  BY <1>0, <1>29 DEF vars, api, worker, exec
<1>. QED
  BY <1>1, <1>2, <1>3, <1>4, <1>5, <1>6, <1>7, <1>8, <1>9, <1>10, <1>11, <1>12, <1>13,
     <1>14, <1>15, <1>16, <1>17, <1>18, <1>19, <1>20, <1>21, <1>22, <1>23, <1>24, <1>25,
     <1>26, <1>27, <1>28, <1>29, Requests
     DEF Next, ApiStep, ExecStep, WorkerStep, ClaimConflict, LoopFails

-----------------------------------------------------------------------------
(* The invariant holds in every state.                                      *)
\* An empty database and idle workers satisfy the invariant.
LEMMA InvInit == Init => Inv
<1>. SUFFICES ASSUME Init PROVE Inv
  OBVIOUS
<1>. USE DEF Init
<1>1. NoRow \in Row
  BY DEF NoRow, Row
<1>2. TypeOK
  BY <1>1, BoundAssumption DEF TypeOK, Phases
<1>3. \A t \in Tasks : Status(t) = "absent"
  BY DEF Status, NoRow
<1>4. Rows /\ Coroutines /\ Approvals /\ OneRunningRowPerHost
  BY <1>3 DEF Rows, Coroutines, Coroutine, Approvals, Approval, OneRunningRowPerHost, Active,
              Commands
<1>5. Claims /\ Progress /\ Late
  BY <1>3 DEF Claims, Progress, Sent, Late
<1>6. Leftovers
  BY DEF Leftovers, Leftover
<1>. QED
  BY <1>2, <1>4, <1>5, <1>6 DEF Inv

\* The strengthening from which every theorem below follows.
THEOREM Invariance == Spec => []Inv
<1>1. Inv /\ [Next]_vars => Inv'
  BY TypeStep, RowsStep, CoroutineStep, ApprovalStep, ClaimsStep, OneRunningStep,
     ProgressStep, LateStep, LeftoverStep DEF Inv
<1>. QED
  BY InvInit, <1>1, PTL DEF Spec

\* Every variable keeps its type: in particular no status is ever written that
\* the CHECK constraint of maintenance_tasks would refuse.
THEOREM TypeCorrect == Spec => []TypeOK
<1>1. Inv => TypeOK
  BY DEF Inv
<1>. QED
  BY Invariance, <1>1, PTL

\* However many workers claim at once, a host has one running row.
THEOREM OneRunningRow == Spec => []OneRunningRowPerHost
<1>1. Inv => OneRunningRowPerHost
  BY DEF Inv
<1>. QED
  BY Invariance, <1>1, PTL

\* Commands meet on a host only where one is left of a task that did not succeed.
THEOREM OverlapBounded == Spec => []OverlapOnlyWithAbandoned
<1>1. Inv => OverlapOnlyWithAbandoned
  <2>. SUFFICES ASSUME Inv, NEW s \in remote, NEW t \in remote, s # t,
                       row[s].host = row[t].host,
                       Status(s) \notin {"failed", "cancelled", "timed_out"}
                PROVE  Status(t) \in {"failed", "cancelled", "timed_out"}
    BY DEF OverlapOnlyWithAbandoned
  <2>1. s \in Tasks /\ t \in Tasks
    BY DEF Inv, TypeOK
  <2>2. Status(s) = "running" /\ Status(t) \in {"running", "failed", "cancelled", "timed_out"}
    BY <2>1 DEF Inv, Leftovers, Leftover
  <2>. QED
    BY <2>1, <2>2 DEF Inv, OneRunningRowPerHost
<1>. QED
  BY Invariance, <1>1, PTL

\* Nothing is queued or run, and no command sent, without an approval, which is
\* an independent one for medium and high risk, retries included.
THEOREM OnlyApproved == Spec => []RunsOnlyApproved
<1>1. Inv => RunsOnlyApproved
  <2>. SUFFICES ASSUME Inv, NEW t \in Tasks,
                       \/ Status(t) \in {"queued", "running", "succeeded", "timed_out"}
                       \/ begun[t] # {}
                PROVE  Approved(t)
    BY DEF RunsOnlyApproved
  <2>1. Status(t) = "queued" \/ phase[t] # "none"
    BY DEF Inv, Coroutines, Coroutine, Progress, Sent
  <2>. QED
    BY <2>1 DEF Inv, Approvals, Approval
<1>. QED
  BY Invariance, <1>1, PTL

\* A task is recorded as succeeded only when its whole runbook was sent.
THEOREM SucceededComplete == Spec => []SucceededRanEverything
<1>1. Inv => SucceededRanEverything
  BY DEF Inv, Progress, Sent, SucceededRanEverything
<1>. QED
  BY Invariance, <1>1, PTL

-----------------------------------------------------------------------------
(* What a step may never do.                                                *)

\* Two actions send a command to a host.
LEMMA OnlyTheseStart ==
    ASSUME TypeOK, Next, NEW t \in Tasks, phase[t]' # phase[t], phase[t]' \in Commands
    PROVE  Prepared(t) \/ CommandSucceeds(t)
<1>. USE DEF TypeOK, Commands
<1>1. ASSUME NEW s \in Tasks, ApiStep(s) PROVE FALSE
  BY <1>1 DEF ApiStep, Create, CreateFromAlert, Retry, Insert, Approve, Reject, Cancel,
      ApprovalLapses, ExecuteExpired, ExecuteReadOnly, ExecuteChecksHost, ExecuteQueued,
      ExecuteRefused, HeartbeatLapses, exec
<1>2. ASSUME NEW s \in Tasks, ExecStep(s), s # t PROVE FALSE
  BY <1>2 DEF ExecStep, Prepared, PrepareFails, CheckPasses, CheckFails, CommandSucceeds,
      Succeeds, CommandFails, CommandTimesOut, Finish, FinishRaises, Start, Ends
<1>3. ASSUME ExecStep(t) PROVE Prepared(t) \/ CommandSucceeds(t)
  BY <1>3 DEF ExecStep, PrepareFails, CheckPasses, CheckFails, CommandFails,
      CommandTimesOut, Finish, FinishRaises, Ends
<1>4. ASSUME NEW w \in Workers, WorkerStep(w) PROVE FALSE
  <2>1. ASSUME NEW s \in Tasks, ClaimSelect(w, s) \/ ClaimUpdate(w, s) PROVE FALSE
    BY <2>1 DEF ClaimSelect, ClaimUpdate, exec
  <2>2. ASSUME LeaveLoop(w) PROVE FALSE
    BY <2>2 DEF LeaveLoop
  <2>3. ASSUME WorkerStops(w) \/ WorkerCrash(w) \/ WorkerRestart(w) PROVE FALSE
    BY <2>3 DEF WorkerStops, WorkerCrash, WorkerRestart, exec
  <2>. QED
    BY <1>4, <2>1, <2>2, <2>3 DEF WorkerStep, ClaimConflict, LoopFails
<1>5. ASSUME ReapStuck \/ ApiRestart PROVE FALSE
  BY <1>5 DEF ReapStuck, ApiRestart, exec
<1>. QED
  BY <1>1, <1>2, <1>3, <1>4, <1>5 DEF Next

\* No command of a task is sent twice, whatever crashes and whoever recovers.
THEOREM RunOnce == Spec => CommandsRunOnce
<1>1. Inv /\ [Next]_vars =>
        [\A t \in Tasks : phase[t]' # phase[t] /\ phase[t]' \in Commands
                          => phase[t]' \notin begun[t]]_vars
  <2>. SUFFICES ASSUME Inv, Next, NEW t \in Tasks, phase[t]' # phase[t], phase[t]' \in Commands
                PROVE  phase[t]' \notin begun[t]
    OBVIOUS
  <2>1. /\ TypeOK /\ phase \in [Tasks -> Phases] /\ Sent(t)
    BY DEF Inv, TypeOK, Progress
  <2>2. CASE Prepared(t)
    BY <2>1, <2>2 DEF Prepared, Start, Sent
  <2>3. CASE CommandSucceeds(t)
    BY <2>1, <2>3 DEF CommandSucceeds, Succeeds, Start, Ends, Sent, RunbookCommands, Commands
  <2>. QED
    BY <2>1, <2>2, <2>3, OnlyTheseStart
<1>. QED
  BY Invariance, <1>1, PTL DEF Spec, CommandsRunOnce

\* A cancel request leaves room for one command to start, never for two.
THEOREM CancelStops == Spec => CancelStopsCommands
<1>1. Inv /\ [Next]_vars =>
        [\A t \in Tasks : phase[t]' # phase[t] /\ phase[t]' \in Commands
                          => t \notin lateStart]_vars
  <2>. SUFFICES ASSUME Inv, Next, NEW t \in Tasks, phase[t]' # phase[t], phase[t]' \in Commands
                PROVE  t \notin lateStart
    OBVIOUS
  <2>1. TypeOK /\ Late
    BY DEF Inv
  <2>2. CASE Prepared(t)
    BY <2>1, <2>2 DEF Prepared, Late, Commands
  <2>3. CASE CommandSucceeds(t)
    BY <2>1, <2>3 DEF CommandSucceeds, Succeeds, Late
  <2>. QED
    BY <2>1, <2>2, <2>3, OnlyTheseStart
<1>. QED
  BY Invariance, <1>1, PTL DEF Spec, CancelStopsCommands

\* What has ended is rewritten by a worker that outlived its reaped task, or not at all.
LEMMA OnlyFinishRewrites ==
    ASSUME Inv, [Next]_vars, NEW s \in Tasks,
           Status(s) \in TerminalStatus, Status(s)' # Status(s)
    PROVE  Finish(s) /\ Status(s) = "timed_out"
<1>. USE DEF Status, TerminalStatus, OpenStatus
<1>0. /\ row \in [Tasks -> Row] /\ \A x \in Tasks : row[x] \in Row /\ Coroutine(x)
  BY DEF Inv, TypeOK, Coroutines
<1>1. ASSUME NEW t \in Tasks, NEW u \in Users, NEW h \in Hosts, NEW rb \in Runbooks,
             NEW a \in Alerts \cup {None}, NEW source \in Tasks \cup {None},
             Insert(t, h, rb, a, source, u) PROVE Finish(s) /\ Status(s) = "timed_out"
  BY <1>0, <1>1 DEF Insert, Row
<1>2. ASSUME NEW t \in Tasks, NEW u \in Users, Approve(t, u)
      PROVE Finish(s) /\ Status(s) = "timed_out"
  BY <1>0, <1>2 DEF Approve, Row
<1>3. ASSUME NEW t \in Tasks, NEW u \in Users, Reject(t, u)
      PROVE Finish(s) /\ Status(s) = "timed_out"
  BY <1>0, <1>3 DEF Reject, Row
<1>4. ASSUME NEW t \in Tasks, Cancel(t) PROVE Finish(s) /\ Status(s) = "timed_out"
  BY <1>0, <1>4 DEF Cancel, Row
<1>5. ASSUME NEW t \in Tasks, ApprovalLapses(t)
      PROVE Finish(s) /\ Status(s) = "timed_out"
  BY <1>0, <1>5 DEF ApprovalLapses, Row
<1>6. ASSUME NEW t \in Tasks, ExecuteExpired(t)
      PROVE Finish(s) /\ Status(s) = "timed_out"
  BY <1>0, <1>6 DEF ExecuteExpired, Row
<1>7. ASSUME NEW t \in Tasks, ExecuteReadOnly(t)
      PROVE Finish(s) /\ Status(s) = "timed_out"
  BY <1>0, <1>7 DEF ExecuteReadOnly, Enqueue, ApprovalHolds, Row
<1>8. ASSUME NEW t \in Tasks, ExecuteChecksHost(t)
      PROVE Finish(s) /\ Status(s) = "timed_out"
  BY <1>0, <1>8 DEF ExecuteChecksHost, Row
<1>9. ASSUME NEW t \in Tasks, ExecuteQueued(t)
      PROVE Finish(s) /\ Status(s) = "timed_out"
  BY <1>0, <1>9 DEF ExecuteQueued, Enqueue, ApprovalHolds, Row
<1>10. ASSUME NEW t \in Tasks, ExecuteRefused(t)
      PROVE Finish(s) /\ Status(s) = "timed_out"
  BY <1>0, <1>10 DEF ExecuteRefused, Row
<1>11. ASSUME NEW t \in Tasks, HeartbeatLapses(t)
      PROVE Finish(s) /\ Status(s) = "timed_out"
  BY <1>0, <1>11 DEF HeartbeatLapses, Row
<1>12. ASSUME ReapStuck PROVE Finish(s) /\ Status(s) = "timed_out"
  BY <1>0, <1>12 DEF ReapStuck, Stuck, Row
<1>13. ASSUME ApiRestart PROVE Finish(s) /\ Status(s) = "timed_out"
  BY <1>0, <1>13 DEF ApiRestart, Row
<1>14. ASSUME NEW w \in Workers, NEW t \in Tasks, ClaimSelect(w, t)
      PROVE Finish(s) /\ Status(s) = "timed_out"
  BY <1>0, <1>14 DEF ClaimSelect, Row
<1>15. ASSUME NEW w \in Workers, NEW t \in Tasks, ClaimUpdate(w, t)
      PROVE Finish(s) /\ Status(s) = "timed_out"
  <2>1. Status(t) = "queued"
    BY <1>15, NoneAssumption DEF Inv, Claims, ClaimUpdate
  <2>. QED
    BY <1>0, <1>15, <2>1 DEF ClaimUpdate, Row
<1>16. ASSUME NEW w \in Workers, LeaveLoop(w)
      PROVE Finish(s) /\ Status(s) = "timed_out"
  BY <1>0, <1>16 DEF LeaveLoop, Busy, Row
<1>17. ASSUME NEW w \in Workers, WorkerStops(w)
      PROVE Finish(s) /\ Status(s) = "timed_out"
  BY <1>0, <1>17 DEF WorkerStops, Row
<1>18. ASSUME NEW w \in Workers, WorkerCrash(w)
      PROVE Finish(s) /\ Status(s) = "timed_out"
  BY <1>0, <1>18 DEF WorkerCrash, Busy, Row
<1>19. ASSUME NEW w \in Workers, WorkerRestart(w)
      PROVE Finish(s) /\ Status(s) = "timed_out"
  BY <1>0, <1>19 DEF WorkerRestart, Row
<1>20. ASSUME NEW t \in Tasks, Prepared(t) PROVE Finish(s) /\ Status(s) = "timed_out"
  BY <1>0, <1>20 DEF Prepared, Start, Row
<1>21. ASSUME NEW t \in Tasks, PrepareFails(t)
      PROVE Finish(s) /\ Status(s) = "timed_out"
  BY <1>0, <1>21 DEF PrepareFails, Ends, Row
<1>22. ASSUME NEW t \in Tasks, CheckPasses(t)
      PROVE Finish(s) /\ Status(s) = "timed_out"
  BY <1>0, <1>22 DEF CheckPasses, StillRunning, Row
<1>23. ASSUME NEW t \in Tasks, CheckFails(t)
      PROVE Finish(s) /\ Status(s) = "timed_out"
  BY <1>0, <1>23 DEF CheckFails, Ends, Row
<1>24. ASSUME NEW t \in Tasks, CommandSucceeds(t)
      PROVE Finish(s) /\ Status(s) = "timed_out"
  BY <1>0, <1>24 DEF CommandSucceeds, Succeeds, Start, Ends, Row
<1>25. ASSUME NEW t \in Tasks, CommandFails(t)
      PROVE Finish(s) /\ Status(s) = "timed_out"
  BY <1>0, <1>25 DEF CommandFails, Ends, Row
<1>26. ASSUME NEW t \in Tasks, CommandTimesOut(t)
      PROVE Finish(s) /\ Status(s) = "timed_out"
  BY <1>0, <1>26 DEF CommandTimesOut, Ends, Row
<1>27. ASSUME NEW t \in Tasks, Finish(t) PROVE Finish(s) /\ Status(s) = "timed_out"
  <2>1. phase[t] = "finishing" /\ Status(t) \in {"running", "timed_out"}
    BY <1>0, <1>27 DEF Finish, Coroutine, Active
  <2>2. s = t
    BY <1>0, <1>27 DEF Finish
  <2>. QED
    BY <1>27, <2>1, <2>2
<1>28. ASSUME NEW t \in Tasks, FinishRaises(t)
      PROVE Finish(s) /\ Status(s) = "timed_out"
  BY <1>0, <1>28 DEF FinishRaises, Row
<1>29. CASE UNCHANGED vars
  BY <1>0, <1>29 DEF vars, api, worker, exec
<1>. QED
  BY <1>1, <1>2, <1>3, <1>4, <1>5, <1>6, <1>7, <1>8, <1>9, <1>10, <1>11, <1>12, <1>13,
     <1>14, <1>15, <1>16, <1>17, <1>18, <1>19, <1>20, <1>21, <1>22, <1>23, <1>24, <1>25,
     <1>26, <1>27, <1>28, <1>29, Requests
     DEF Next, ApiStep, ExecStep, WorkerStep, ClaimConflict, LoopFails

\* A settled status is final but for the late report on a reaped task.
THEOREM Settled == Spec => SettledStays
<1>1. Inv /\ [Next]_vars =>
        [\A t \in Tasks : Status(t) \in TerminalStatus /\ Status(t)' # Status(t)
                          => Status(t) = "timed_out" /\ phase[t] = "finishing"]_vars
  BY OnlyFinishRewrites DEF Finish
<1>. QED
  BY Invariance, <1>1, PTL DEF Spec, SettledStays

\* Between the two transactions of an execute request the approval may lapse; the
\* second one asks again, so nothing enters the queue on a lapsed approval.
THEOREM LiveApproval == Spec => QueuedUnderLiveApproval
<1>1. Inv /\ [Next]_vars =>
        [\A t \in Tasks : Status(t) = "approved" /\ Status(t)' = "queued"
                          => ~row[t].lapsed]_vars
  <2>. SUFFICES ASSUME Inv, Next, NEW t \in Tasks, Status(t) = "approved", Status(t)' = "queued"
                PROVE  ~row[t].lapsed
    OBVIOUS
  <2>. USE DEF Status
  <2>1. /\ row \in [Tasks -> Row] /\ \A x \in Tasks : row[x] \in Row
        /\ \A w \in Workers : claim[w] # None => Status(claim[w]) = "queued"
    BY DEF Inv, TypeOK, Claims
  <2>2. /\ \A x \in Tasks : phase[x] # "none" => Status(x) \in {"running"} \cup Outcomes
        /\ phase[t] = "none"
    BY DEF Inv, Coroutines, Coroutine, Outcomes
  <2>3. ASSUME NEW s \in Tasks, NEW u \in Users, Approve(s, u) \/ Reject(s, u) PROVE FALSE
    BY <2>1, <2>3 DEF Approve, Reject, Row
  <2>4. ASSUME NEW s \in Tasks, NEW h \in Hosts, NEW rb \in Runbooks, NEW u \in Users,
               NEW a \in Alerts \cup {None}, NEW source \in Tasks \cup {None},
               Insert(s, h, rb, a, source, u) PROVE FALSE
    BY <2>1, <2>4 DEF Insert, Row
  <2>5. ASSUME NEW s \in Tasks, Cancel(s) \/ ApprovalLapses(s) \/ HeartbeatLapses(s) PROVE FALSE
    BY <2>1, <2>5 DEF Cancel, ApprovalLapses, HeartbeatLapses, Row
  <2>6. ASSUME NEW s \in Tasks, ExecuteExpired(s) \/ ExecuteChecksHost(s) \/ ExecuteRefused(s)
        PROVE  FALSE
    BY <2>1, <2>6 DEF ExecuteExpired, ExecuteChecksHost, ExecuteRefused, Row
  <2>7. ASSUME NEW s \in Tasks, ExecuteReadOnly(s) \/ ExecuteQueued(s) PROVE ~row[t].lapsed
    BY <2>1, <2>7 DEF ExecuteReadOnly, ExecuteQueued, Enqueue, ApprovalHolds, Row
  <2>8. ASSUME NEW s \in Tasks, ExecStep(s) PROVE FALSE
    <3>1. CASE CheckPasses(s)
      BY <2>1, <3>1 DEF CheckPasses, Row
    <3>2. CASE Finish(s)
      BY <2>1, <2>2, <3>2 DEF Finish, Row
    <3>3. CASE UNCHANGED row
      BY <3>3
    <3>. QED
      BY <2>8, <3>1, <3>2, <3>3 DEF ExecStep, Prepared, PrepareFails, CheckFails,
         CommandSucceeds, CommandFails, CommandTimesOut, FinishRaises
  <2>9. ASSUME NEW w \in Workers, WorkerStep(w) PROVE FALSE
    <3>1. ASSUME NEW s \in Tasks, ClaimUpdate(w, s) PROVE FALSE
      BY <2>1, <3>1, NoneAssumption DEF ClaimUpdate, Row
    <3>2. CASE UNCHANGED row
      BY <3>2
    <3>. QED
      BY <2>9, <3>1, <3>2 DEF WorkerStep, ClaimSelect, ClaimConflict, LoopFails, LeaveLoop,
         WorkerStops, WorkerCrash, WorkerRestart
  <2>10. ASSUME ReapStuck \/ ApiRestart PROVE FALSE
    BY <2>1, <2>10 DEF ReapStuck, Stuck, ApiRestart, Row
  <2>. QED
    BY <2>3, <2>4, <2>5, <2>6, <2>7, <2>8, <2>9, <2>10, Requests DEF Next, ApiStep
<1>. QED
  BY Invariance, <1>1, PTL DEF Spec, QueuedUnderLiveApproval

-----------------------------------------------------------------------------
(* MaintenanceTasks implements ApprovalGate.                                *)

Gates == [t \in Tasks |-> GateDecision(t)]
Begun == {t \in Tasks : begun[t] # {}}

\* A step that decides about one task moves one gate.
LEMMA GateMoves ==
    ASSUME NEW t \in Tasks, NEW d, GateDecision(t)' = d, begun' = begun,
           \A x \in Tasks \ {t} : GateDecision(x)' = GateDecision(x)
    PROVE  Gates' = [Gates EXCEPT ![t] = d] /\ Begun' = Begun
BY DEF Gates, Begun

\* The INSERT of create, create-from-alert and retry opens the gate.
LEMMA RequestIsRequest ==
    ASSUME Inv, NEW t \in Tasks, NEW u \in Users, NEW h \in Hosts, NEW rb \in Runbooks,
           NEW a \in Alerts \cup {None}, NEW source \in Tasks \cup {None},
           Insert(t, h, rb, a, source, u)
    PROVE  \E s \in BOOLEAN : Gate!Request(t, u, s)
<1>1. /\ row \in [Tasks -> Row] /\ \A x \in Tasks : row[x] \in Row
      /\ phase[t] = "none"
  BY DEF Inv, TypeOK, Coroutines, Coroutine, Insert, Outcomes
<1>2. row'[t] = [NoRow EXCEPT !.status = "pending", !.host = h, !.runbook = rb,
                              !.alert = a, !.retryOf = source, !.requestedBy = u]
  BY <1>1 DEF Insert
<1>3. \A x \in Tasks \ {t} : GateDecision(x)' = GateDecision(x)
  BY <1>1 DEF Insert, GateDecision, GateStage, Sensitive, Status, exec
<1>4. GateDecision(t)' = [stage |-> "requested", sensitive |-> Risk[rb] \in {"medium", "high"},
                          requester |-> u, approver |-> None]
  BY <1>1, <1>2 DEF Insert, GateDecision, GateStage, Sensitive, Status, exec, NoRow
<1>5. Gates[t].stage = "unknown"
  BY <1>1 DEF Insert, Gates, GateDecision, GateStage, Status
<1>6. Gate!Request(t, u, Risk[rb] \in {"medium", "high"})
  BY <1>3, <1>4, <1>5, GateMoves DEF Gate!Request, Gates, Begun, Insert, exec
<1>7. (Risk[rb] \in {"medium", "high"}) \in BOOLEAN
  OBVIOUS
<1>. QED
  BY <1>6, <1>7, Zenon

\* approve_maintenance_task grants, to nobody who asked for a sensitive runbook.
LEMMA ApproveIsGrant ==
    ASSUME Inv, NEW t \in Tasks, NEW u \in Users, Approve(t, u)
    PROVE  Gate!Grant(t, u)
<1>1. /\ row \in [Tasks -> Row] /\ \A x \in Tasks : row[x] \in Row
      /\ phase[t] = "none"
  BY DEF Inv, TypeOK, Coroutines, Coroutine, Approve, Outcomes
<1>2. \A x \in Tasks \ {t} : GateDecision(x)' = GateDecision(x)
  BY <1>1 DEF Approve, GateDecision, GateStage, Sensitive, Status, exec
<1>3. GateDecision(t)' = [stage |-> "granted", sensitive |-> Sensitive(t),
                          requester |-> row[t].requestedBy, approver |-> u]
  <2>1. /\ row'[t].status = "approved" /\ row'[t].approvedBy = u
        /\ row'[t].runbook = row[t].runbook /\ row'[t].requestedBy = row[t].requestedBy
        /\ phase'[t] = "none"
    BY <1>1 DEF Approve, exec, Row
  <2>. QED
    BY <2>1 DEF GateDecision, GateStage, Sensitive, Status
<1>4. /\ Gates[t].stage = "requested"
      /\ Gates[t].sensitive => u # Gates[t].requester
  BY <1>1 DEF Approve, Gates, GateDecision, GateStage, Sensitive, Status
<1>5. /\ Gates' = [Gates EXCEPT ![t] = [stage |-> "granted", sensitive |-> Sensitive(t),
                                       requester |-> row[t].requestedBy, approver |-> u]]
      /\ Begun' = Begun
  BY <1>2, <1>3, GateMoves DEF Approve, exec
<1>6. Gates[t].sensitive = Sensitive(t) /\ Gates[t].requester = row[t].requestedBy
  BY DEF Gates, GateDecision
<1>. QED
  BY <1>4, <1>5, <1>6 DEF Gate!Grant, Gates, Begun

\* Closing: what an administrator withdraws or the clock expires before the claim.
LEMMA WithdrawalCloses ==
    ASSUME Inv, NEW t \in Tasks, UNCHANGED begun, UNCHANGED phase,
           Status(t) \in {"pending", "approved", "queued"}, phase[t] = "none",
           \A x \in Tasks \ {t} : row'[x] = row[x],
           row'[t].status \in {"rejected", "cancelled", "failed"},
           row'[t].runbook = row[t].runbook,
           row'[t].requestedBy = row[t].requestedBy,
           row'[t].status # "rejected" => row'[t].approvedBy = row[t].approvedBy,
           row'[t].status = "rejected" => row[t].approvedBy = None
    PROVE  Gate!Close(t)
<1>1. \A x \in Tasks \ {t} : GateDecision(x)' = GateDecision(x)
  BY DEF GateDecision, GateStage, Sensitive, Status
<1>2. GateDecision(t)' = [GateDecision(t) EXCEPT !.stage = "closed"]
  BY DEF GateDecision, GateStage, Sensitive, Status
<1>3. Gates[t].stage \in {"requested", "granted", "released"}
  BY DEF Gates, GateDecision, GateStage, Status
<1>4. Gates' = [Gates EXCEPT ![t] = [@ EXCEPT !.stage = "closed"]] /\ Begun' = Begun
  BY <1>1, <1>2, GateMoves DEF Gates
<1>. QED
  BY <1>3, <1>4 DEF Gate!Close, Gates, Begun

\* A step of one task that keeps its parties moves the stage of its gate alone.
LEMMA StageMoves ==
    ASSUME NEW t \in Tasks, NEW stage, GateStage(t)' = stage, begun' = begun,
           \A x \in Tasks \ {t} : row'[x] = row[x] /\ phase'[x] = phase[x],
           row'[t].runbook = row[t].runbook,
           row'[t].requestedBy = row[t].requestedBy,
           row'[t].approvedBy = row[t].approvedBy,
           Status(t) # "rejected", Status(t)' # "rejected"
    PROVE  Gates' = [Gates EXCEPT ![t].stage = stage] /\ Begun' = Begun
<1>1. \A x \in Tasks \ {t} : GateDecision(x)' = GateDecision(x)
  BY DEF GateDecision, GateStage, Sensitive, Status
<1>2. Sensitive(t)' = Sensitive(t)
  BY DEF Sensitive
<1>3. GateDecision(t)' = [GateDecision(t) EXCEPT !.stage = stage]
  BY <1>2 DEF GateDecision, Status
<1>. QED
  BY <1>1, <1>3, GateMoves DEF Gates

\* The second transaction of execute, or the only one of a read-only runbook.
LEMMA QueueingIsRelease ==
    ASSUME Inv, NEW t \in Tasks, ExecuteReadOnly(t) \/ ExecuteQueued(t)
    PROVE  Gate!Release(t)
<1>1. /\ row \in [Tasks -> Row] /\ \A x \in Tasks : row[x] \in Row
      /\ Status(t) = "approved" /\ phase[t] = "none"
  BY DEF Inv, TypeOK, Coroutines, Coroutine, ExecuteReadOnly, ExecuteQueued, ApprovalHolds,
         Outcomes
<1>2. row' = [row EXCEPT ![t].status = "queued"] /\ UNCHANGED exec
  BY DEF ExecuteReadOnly, ExecuteQueued, Enqueue
<1>3. GateStage(t) = "granted" /\ GateStage(t)' = "released"
  BY <1>1, <1>2 DEF GateStage, Status, exec
<1>4. Gates' = [Gates EXCEPT ![t].stage = "released"] /\ Begun' = Begun
  BY <1>1, <1>2, <1>3, StageMoves DEF Status, exec
<1>. QED
  BY <1>3, <1>4 DEF Gate!Release, Gates, Begun, GateDecision

\* The commit of claim_task dispatches.
LEMMA ClaimIsDispatch ==
    ASSUME Inv, NEW w \in Workers, NEW t \in Tasks, ClaimUpdate(w, t)
    PROVE  Gate!Dispatch(t)
<1>1. /\ row \in [Tasks -> Row] /\ \A x \in Tasks : row[x] \in Row
      /\ phase \in [Tasks -> Phases] /\ Status(t) = "queued" /\ phase[t] = "none"
  BY NoneAssumption DEF Inv, TypeOK, Coroutines, Coroutine, Claims, ClaimUpdate, Outcomes
<1>2. /\ row' = [row EXCEPT ![t] = [@ EXCEPT !.status = "running", !.worker = w,
                                             !.stale = FALSE]]
      /\ phase' = [phase EXCEPT ![t] = "preparing"] /\ begun' = begun
  BY <1>1 DEF ClaimUpdate
<1>3. /\ row'[t].status = "running" /\ row'[t].runbook = row[t].runbook
      /\ row'[t].requestedBy = row[t].requestedBy /\ row'[t].approvedBy = row[t].approvedBy
      /\ \A x \in Tasks \ {t} : row'[x] = row[x] /\ phase'[x] = phase[x]
  BY <1>1, <1>2 DEF Row
<1>4. GateStage(t) = "released" /\ GateStage(t)' = "dispatched"
  BY <1>1, <1>2 DEF GateStage, Status
<1>5. Gates' = [Gates EXCEPT ![t].stage = "dispatched"] /\ Begun' = Begun
  BY <1>1, <1>2, <1>3, <1>4, StageMoves DEF Status
<1>. QED
  BY <1>4, <1>5 DEF Gate!Dispatch, Gates, Begun, GateDecision

\* The coroutine of a dispatched task starts its first command.
LEMMA FirstCommandBegins ==
    ASSUME Inv, NEW t \in Tasks, Prepared(t)
    PROVE  Gate!BeginOnHost(t)
<1>1. /\ begun \in [Tasks -> SUBSET Commands] /\ phase \in [Tasks -> Phases]
      /\ phase[t] = "preparing"
  BY DEF Inv, TypeOK, Prepared
<1>2. /\ row' = row /\ phase' = [phase EXCEPT ![t] = FirstCommand(t)]
      /\ begun' = [begun EXCEPT ![t] = @ \cup {FirstCommand(t)}]
  BY DEF Prepared, Start
<1>3. \A x \in Tasks : GateDecision(x)' = GateDecision(x)
  BY <1>1, <1>2 DEF GateDecision, GateStage, Sensitive, Status, FirstCommand
<1>4. Gates' = Gates
  BY <1>3 DEF Gates
<1>5. Begun' = Begun \cup {t}
  BY <1>1, <1>2 DEF Begun
<1>6. Gates[t].stage = "dispatched"
  BY <1>1 DEF Gates, GateDecision, GateStage
<1>. QED
  BY <1>4, <1>5, <1>6 DEF Gate!BeginOnHost, Gates, Begun

\* What happens behind the gate, or without a status, is hidden by it.
LEMMA HiddenStutters ==
    ASSUME Inv,
           \A x \in Tasks :
               /\ row'[x].runbook = row[x].runbook
               /\ row'[x].requestedBy = row[x].requestedBy
               /\ row'[x].approvedBy = row[x].approvedBy
               /\ phase[x] = "none" => phase'[x] = "none" /\ row'[x].status = row[x].status
               /\ phase[x] # "none" => phase'[x] # "none" /\ row'[x].status # "rejected"
               /\ begun'[x] = {} <=> begun[x] = {}
    PROVE  UNCHANGED Gate!vars
<1>1. \A x \in Tasks : phase[x] # "none" => row[x].status # "rejected"
  BY DEF Inv, Coroutines, Coroutine, Outcomes, Status
<1>2. \A x \in Tasks : GateDecision(x)' = GateDecision(x)
  BY <1>1 DEF GateDecision, GateStage, Sensitive, Status
<1>3. Gates' = Gates /\ Begun' = Begun
  BY <1>2 DEF Gates, Begun
<1>. QED
  BY <1>3 DEF Gate!vars, Gates, Begun

\* A step that touches neither rows nor coroutines moves no gate.
LEMMA UnchangedStutters ==
    ASSUME Inv, UNCHANGED <<row, exec>>
    PROVE  UNCHANGED Gate!vars
<1>1. \A x \in Tasks : phase[x] # "none" => row[x].status # "rejected"
  BY DEF Inv, Coroutines, Coroutine, Outcomes, Status
<1>. QED
  BY <1>1, HiddenStutters DEF exec

\* Flags, heartbeats and the reaper leave every gate where it is.
LEMMA RowKeepsGate ==
    ASSUME Inv,
           \/ \E t \in Tasks : \/ ApprovalLapses(t) \/ HeartbeatLapses(t) \/ CheckPasses(t)
                               \/ Cancel(t) /\ Status(t) = "running"
           \/ ReapStuck
    PROVE  UNCHANGED Gate!vars
<1>. DEFINE Keeps == \A x \in Tasks :
                 /\ row'[x].runbook = row[x].runbook
                 /\ row'[x].requestedBy = row[x].requestedBy
                 /\ row'[x].approvedBy = row[x].approvedBy
                 /\ phase[x] = "none" => row'[x].status = row[x].status
                 /\ phase[x] # "none" => row'[x].status # "rejected"
<1>. USE DEF Status
<1>1. /\ row \in [Tasks -> Row] /\ \A x \in Tasks : row[x] \in Row
      /\ \A x \in Tasks : phase[x] = "none" => row[x].status # "running"
      /\ \A x \in Tasks : phase[x] # "none" => row[x].status # "rejected"
  BY DEF Inv, TypeOK, Coroutines, Coroutine, Outcomes
<1>2. ASSUME NEW t \in Tasks, ApprovalLapses(t) PROVE Keeps
  BY <1>1, <1>2 DEF ApprovalLapses, Row
<1>3. ASSUME NEW t \in Tasks, HeartbeatLapses(t) PROVE Keeps
  BY <1>1, <1>3 DEF HeartbeatLapses, Row
<1>4. ASSUME NEW t \in Tasks, CheckPasses(t) PROVE Keeps
  BY <1>1, <1>4 DEF CheckPasses, Row
<1>5. ASSUME NEW t \in Tasks, Cancel(t), Status(t) = "running" PROVE Keeps
  BY <1>1, <1>5 DEF Cancel, Row
<1>6. ASSUME ReapStuck PROVE Keeps
  BY <1>1, <1>6 DEF ReapStuck, Stuck, Row
<1>7. phase' = phase /\ begun' = begun
  BY DEF ApprovalLapses, HeartbeatLapses, CheckPasses, Cancel, ReapStuck, exec
<1>8. Keeps
  BY <1>2, <1>3, <1>4, <1>5, <1>6
<1>. QED
  BY <1>7, <1>8, HiddenStutters

\* The host check of an execute request, restarts, and a claim before its UPDATE.
LEMMA WaitingKeepsGate ==
    ASSUME Inv,
           \/ \E t \in Tasks : ExecuteChecksHost(t) \/ ExecuteRefused(t)
           \/ ApiRestart
           \/ \E w \in Workers : \/ \E t \in Tasks : ClaimSelect(w, t)
                                 \/ WorkerStops(w) \/ WorkerRestart(w)
    PROVE  UNCHANGED Gate!vars
<1>1. UNCHANGED <<row, exec>>
  BY DEF ExecuteChecksHost, ExecuteRefused, ApiRestart, ClaimSelect, WorkerStops, WorkerRestart
<1>. QED
  BY <1>1, UnchangedStutters

\* What is left of a coroutine after its first command, and its end with the process.
LEMMA CoroutineKeepsGate ==
    ASSUME Inv,
           \/ \E t \in Tasks : \/ PrepareFails(t) \/ CheckFails(t) \/ CommandSucceeds(t)
                               \/ CommandFails(t) \/ CommandTimesOut(t)
                               \/ Finish(t) \/ FinishRaises(t)
           \/ \E w \in Workers : LeaveLoop(w) \/ WorkerCrash(w)
    PROVE  UNCHANGED Gate!vars
<1>. DEFINE Keeps == \A x \in Tasks :
              /\ row'[x].runbook = row[x].runbook
              /\ row'[x].requestedBy = row[x].requestedBy
              /\ row'[x].approvedBy = row[x].approvedBy
              /\ phase[x] = "none" => phase'[x] = "none" /\ row'[x].status = row[x].status
              /\ phase[x] # "none" => phase'[x] # "none" /\ row'[x].status # "rejected"
              /\ begun'[x] = {} <=> begun[x] = {}
<1>1. /\ phase \in [Tasks -> Phases] /\ begun \in [Tasks -> SUBSET Commands]
      /\ \A x \in Tasks : phase[x] # "none" => row[x].status # "rejected"
      /\ \A x \in Tasks : phase[x] \in Commands => begun[x] # {}
  BY DEF Inv, TypeOK, Coroutines, Coroutine, Progress, Sent, Outcomes, Status, Commands,
         RunbookCommands
<1>2. ASSUME NEW t \in Tasks, CommandSucceeds(t) PROVE Keeps
  BY <1>1, <1>2 DEF CommandSucceeds, Succeeds, Start, Ends, Commands
<1>3. ASSUME NEW t \in Tasks, \/ PrepareFails(t) \/ CheckFails(t) \/ CommandFails(t)
                              \/ CommandTimesOut(t) \/ FinishRaises(t)
      PROVE  Keeps
  BY <1>1, <1>3 DEF PrepareFails, CheckFails, CommandFails, CommandTimesOut, Ends,
                    FinishRaises, Commands
<1>4. ASSUME NEW t \in Tasks, Finish(t) PROVE Keeps
  <2>1. row \in [Tasks -> Row] /\ row[t] \in Row /\ outcome[t] \in Outcomes
    BY <1>4 DEF Inv, TypeOK, Coroutines, Coroutine, Finish
  <2>. QED
    BY <1>1, <1>4, <2>1 DEF Finish, Row, Outcomes
<1>5. ASSUME NEW w \in Workers, LeaveLoop(w) \/ WorkerCrash(w) PROVE Keeps
  BY <1>1, <1>5 DEF LeaveLoop, WorkerCrash, Busy, Active, Commands
<1>6. Keeps
  BY <1>2, <1>3, <1>4, <1>5
<1>. QED
  BY <1>6, HiddenStutters

\* Refusing, withdrawing and expiring close the gate of a task no worker has claimed.
LEMMA WithdrawalIsClose ==
    ASSUME Inv, NEW t \in Tasks,
           \/ \E u \in Users : Reject(t, u)
           \/ Cancel(t) /\ Status(t) # "running"
           \/ ExecuteExpired(t)
    PROVE  Gate!Close(t)
<1>. USE DEF Status
<1>1. /\ row \in [Tasks -> Row] /\ \A x \in Tasks : row[x] \in Row
      /\ phase[t] # "none" => row[t].status \in {"running"} \cup Outcomes
      /\ row[t].status = "pending" => row[t].approvedBy = None
  BY DEF Inv, TypeOK, Coroutines, Coroutine, Approvals, Approval
<1>2. row[t].status \in {"pending", "approved", "queued"}
  BY <1>1 DEF Reject, Cancel, ExecuteExpired, OpenStatus
<1>3. phase[t] = "none"
  BY <1>1, <1>2 DEF Outcomes
<1>4. UNCHANGED <<phase, begun>> /\ \A x \in Tasks \ {t} : row'[x] = row[x]
  BY <1>1 DEF Reject, Cancel, ExecuteExpired, exec
<1>5. CASE \E u \in Users : Reject(t, u)
  <2>0. PICK u \in Users : Reject(t, u)
    BY <1>5
  <2>1. /\ row[t].status = "pending" /\ row'[t].status = "rejected"
        /\ row'[t].runbook = row[t].runbook /\ row'[t].requestedBy = row[t].requestedBy
    BY <1>1, <2>0 DEF Reject, Row
  <2>. QED
    BY <1>1, <1>2, <1>3, <1>4, <2>1, WithdrawalCloses
<1>6. CASE (Cancel(t) /\ Status(t) # "running") \/ ExecuteExpired(t)
  <2>1. /\ row'[t].status \in {"cancelled", "failed"}
        /\ row'[t].runbook = row[t].runbook /\ row'[t].requestedBy = row[t].requestedBy
        /\ row'[t].approvedBy = row[t].approvedBy
    BY <1>1, <1>6 DEF Cancel, ExecuteExpired, Row
  <2>. QED
    BY <1>2, <1>3, <1>4, <2>1, WithdrawalCloses
<1>. QED
  BY <1>5, <1>6

\* An empty table is a gate nobody has knocked at.
LEMMA GateInit == Init => Gate!Init
<1>. SUFFICES ASSUME Init PROVE Gate!Init
  OBVIOUS
<1>1. \A t \in Tasks : GateDecision(t) = [stage |-> "unknown", sensitive |-> FALSE,
                                          requester |-> None, approver |-> None]
  BY NoneAssumption DEF Init, NoRow, GateDecision, GateStage, Sensitive, Status
<1>. QED
  BY <1>1 DEF Init, Gate!Init

\* Every step of a handler, the reaper or a worker is a step of the gate or hidden by it.
LEMMA GateStep ==
    ASSUME Inv, [Next]_vars
    PROVE  [Gate!Next]_(Gate!vars)
<1>. USE DEF Gate!Next
<1>1. ASSUME NEW t \in Tasks, NEW u \in Users,
             \/ \E h \in Hosts, rb \in Runbooks : Create(t, u, h, rb)
             \/ \E a \in Alerts, rb \in Runbooks : CreateFromAlert(t, u, a, rb)
             \/ \E source \in Tasks : Retry(t, u, source)
      PROVE  Gate!Next
  <2>1. PICK h \in Hosts, rb \in Runbooks, a \in Alerts \cup {None},
             source \in Tasks \cup {None} : Insert(t, h, rb, a, source, u)
    BY <1>1, Requests
  <2>2. \E s \in BOOLEAN : Gate!Request(t, u, s)
    BY <2>1, RequestIsRequest
  <2>. QED
    BY <2>2
<1>2. ASSUME NEW t \in Tasks, NEW u \in Users, Approve(t, u) PROVE Gate!Next
  BY <1>2, ApproveIsGrant
<1>3. ASSUME NEW t \in Tasks, \/ \E u \in Users : Reject(t, u)
                              \/ Cancel(t) /\ Status(t) # "running"
                              \/ ExecuteExpired(t)
      PROVE  Gate!Next
  BY <1>3, WithdrawalIsClose
<1>4. ASSUME NEW t \in Tasks, ExecuteReadOnly(t) \/ ExecuteQueued(t) PROVE Gate!Next
  BY <1>4, QueueingIsRelease
<1>5. ASSUME NEW w \in Workers, NEW t \in Tasks, ClaimUpdate(w, t) PROVE Gate!Next
  BY <1>5, ClaimIsDispatch
<1>6. ASSUME NEW t \in Tasks, Prepared(t) PROVE Gate!Next
  BY <1>6, FirstCommandBegins
<1>7. ASSUME NEW t \in Tasks, \/ ApprovalLapses(t) \/ HeartbeatLapses(t) \/ CheckPasses(t)
                              \/ Cancel(t) /\ Status(t) = "running"
      PROVE  UNCHANGED Gate!vars
  BY <1>7, RowKeepsGate
<1>8. ASSUME ReapStuck PROVE UNCHANGED Gate!vars
  BY <1>8, RowKeepsGate
<1>9. ASSUME NEW t \in Tasks, \/ ExecuteChecksHost(t) \/ ExecuteRefused(t) \/ PrepareFails(t)
                              \/ CheckFails(t) \/ CommandSucceeds(t) \/ CommandFails(t)
                              \/ CommandTimesOut(t) \/ Finish(t) \/ FinishRaises(t)
      PROVE  UNCHANGED Gate!vars
  BY <1>9, WaitingKeepsGate, CoroutineKeepsGate
<1>10. ASSUME NEW w \in Workers, \/ \E t \in Tasks : ClaimSelect(w, t)
                                 \/ WorkerStops(w) \/ WorkerRestart(w)
                                 \/ LeaveLoop(w) \/ WorkerCrash(w)
       PROVE  UNCHANGED Gate!vars
  BY <1>10, WaitingKeepsGate, CoroutineKeepsGate
<1>11. ASSUME ApiRestart PROVE UNCHANGED Gate!vars
  BY <1>11, WaitingKeepsGate
<1>12. ASSUME UNCHANGED vars PROVE UNCHANGED Gate!vars
  BY <1>12, UnchangedStutters DEF vars
<1>. HIDE DEF Gate!Next
<1>13. ASSUME NEW t \in Tasks, ApiStep(t) PROVE Gate!Next \/ UNCHANGED Gate!vars
  BY <1>1, <1>2, <1>3, <1>4, <1>7, <1>9, <1>13 DEF ApiStep
<1>14. ASSUME NEW t \in Tasks, ExecStep(t) PROVE Gate!Next \/ UNCHANGED Gate!vars
  BY <1>6, <1>7, <1>9, <1>14 DEF ExecStep
<1>15. ASSUME NEW w \in Workers, WorkerStep(w) PROVE Gate!Next \/ UNCHANGED Gate!vars
  BY <1>5, <1>10, <1>15 DEF WorkerStep, ClaimConflict, LoopFails
<1>. QED
  BY <1>8, <1>11, <1>12, <1>13, <1>14, <1>15 DEF Next

\* The handlers, workers and reaper implement the abstract approval gate: a command
\* reaches a host only after request, independent grant, release and one dispatch.
THEOREM Refinement == Spec => ImplementsApprovalGate
BY Invariance, GateInit, GateStep, PTL DEF Spec, ImplementsApprovalGate, Gate!Spec
=============================================================================
