-------------------------- MODULE MaintenanceTasks --------------------------
(***************************************************************************)
(* Approved maintenance tasks: the API handlers of backend/app/main.py      *)
(* (create, approve, reject, cancel, retry, execute, recover-stuck), the    *)
(* reaper loop, and the processes of backend/app/maintenance_worker.py that *)
(* claim queued rows of maintenance_tasks and run their commands over SSH.  *)
(*                                                                          *)
(* The API is one event loop and its database calls block it, so a handler  *)
(* is one step up to its next await.  A worker's steps are cut at every     *)
(* database statement another process can see and at every await.           *)
(***************************************************************************)
EXTENDS Integers, Sequences, FiniteSets

CONSTANTS
    Tasks,          \* identifiers of task rows
    Hosts,          \* enabled managed hosts
    Users,          \* users holding the tasks.* permissions
    Runbooks,       \* keys of SAFE_RUNBOOKS
    Risk,           \* Risk[rb] is the runbook's "risk"
    Mutating,       \* the runbooks with "mutating", hence precheck and verify_command
    Alerts,         \* alert events a task may be created from
    AlertHost,      \* the host an alert event is about
    AlertRunbooks,  \* the runbooks ALERT_RUNBOOKS allows for it
    Workers,        \* maintenance-worker processes, by WORKER_ID
    Concurrency,    \* MAINTENANCE_WORKER_CONCURRENCY
    MaxFaults,      \* bound on worker crashes and database errors in the worker loop
    None            \* SQL NULL

ASSUME RunbookAssumption ==
    /\ Risk \in [Runbooks -> {"low", "medium", "high"}]
    /\ Mutating \subseteq Runbooks
ASSUME AlertAssumption ==
    /\ AlertHost \in [Alerts -> Hosts]
    /\ AlertRunbooks \in [Alerts -> SUBSET Runbooks]
ASSUME NoneAssumption ==
    None \notin Tasks \cup Hosts \cup Users \cup Runbooks \cup Alerts \cup Workers
ASSUME BoundAssumption ==
    /\ Concurrency \in Nat \ {0}
    /\ MaxFaults \in Nat

VARIABLES
    row,         \* the maintenance_tasks table
    queueOrder,  \* tasks in the order of queued_at
    readiness,   \* tasks with an execute request awaiting the host's sudo check
    wstate,      \* whether a worker process is up, leaving its main loop, or down
    claim,       \* the row a worker has selected FOR UPDATE and not yet updated
    phase,       \* where the execute_task coroutine of a task is
    checked,     \* tasks whose current command has passed task_is_running at least once
    outcome,     \* the status finish_task is about to write
    remote,      \* tasks whose latest command is not known to have ended on its host
    begun,       \* history: the commands of the task that have been started
    lateStart,   \* history: tasks whose current command started after cancel was requested
    faults       \* how many of the MaxFaults have happened

api    == <<queueOrder, readiness>>
exec   == <<phase, checked, outcome, remote, begun, lateStart>>
worker == <<wstate, claim, faults>>
vars   == <<row, api, worker, exec>>

-----------------------------------------------------------------------------
OpenStatus     == {"pending", "approved", "queued", "running"}
TerminalStatus == {"rejected", "succeeded", "failed", "cancelled", "timed_out"}
Commands       == {"precheck", "execution", "verification"}
Active         == {"preparing", "finishing"} \cup Commands
Phases         == {"none", "done", "lost"} \cup Active
Outcomes       == {"succeeded", "failed", "cancelled", "timed_out"}

Row == [status          : {"absent"} \cup OpenStatus \cup TerminalStatus,
        host            : Hosts \cup {None},
        runbook         : Runbooks \cup {None},
        alert           : Alerts \cup {None},
        retryOf         : Tasks \cup {None},
        requestedBy     : Users \cup {None},
        approvedBy      : Users \cup {None},
        worker          : Workers \cup {None},
        cancelRequested : BOOLEAN,   \* cancel_requested_at IS NOT NULL
        lapsed          : BOOLEAN,   \* approval_expires_at <= NOW()
        stale           : BOOLEAN]   \* heartbeat older than timeout_seconds + 30

NoRow == [status |-> "absent", host |-> None, runbook |-> None, alert |-> None,
          retryOf |-> None, requestedBy |-> None, approvedBy |-> None,
          worker |-> None, cancelRequested |-> FALSE, lapsed |-> FALSE,
          stale |-> FALSE]

TypeOK ==
    /\ row \in [Tasks -> Row]
    /\ queueOrder \in Seq(Tasks)
    /\ readiness \subseteq Tasks
    /\ wstate \in [Workers -> {"up", "exiting", "down"}]
    /\ claim \in [Workers -> Tasks \cup {None}]
    /\ phase \in [Tasks -> Phases]
    /\ checked \subseteq Tasks
    /\ outcome \in [Tasks -> Outcomes \cup {None}]
    /\ remote \subseteq Tasks
    /\ begun \in [Tasks -> SUBSET Commands]
    /\ lateStart \subseteq Tasks
    /\ faults \in 0..MaxFaults

Init ==
    /\ row = [t \in Tasks |-> NoRow]
    /\ queueOrder = <<>>
    /\ readiness = {}
    /\ wstate = [w \in Workers |-> "up"]
    /\ claim = [w \in Workers |-> None]
    /\ phase = [t \in Tasks |-> "none"]
    /\ checked = {}
    /\ outcome = [t \in Tasks |-> None]
    /\ remote = {}
    /\ begun = [t \in Tasks |-> {}]
    /\ lateStart = {}
    /\ faults = 0

Status(t)    == row[t].status
Sensitive(t) == row[t].runbook \in Runbooks /\ Risk[row[t].runbook] \in {"medium", "high"}
Locked(t)    == \E w \in Workers : claim[w] = t

-----------------------------------------------------------------------------
(* API: requests, decisions, cancellation, retry                            *)

Insert(t, h, rb, a, source, u) ==
    /\ Status(t) = "absent"
    /\ row' = [row EXCEPT ![t] =
                [NoRow EXCEPT !.status = "pending", !.host = h, !.runbook = rb,
                              !.alert = a, !.retryOf = source, !.requestedBy = u]]
    /\ UNCHANGED <<api, worker, exec>>

Create(t, u, h, rb) == Insert(t, h, rb, None, None, u)

\* The duplicate check and the INSERT run with no await between them.
CreateFromAlert(t, u, a, rb) ==
    /\ rb \in AlertRunbooks[a]
    /\ ~\E x \in Tasks : /\ row[x].alert = a
                         /\ row[x].runbook = rb
                         /\ Status(x) \in OpenStatus
    /\ Insert(t, AlertHost[a], rb, a, None, u)

\* A retry copies its source, whatever else is open for the same alert.
Retry(t, u, source) ==
    /\ Status(source) \in {"failed", "timed_out", "cancelled"}
    /\ Insert(t, row[source].host, row[source].runbook, row[source].alert, source, u)

\* Fault: anybody may approve, the requester included.
ApproveByAnyone(t, u) ==
    /\ Status(t) = "pending"
    /\ row' = [row EXCEPT ![t].status = "approved", ![t].approvedBy = u]
    /\ UNCHANGED <<api, worker, exec>>

Approve(t, u) ==
    /\ Status(t) = "pending"
    /\ Sensitive(t) => row[t].requestedBy # u
    /\ row' = [row EXCEPT ![t].status = "approved", ![t].approvedBy = u]
    /\ UNCHANGED <<api, worker, exec>>

\* Fault: the UPDATE forgets AND status='pending'.
RejectAnything(t, u) ==
    /\ Status(t) # "absent"
    /\ row' = [row EXCEPT ![t].status = "rejected", ![t].approvedBy = u]
    /\ UNCHANGED <<api, worker, exec>>

Reject(t, u) ==
    /\ Status(t) = "pending"
    /\ row' = [row EXCEPT ![t].status = "rejected", ![t].approvedBy = u]
    /\ UNCHANGED <<api, worker, exec>>

\* A claimed row is locked until the claim commits.  A running task keeps its
\* status: only the flag is set, for the worker to find.
Cancel(t) ==
    /\ Status(t) \in OpenStatus
    /\ ~Locked(t)
    /\ row' = [row EXCEPT ![t].cancelRequested = TRUE,
                          ![t].status = IF @ = "running" THEN @ ELSE "cancelled"]
    /\ UNCHANGED <<api, worker, exec>>

\* Environment: the approval's time to live passes.
ApprovalLapses(t) ==
    /\ Status(t) = "approved"
    /\ row' = [row EXCEPT ![t].lapsed = TRUE]
    /\ UNCHANGED <<api, worker, exec>>

-----------------------------------------------------------------------------
(* API: execute, which awaits an SSH round trip between its transactions.   *)
(* A high-risk request without the word EXECUTE changes nothing.            *)

ApprovalHolds(t) == Status(t) = "approved" /\ ~row[t].lapsed

Enqueue(t) ==
    /\ row' = [row EXCEPT ![t].status = "queued"]
    /\ queueOrder' = Append(queueOrder, t)

ExecuteExpired(t) ==
    /\ Status(t) = "approved" /\ row[t].lapsed
    /\ row' = [row EXCEPT ![t].status = "failed"]
    /\ UNCHANGED <<api, worker, exec>>

ExecuteReadOnly(t) ==
    /\ ApprovalHolds(t)
    /\ row[t].runbook \notin Mutating
    /\ Enqueue(t)
    /\ UNCHANGED <<readiness, worker, exec>>

ExecuteChecksHost(t) ==
    /\ ApprovalHolds(t)
    /\ row[t].runbook \in Mutating
    /\ readiness' = readiness \cup {t}
    /\ UNCHANGED <<row, queueOrder, worker, exec>>

\* Fault: the second transaction trusts the expiry test of the first.
ExecuteQueuedUnchecked(t) ==
    /\ t \in readiness
    /\ Status(t) = "approved"
    /\ Enqueue(t)
    /\ readiness' = readiness \ {t}
    /\ UNCHANGED <<worker, exec>>

ExecuteQueued(t) ==
    /\ t \in readiness
    /\ ApprovalHolds(t)
    /\ Enqueue(t)
    /\ readiness' = readiness \ {t}
    /\ UNCHANGED <<worker, exec>>

\* The host is not ready, or the row changed while the check was awaited.
ExecuteRefused(t) ==
    /\ t \in readiness
    /\ readiness' = readiness \ {t}
    /\ UNCHANGED <<row, queueOrder, worker, exec>>

\* initialize_db leaves the task rows alone; requests in flight are gone.
ApiRestart ==
    /\ readiness # {}
    /\ readiness' = {}
    /\ UNCHANGED <<row, queueOrder, worker, exec>>

-----------------------------------------------------------------------------
(* API: the reaper, every 15 seconds and on request                         *)

\* Environment: no heartbeat for longer than timeout_seconds + 30, because
\* nothing runs the task any more or because its worker is paused.
HeartbeatLapses(t) ==
    /\ Status(t) = "running"
    /\ row' = [row EXCEPT ![t].stale = TRUE]
    /\ UNCHANGED <<api, worker, exec>>

\* Fault: the reaper copies AND cancel_requested_at IS NULL from the heartbeat.
StuckUnlessCancelled(t) ==
    Status(t) = "running" /\ row[t].stale /\ ~row[t].cancelRequested

Stuck(t) == Status(t) = "running" /\ row[t].stale

\* Fault: stuck tasks go back to the queue instead of being timed out.
ReapRequeues ==
    /\ \E t \in Tasks : Stuck(t)
    /\ row' = [t \in Tasks |-> IF Stuck(t) THEN [row[t] EXCEPT !.status = "queued"]
                                           ELSE row[t]]
    /\ UNCHANGED <<api, worker, exec>>

ReapStuck ==
    /\ \E t \in Tasks : Stuck(t)
    /\ row' = [t \in Tasks |-> IF Stuck(t) THEN [row[t] EXCEPT !.status = "timed_out"]
                                           ELSE row[t]]
    /\ UNCHANGED <<api, worker, exec>>

-----------------------------------------------------------------------------
(* Worker: claiming                                                         *)

Before(s, t) == \E i, j \in DOMAIN queueOrder :
                    i < j /\ queueOrder[i] = s /\ queueOrder[j] = t

\* Fault: a timed-out task keeps its host.
HostRunsOrTimedOut(h) ==
    \E t \in Tasks : Status(t) \in {"running", "timed_out"} /\ row[t].host = h

HostRuns(h) == \E t \in Tasks : Status(t) = "running" /\ row[t].host = h

Claimable(t) == Status(t) = "queued" /\ ~HostRuns(row[t].host) /\ ~Locked(t)

Busy(w) == {t \in Tasks : row[t].worker = w /\ phase[t] \in Active}

\* SELECT ... FOR UPDATE SKIP LOCKED LIMIT 1
ClaimSelect(w, t) ==
    /\ wstate[w] = "up"
    /\ claim[w] = None
    /\ Cardinality(Busy(w)) < Concurrency
    /\ Claimable(t)
    /\ \A s \in Tasks : Claimable(s) => ~Before(s, t)
    /\ claim' = [claim EXCEPT ![w] = t]
    /\ UNCHANGED <<row, api, wstate, faults, exec>>

\* Fault: maintenance_one_running_per_host_idx is missing.
ClaimUpdateNoIndex(w, t) ==
    /\ claim[w] = t
    /\ row' = [row EXCEPT ![t].status = "running", ![t].worker = w, ![t].stale = FALSE]
    /\ claim' = [claim EXCEPT ![w] = None]
    /\ phase' = [phase EXCEPT ![t] = "preparing"]
    /\ UNCHANGED <<api, wstate, faults, checked, outcome, remote, begun, lateStart>>

\* The UPDATE and commit, when the unique index on running hosts lets it.
ClaimUpdate(w, t) ==
    /\ claim[w] = t
    /\ ~HostRuns(row[t].host)
    /\ row' = [row EXCEPT ![t].status = "running", ![t].worker = w, ![t].stale = FALSE]
    /\ claim' = [claim EXCEPT ![w] = None]
    /\ phase' = [phase EXCEPT ![t] = "preparing"]
    /\ UNCHANGED <<api, wstate, faults, checked, outcome, remote, begun, lateStart>>

\* An exception leaves worker_loop: asyncio.run cancels every execute_task,
\* and each of them goes on to record that its task was cancelled.
LeaveLoop(w) ==
    LET cut == {t \in Busy(w) : phase[t] # "finishing"} IN
    /\ wstate' = [wstate EXCEPT ![w] = "exiting"]
    /\ claim' = [claim EXCEPT ![w] = None]
    /\ phase' = [t \in Tasks |-> IF t \in cut THEN "finishing" ELSE phase[t]]
    /\ outcome' = [t \in Tasks |-> IF t \in cut THEN "cancelled" ELSE outcome[t]]
    /\ checked' = checked \ cut
    /\ lateStart' = lateStart \ cut
    /\ UNCHANGED <<row, api, remote, begun>>

\* Another worker put a task of the same host in between: UniqueViolation.
ClaimConflict(w, t) ==
    /\ claim[w] = t
    /\ HostRuns(row[t].host)
    /\ LeaveLoop(w)
    /\ UNCHANGED faults

\* register_worker or claim_task raises a database error.
LoopFails(w) ==
    /\ wstate[w] = "up"
    /\ faults < MaxFaults
    /\ faults' = faults + 1
    /\ LeaveLoop(w)

-----------------------------------------------------------------------------
(* Worker: execute_task and cancellable_ssh                                 *)

FirstCommand(t) == IF row[t].runbook \in Mutating THEN "precheck" ELSE "execution"

Start(t, c) ==
    /\ phase' = [phase EXCEPT ![t] = c]
    /\ remote' = remote \cup {t}
    /\ checked' = checked \ {t}
    /\ begun' = [begun EXCEPT ![t] = @ \cup {c}]
    /\ lateStart' = IF row[t].cancelRequested THEN lateStart \cup {t} ELSE lateStart \ {t}
    /\ UNCHANGED outcome

Ends(t, o) ==
    /\ phase' = [phase EXCEPT ![t] = "finishing"]
    /\ outcome' = [outcome EXCEPT ![t] = o]
    /\ checked' = checked \ {t}
    /\ lateStart' = lateStart \ {t}
    /\ UNCHANGED begun

Prepared(t) ==
    /\ phase[t] = "preparing"
    /\ Start(t, FirstCommand(t))
    /\ UNCHANGED <<row, api, worker>>

\* The last command has exited with zero, so that none is left on the host.
Succeeds(t) == Ends(t, "succeeded") /\ remote' = remote \ {t}

\* The host is gone, its sudo policy is not ready, or the database is away.
PrepareFails(t) ==
    /\ phase[t] = "preparing"
    /\ Ends(t, "failed")
    /\ UNCHANGED <<row, api, worker, remote>>

StillRunning(t) == Status(t) = "running" /\ ~row[t].cancelRequested

\* task_is_running, once a second and at least once while a command runs.
CheckPasses(t) ==
    /\ phase[t] \in Commands
    /\ StillRunning(t)
    /\ row' = [row EXCEPT ![t].stale = FALSE]
    /\ checked' = checked \cup {t}
    /\ UNCHANGED <<api, worker, phase, outcome, remote, begun, lateStart>>

\* Cancelling run_ssh kills or closes the ssh client; the command may go on.
CheckFails(t) ==
    /\ phase[t] \in Commands
    /\ ~StillRunning(t)
    /\ Ends(t, "cancelled")
    /\ UNCHANGED <<row, api, worker, remote>>

\* Fault: a command may be over before task_is_running was asked once.
CommandSucceedsUnchecked(t) ==
    /\ phase[t] \in Commands
    /\ \/ phase[t] = "precheck" /\ Start(t, "execution")
       \/ phase[t] = "execution" /\ row[t].runbook \in Mutating /\ Start(t, "verification")
       \/ phase[t] = "execution" /\ row[t].runbook \notin Mutating /\ Succeeds(t)
       \/ phase[t] = "verification" /\ Succeeds(t)
    /\ UNCHANGED <<row, api, worker>>

\* Fault: the verification command is skipped.
CommandSucceedsUnverified(t) ==
    /\ phase[t] \in Commands
    /\ t \in checked
    /\ \/ phase[t] = "precheck" /\ Start(t, "execution")
       \/ phase[t] # "precheck" /\ Succeeds(t)
    /\ UNCHANGED <<row, api, worker>>

CommandSucceeds(t) ==
    /\ phase[t] \in Commands
    /\ t \in checked
    /\ \/ phase[t] = "precheck" /\ Start(t, "execution")
       \/ phase[t] = "execution" /\ row[t].runbook \in Mutating /\ Start(t, "verification")
       \/ phase[t] = "execution" /\ row[t].runbook \notin Mutating /\ Succeeds(t)
       \/ phase[t] = "verification" /\ Succeeds(t)
    /\ UNCHANGED <<row, api, worker>>

\* The command exits non-zero, SSH fails, or task_is_running cannot reach the
\* database: one RuntimeError, which does not tell whether the command goes on.
CommandFails(t) ==
    /\ phase[t] \in Commands
    /\ Ends(t, "failed")
    /\ UNCHANGED <<row, api, worker, remote>>

\* Fault: the status is not the one the other writers use.
CommandTimesOutMisspelt(t) ==
    /\ phase[t] \in Commands
    /\ t \in checked
    /\ Ends(t, "timeout")
    /\ UNCHANGED <<row, api, worker, remote>>

\* Fault: the TimeoutError is suppressed and what was read so far is the output.
CommandTimesOutAsDone(t) ==
    /\ phase[t] \in Commands
    /\ t \in checked
    /\ Ends(t, "succeeded")
    /\ UNCHANGED <<row, api, worker, remote>>

CommandTimesOut(t) ==
    /\ phase[t] \in Commands
    /\ t \in checked
    /\ Ends(t, "timed_out")
    /\ UNCHANGED <<row, api, worker, remote>>

\* finish_task: WHERE id=... AND worker_id=..., whatever the status has become.
Finish(t) ==
    /\ phase[t] = "finishing"
    /\ row' = [row EXCEPT ![t].status = outcome[t], ![t].stale = FALSE]
    /\ phase' = [phase EXCEPT ![t] = "done"]
    /\ outcome' = [outcome EXCEPT ![t] = None]
    /\ UNCHANGED <<api, worker, checked, remote, begun, lateStart>>

\* finish_task cannot reach the database.  Recording a success is inside the
\* try, so its failure is recorded next; any other failure ends the coroutine.
FinishRaises(t) ==
    /\ phase[t] = "finishing"
    /\ \/ /\ outcome[t] = "succeeded"
          /\ outcome' = [outcome EXCEPT ![t] = "failed"]
          /\ UNCHANGED phase
       \/ /\ outcome[t] # "succeeded"
          /\ outcome' = [outcome EXCEPT ![t] = None]
          /\ phase' = [phase EXCEPT ![t] = "lost"]
    /\ UNCHANGED <<row, api, worker, checked, remote, begun, lateStart>>

-----------------------------------------------------------------------------
(* Worker: the process                                                      *)

WorkerStops(w) ==
    /\ wstate[w] = "exiting"
    /\ Busy(w) = {}
    /\ wstate' = [wstate EXCEPT ![w] = "down"]
    /\ UNCHANGED <<row, api, claim, faults, exec>>

WorkerCrash(w) ==
    /\ wstate[w] # "down"
    /\ faults < MaxFaults
    /\ faults' = faults + 1
    /\ wstate' = [wstate EXCEPT ![w] = "down"]
    /\ claim' = [claim EXCEPT ![w] = None]
    /\ phase' = [t \in Tasks |-> IF t \in Busy(w) THEN "lost" ELSE phase[t]]
    /\ outcome' = [t \in Tasks |-> IF t \in Busy(w) THEN None ELSE outcome[t]]
    /\ checked' = checked \ Busy(w)
    /\ lateStart' = lateStart \ Busy(w)
    /\ UNCHANGED <<row, api, remote, begun>>

\* External: the container's restart policy.
WorkerRestart(w) ==
    /\ wstate[w] = "down"
    /\ wstate' = [wstate EXCEPT ![w] = "up"]
    /\ UNCHANGED <<row, api, claim, faults, exec>>

-----------------------------------------------------------------------------
ApiStep(t) ==
    \/ \E u \in Users :
        \/ \E h \in Hosts, rb \in Runbooks : Create(t, u, h, rb)
        \/ \E a \in Alerts, rb \in Runbooks : CreateFromAlert(t, u, a, rb)
        \/ \E source \in Tasks : Retry(t, u, source)
        \/ Approve(t, u)
        \/ Reject(t, u)
    \/ Cancel(t) \/ ApprovalLapses(t)
    \/ ExecuteExpired(t) \/ ExecuteReadOnly(t) \/ ExecuteChecksHost(t)
    \/ ExecuteQueued(t) \/ ExecuteRefused(t) \/ HeartbeatLapses(t)

ExecStep(t) ==
    \/ Prepared(t) \/ PrepareFails(t)
    \/ CheckPasses(t) \/ CheckFails(t)
    \/ CommandSucceeds(t) \/ CommandFails(t) \/ CommandTimesOut(t)
    \/ Finish(t) \/ FinishRaises(t)

WorkerStep(w) ==
    \/ \E t \in Tasks : ClaimSelect(w, t) \/ ClaimUpdate(w, t) \/ ClaimConflict(w, t)
    \/ LoopFails(w) \/ WorkerStops(w) \/ WorkerCrash(w) \/ WorkerRestart(w)

Next ==
    \/ \E t \in Tasks : ApiStep(t) \/ ExecStep(t)
    \/ \E w \in Workers : WorkerStep(w)
    \/ ReapStuck
    \/ ApiRestart

Spec == Init /\ [][Next]_vars

-----------------------------------------------------------------------------
(* Properties                                                               *)

\* The database never shows two running tasks of one host, however the workers'
\* two-statement claims interleave (the partial unique index of initialize_db).
OneRunningRowPerHost ==
    \A s, t \in Tasks :
        /\ Status(s) = "running" /\ Status(t) = "running"
        /\ row[s].host = row[t].host
        => s = t

\* Killing the ssh client does not kill the command, so that commands of two
\* tasks may meet on a host, for as long as the older one takes.  But then one of
\* the tasks is recorded as failed, cancelled or timed out: never do two running
\* tasks meet, nor one that runs and one recorded as succeeded.
OverlapOnlyWithAbandoned ==
    \A s, t \in remote :
        /\ s # t
        /\ row[s].host = row[t].host
        => \E x \in {s, t} : Status(x) \in {"failed", "cancelled", "timed_out"}

\* Whatever was queued, ran or left a command on a host had been approved, and
\* by somebody other than its requester if the runbook is of medium or high
\* risk.  Retries need an approval of their own.
Approved(t) ==
    /\ row[t].approvedBy \in Users
    /\ Sensitive(t) => row[t].approvedBy # row[t].requestedBy

RunsOnlyApproved ==
    \A t \in Tasks :
        Status(t) \in {"queued", "running", "succeeded", "timed_out"} \/ begun[t] # {}
        => Approved(t)

\* A task said to have succeeded went through every command of its runbook, and
\* no later answer, cancellation or recovery put that word there.
RunbookCommands(t) == IF row[t].runbook \in Mutating THEN Commands ELSE {"execution"}

SucceededRanEverything ==
    \A t \in Tasks : Status(t) = "succeeded" => begun[t] = RunbookCommands(t)

\* An approval is checked before the SSH round trip of an execute request and
\* used after it: a task whose approval lapsed meanwhile is not queued.
QueuedUnderLiveApproval ==
    [][\A t \in Tasks : Status(t) = "approved" /\ Status(t)' = "queued"
                         => ~row[t].lapsed]_vars

\* What a task ended as stays: a settled status changes only where the reaper
\* gave up on a task whose worker then reports after all.
SettledStays ==
    [][\A t \in Tasks :
        Status(t) \in TerminalStatus /\ Status(t)' # Status(t)
        => Status(t) = "timed_out" /\ phase[t] = "finishing"]_vars

\* Each command of a task reaches its host at most once, through crashes,
\* recovery and whatever becomes of the row.
CommandsRunOnce ==
    [][\A t \in Tasks : phase[t]' # phase[t] /\ phase[t]' \in Commands
                         => phase[t]' \notin begun[t]]_vars

\* Cancelling a running task lets at most one more command of it start.
CancelStopsCommands ==
    [][\A t \in Tasks : phase[t]' # phase[t] /\ phase[t]' \in Commands
                         => t \notin lateStart]_vars

-----------------------------------------------------------------------------
(* What the tasks promise, hiding queue, workers, recovery and outcomes     *)

GateStage(t) ==
    IF phase[t] # "none" THEN "dispatched"
    ELSE CASE Status(t) = "absent"   -> "unknown"
           [] Status(t) = "pending"  -> "requested"
           [] Status(t) = "approved" -> "granted"
           [] Status(t) = "queued"   -> "released"
           [] OTHER                  -> "closed"

GateDecision(t) ==
    [stage     |-> GateStage(t),
     sensitive |-> Sensitive(t),
     requester |-> row[t].requestedBy,
     approver  |-> IF Status(t) = "rejected" THEN None ELSE row[t].approvedBy]

Gate == INSTANCE ApprovalGate WITH
    Nobody <- None,
    begun  <- {t \in Tasks : begun[t] # {}},
    gate   <- [t \in Tasks |-> GateDecision(t)]

\* Every behaviour of the handlers, workers and reaper is one of ApprovalGate.
ImplementsApprovalGate == Gate!Spec

-----------------------------------------------------------------------------
(* Liveness: the loops of workers, reaper and restart policy keep running,  *)
(* and time passes for a task nobody runs.  Nothing is assumed of users.    *)

Abandoned(t) == Status(t) = "running" /\ phase[t] \in {"done", "lost"}

\* A coroutine between two of its statements goes on; so does a worker process.
ExecProgress(t) ==
    \/ Prepared(t) \/ PrepareFails(t) \/ CheckFails(t)
    \/ CommandSucceeds(t) \/ CommandFails(t) \/ CommandTimesOut(t)
    \/ Finish(t) \/ FinishRaises(t)

WorkerProgress(w) ==
    \/ \E t \in Tasks : ClaimSelect(w, t) \/ ClaimUpdate(w, t) \/ ClaimConflict(w, t)
    \/ WorkerStops(w) \/ WorkerRestart(w)

Fairness ==
    /\ \A t \in Tasks :
        /\ WF_vars(ExecProgress(t))
        /\ WF_vars(CheckPasses(t))
        /\ WF_vars(Abandoned(t) /\ HeartbeatLapses(t))
    /\ \A w \in Workers : WF_vars(WorkerProgress(w))
    /\ WF_vars(ReapStuck)

FairSpec == Spec /\ Fairness

\* No task keeps its host for ever: crash, lost result and lost heartbeat included.
RunningSettles == \A t \in Tasks : Status(t) = "running" ~> Status(t) # "running"

\* A queued task is claimed or cancelled, though claims may collide and take
\* whole workers down.
QueueDrains == \A t \in Tasks : Status(t) = "queued" ~> Status(t) # "queued"

=============================================================================
