# Verification of linux-ai-control-plane

TLA+ models, TLC runs and TLAPS proofs about the control plane in this
repository: a FastAPI process (`backend/app/main.py`), a pool of maintenance
workers (`backend/app/maintenance_worker.py`), shell workers (`deploy/`) and a
PostgreSQL database through which they meet. Line numbers refer to the commit
these files stand beside. Everything is translated from the source; where a
document says something else, a run shows it (see *Disagreements*).

## The system

One API process runs an asyncio loop. Handlers are coroutines: a synchronous
`connect_db()` block in a handler holds the loop, an `await asyncio.to_thread`
or an SSH command gives it up, and the code after it works with what was read
before. Sixteen background loops share that process. The maintenance workers
and the backup worker are other processes; they see the API only as rows.
The isolation level is PostgreSQL's READ COMMITTED, one statement at a time.

| component | state it keeps | operations | meets | hard because |
|---|---|---|---|---|
| maintenance tasks (`main.py` 6355-6674) | `maintenance_tasks` | create, from alert, retry, approve, reject, cancel, execute, recover | workers by rows, hosts by SSH check | approval can lapse during an `await`; duplicate checks in one of two creators |
| maintenance workers (`maintenance_worker.py`) and reaper | claimed row, coroutine per task | claim, run commands, check cancellation, finish | each other by row locks and a partial unique index | claim is two statements; worker may pause or die; late results |
| notification delivery (3776-4046, 4752-4780) | `notification_deliveries`, `notification_retry_jobs` | dispatch, record, hand over, claim, finish, replay, dismiss | providers, alerts, reports, backups | parallel threads under one `gather`; lost answers; crash in every gap |
| notification governance (3700-3775, 3970-4033) | silences, windows, inhibitions, storms, templates | select channels, suppress | dispatch | storm row shared by concurrent dispatches |
| alert lifecycle (4048-4200, 7885-8090) | `alert_events`, samples, rules | evaluate, acknowledge, close, assign, disable rule | dispatch, reminders | rule state read before it is used; commit before send |
| reminders, SLA, on-call gaps (4207-4238, 5020-5215) | `notification_escalations`, `alert_sla_escalations`, `on_call_gap_alerts` | claim many, send one by one, record | dispatch | one failing message strands the rest; acknowledged meanwhile |
| backups (`deploy/backup-worker.sh`, 4239-4280, 5517) | `database_backup_jobs` | request, claim, verify, notify | shell worker, release preflight | crash between dump, verification and record |
| configuration versions (1105-1279, 2291-2435) | tables, Git work tree, restore requests | commit, request, decide, restore | every handler that changes the configuration | commits in threads with one work tree; changes that make none; a restore is three transactions |
| SSH key rotation (2733-2880) | rotations, verified hosts, retirements, `authorized_keys` | stage, deploy, verify, promote, retire | every host, host inventory | some hosts succeed, others do not; commands that time out and still happen |
| login, MFA, sessions (1046-1066, 2215-2675, 2885-3009) | failures, recovery codes, sessions | log in, verify, enable, revoke | users | several awaits between a password and its session; codes written back as read |
| users and groups (3043-3264) | users, groups, memberships, policy | create, move, lock, reset, delete | sessions | the last administrator |
| inspections (6832-7585) | scans, run rows, one lock each | run, probe, record, alert | hosts, alerts, administrators who close them | parallel scans that outlive the lock; exceptions that end a loop |
| audit chain (`audit.py`, 8631-8690) | hash chain | append, verify | everything | concurrent appends; retention |
| on-call (4855-5135) | shifts, templates, hand-overs | create, materialise, hand over | assignment of alerts | overlap checks and inserts apart |
| central logs (8311-8460) | log events, collection status | collect, alert | alerts | duplicates after a crash |
| retention, rollups (4191-4204, 5911-5992) | everything old | delete, aggregate | all tables | live references |
| migrations (`migrations.py`) | schema version | apply | every start | a changed file |
| watchdog (`deploy/external-watchdog.sh`, 4565) | failure counter | probe, alarm, recover | API | one alarm, one recovery |
| reports; terminal; console | schedules | render | hosts | mostly I/O |

What makes each correct, in short: a command reaches a host only for an approved
task, once, and meets only those of tasks that were given up, and its end is
recorded; a message is sent again only when nobody can know that it was taken, and
none is dropped; an alert is active exactly while its rule is violated and somebody
is told; sessions end with the credentials they came from, a code is good once, and
an administrator remains; rotating keys cuts off no host; the last version is the
configuration where a change makes one, and a restore happens once and as decided;
an inspection that is called a success has seen every host, and its alerts say what
it saw. `PROJECT.json` lists each hazard at its line.

## Modules

| module | what it is |
|---|---|
| `ApprovalGate` | abstract: a task is requested, granted, released, dispatched, closed, in this order; commands only after dispatch |
| `MaintenanceTasks` | API handlers, workers and reaper over the table; refines `ApprovalGate` |
| `MaintenanceTasksProofs` | inductive invariant, ten theorems, the refinement |
| `DeliveryPromise` | abstract: the life of one message, sent, kept, known, given up, lost |
| `NotificationDelivery` | dispatch, retry table and loop, crashes, manual actions; refines `DeliveryPromise` |
| `NotificationDeliveryProofs` | inductive invariant, five theorems, the refinement |
| `AlertBoard` | abstract: the life of an alert, one active per rule and host |
| `AlertLifecycle` | monitoring cycles, parallel evaluations, administrators, notices; implements `AlertBoard` |
| `AlertLifecycleProofs` | inductive invariant, four theorems, the refinement |
| `AlertEscalation` | reminders and ownership escalations over any behaviour of `AlertBoard` |
| `AlertEscalationProofs` | inductive invariant, six theorems |
| `Access` | logins, MFA, sessions, accounts, groups, concurrent requests |
| `AccessProofs` | inductive invariant, five theorems |
| `HostKeys` | rotations and retirements of SSH keys, hosts and their key files |
| `HostKeysProofs` | inductive invariant, three invariants, the active key, what files lose |
| `InventoryScans` | the three inspections: cycles, parallel scans, results and alerts |
| `InventoryScansProofs` | inductive invariant, four theorems |
| `RestorePromise` | abstract: an archive that is only added to, one section changed at a time or completed by a start, restores asked for, approved and carried out once |
| `ConfigRestore` | configuration commits command by command, restore requests; refines `RestorePromise` |
| `ConfigRestoreProofs` | inductive invariant, three invariants, the refinement |
| `MC...` | small instances for TLC |

In every module an operator commented *Fault:* is a plausible wrong version of
the definition below it. No action uses it; `PROJECT.json` "mutants" pairs each
with the property that notices when it takes the place of the right one.

### MaintenanceTasks

`row` is the table; a row keeps what decisions are made of: status, host,
runbook, source alert, `retry_of`, requester, approver, worker, whether
cancellation was requested, whether the approval has lapsed (`lapsed`) and
whether the heartbeat is older than the reaper accepts (`stale`). The two clock
comparisons are booleans that the environment turns (`ApprovalLapses`,
`HeartbeatLapses`), so every order of clock and program is explored.
`queueOrder` is the order of `queued_at`; `readiness` is the set of execute
requests awaiting the SSH sudo check; `claim` is the row a worker has selected
`FOR UPDATE` but not updated; `phase` is the program counter of the
`execute_task` coroutine. `remote` is what may still run on hosts: the end of a
coroutine closes or kills its local ssh client (`maintenance_worker.py` 81-94, main.py
3309-3332), not the command, so that only a command that has exited with zero is
known to be over. A command of a cancelled, failed or timed out task may thus be
there when that of the next one starts, which is what `OverlapOnlyWithAbandoned`
delimits. `begun`, `lateStart` are history.

A handler is one action up to its next `await` and one after it:
`ExecuteChecksHost` and `ExecuteQueued` are the two halves of
`execute_maintenance_task`. A claim is `ClaimSelect`, then `ClaimUpdate` or,
when the partial unique index refuses the row, `ClaimConflict`, which leaves the
worker loop because nothing there catches the error. Then the loop waits for its
tasks (`WorkerStops`) or the process dies (`WorkerCrash`); Compose restarts it
(`WorkerRestart`, external). `FinishRaises` is a failing `finish_task`: a
success is caught and recorded again as a failure, another outcome is lost.

Left out: deletion of hosts (cascades to tasks) and users (nulls the requester),
retention of ended tasks, the resolved-alert test before the `await` of
`execute`, an ambiguous commit. `maintenance_execution_tasks` (2209) is never
filled, so the cancellations through it do nothing. The claim does not look at
the approval's expiry again; the model follows the code in that.

### NotificationDelivery

A *notice* is one message on one channel, the unique key of
`notification_retry_jobs`; a *batch* is one call of `dispatch_notifications`.
`first[n]` is the thread that sends the notice first, `job[n]` its row,
`retry` the program counter of the one retry loop. Answering is apart from
recording (`FirstAnswered`, `FirstRecorded`), since a crash or database error
between the two is what makes duplicates. A provider may take a message and its
answer get lost. `FirstRaises` makes `gather` raise (`GatherRaises`) while the
other threads go on, as `asyncio.to_thread` does. `RetryRaises` is an error the
loop catches (the row stays `sending`), `RetryDies` one it does not
(`http.client.HTTPException` is neither an `OSError` nor a `ValueError`).
`ApiRestart` loses threads and loop; `initialize_db` takes back `sending` rows.
`replay-failed` reads its list in one transaction and replays it in another.
`arrived`, `unnoticed`, `recovered` are history. `DeliveryPromise` knows none of
batches, threads, jobs and the loop: under the mapping `Phase` a message is new, in
an attempt, owed, known, given up or lost, and only one that never got a row
(`kept`) can be lost. That includes a failure whose batch was given up: its phase
is `lost` as soon as the batch is `aborted`.

Left out: routing, templates, silences, quiet hours and storms (they decide what
a batch holds), the mutual order of `next_attempt_at`, its 1, 5 and 15 minutes
(a boolean the environment turns), retention. Retry keys are distinct, as the
callers make them (a UUID, or a key made of a row that is inserted once).

### AlertBoard and AlertLifecycle

`event` is the status of each row of `alert_events`; the k-th alert of a rule on a
host is a triple, `none` until it is inserted. `AlertBoard` says what the rest of
the platform relies on, and `AlertLifecycle` implements it. `eval[<<c, h>>]` is the
thread that runs `persist_sample_and_evaluate` for a host in a cycle: `EvalStart`
inserts the sample and reads the enabled rules, `EvalJudge` reads the latest
samples, `EvalSelect` the active alerts, `EvalCommit` is the commit; administrators
act in between, each handler one action as it holds the event loop. A sample is the
set of rules it violates; `streak` counts the latest ones in a row, which is what
the query with its LIMIT looks at. `cycle` is the holder of `monitor_cycle_lock`,
whether the loop or `collect_now`, and `outbox` and `told` the notices it sends; the
sending itself is `NotificationDelivery`. `EvalRaises` is a statement that fails;
`GatherRaises` drops what the other hosts return while their threads go on, beside
those of the next cycle. Two evaluations of one host then read and write the same
rules: the one whose INSERT comes second is refused by `alert_events_active_idx`
(`EvalCollides`), and one whose sample is the older sees the newer ones that have
been committed before it (`order` and `newer`, the ORDER BY `collected_at`).
`DispatchRaises` leaves any of the notices to the threads that are already sending
them (`stray`): `gather` raises, the lock is released, and a thread tells its notice
(`StrayTells`) when it comes to it, beside the notices of later cycles. It may also
end `monitor_loop`, which catches three exception classes only. `LifecycleRestart`
repairs nothing, as the code does.

A rule switched off while an evaluation has already read it as enabled may get
an alert inserted afterwards; it stays active until somebody closes it or the
rule is on again. The model has this behaviour, so `AlertsFollowSamples` speaks
of rules that stay on.

Left out: deletion of a rule or host (cascades to alerts) and edits of its other
fields, closing an alert that is resolved already (it adds who closed it), notes,
retention, and the evaluators of other metrics (logs, drift, patches, baseline,
capacity), which insert and resolve under rules of their own in the same way.
At most as many cycles as `Cycles` have threads at a time, a bound.

### AlertEscalation

The two loops of the same shape: claim rows in one transaction, send one by one,
record each result; an exception drops the rest. `toRemind` and `toEscalate` are
the lists in hand, `sending` the reminder sent and not recorded. The alerts make
any move of `AlertBoard` in between. Which claims are due (intervals, windows,
inhibitions, deadlines, assignee) is any subset. `EscalateRefused` is what
happens whenever a channel is selected: the kind `sla_breach` is not among those
the CHECK of `notification_deliveries` allows. `reminded`, `late`, `escalated`
are history. Left out: the batch limit of 50, policy edits, the on-call gap loop
(4990-5030), which has the same shape and the same refused kind.

### Access

A request is a *client*; `client[c].at` is the await it is in. `login` has six: the
policy is read (`LoginStart`), then the failures are counted over the window that
was read (`LoginCounts`, `LoginLimited`), the password
is checked (`LoginAuthenticates`, `LoginFails`), MFA and membership are read
(`LoginReadsMfa`), the session is inserted (`CreateSession`) and the event
recorded (`RecordSuccess`, `RecordFailure`; `record_login_event` swallows a
database error, so the count may not move). `verify_mfa_code` runs in a thread:
it reads the list of recovery codes (`VerifyReads`) and writes the list without
the code (`VerifyWrites`), whatever has become of it meanwhile. Every other
request is `Grant`, the thread of `authenticate_api`, then one action, for the
handlers hold the event loop; it goes by the permission that `Grant` has read.
A group is `absent`, `plain` or permits to `manage`. `pw` and the codes carry the
number of the change that made them. `late` marks a session whose login was
authenticated before a lock or new password; `accepted`, `reused` and `contested`
are history. `policy` is what decides: whether administrators need MFA, the limit on
failures, and the window. The failures since the last success are apart by whether
they are in the window in force (`failures`) or not (`aged`): time moves them out
(`FailureAges`, `FailureExpires`), a wider window moves any of them in and a narrower
one out (`Recounted`). A login that has read an earlier policy counts by its window
(`Within`, `CountedBy`). `carried` is history: the failures a policy found
when it came into force, which a lower limit does not take back.
Failures are followed for the accounts `Watched`; a login to another is limited or
not as it may be. `ApiRestart` loses requests, puts back the groups of the program
(`OwnGroups`, no others) and creates the administrator if the name is free.

Left out: the address a login comes from (failures are counted per account and
address; those followed come from one), retention, password rules and history,
single permissions other than `access.manage`, the TOTP arithmetic (any code may be
right), `MFA` secrets, identity providers, the login events themselves.

### HostKeys

`keys[h]` is `authorized_keys` of a host, `rewriting[h]` the file
`authorized_keys.linux-ai-tmp` beside it, and `moving[h]` the removals that have
written that file and not moved it yet: the one that `execute_ssh_key_retirement`
waits for (`own`) and those it has given up (`late`), for a remote command that
timed out (`DeployFails`, `RemoveFails`) may still take effect (`LateRemoveLands`)
or not (`LateRemoveDies`). Between `RemoveBegins` and the move another line may be
appended, and is lost; a second removal truncates the file that a late one is about
to move, so that any part of it may be moved. `raced` names host and line, until it
is appended again. Late removals of one host are counted as one: whichever moves the
file leaves the others nothing to move. `InUse` is the key that `run_ssh` takes.
`deploy[<<r, h>>]` is how far runs of `deploy_ssh_rotation` have come with a host: a
run goes host by host, but any number may be under way, so that a stage once reached
stays possible. `Promote` asks for `verified` rows of enabled hosts only, so that a
host whose key was tested before the promotion and inserted after it
(`CreateHostConnects`, `CreateHostInserts`), enabled by a restored configuration, or
inserted by a start that finds it new in the seed inventory (2081-2096) is
`untested`. `PromoteRefused` answers 409 when its first UPDATE has been committed:
no rotation is active (`dropped`) until the next `Promote`. A retirement is asked
for, decided by somebody else and executed; a restart leaves it `orphaned`.

Left out: fingerprints and key files of the API, jump hosts, the batches in
which a retirement is shown, the removal of the private key.

### InventoryScans

The asset, patch and security inspections are one program three times: `job` says
which, and the three `Record...` actions say what calls for an alert. A cycle sees
the lock free, loads the inventory in an await (`Waits`) and takes the lock
(`Acquire`), or, in `run_automation_job`, the other way round (`RunJob`). Its scans
run in parallel: `ProbeFails` or `Record` inserts the result, `UpdateAlert`, some
awaits later, the alert. `ScanRaises` makes `gather` raise (`GatherRaises`), the
lock is released and the other scans go on beside the next cycle: `overlapped` names
their hosts until the cycle with the lock scans them alone. `missed` are hosts whose
alert is not of the last verdict, until one arrives: it did not reach the table, or
the alert was resolved since, by an administrator (`CloseIncident`, 8061) or with
its rule. The loops catch four classes of exceptions (7099-7101); any other, such as
`http.client.HTTPException` out of a message, ends the task of the loop until the
next start (`ended`). `Finish` counts the last rows of the hosts, whoever wrote
them. What a scan finds is a number, more being worse.

Left out: what is scanned, reports, the notices (`NotificationDelivery` sends
them; that one may raise is `ScanRaises` or `DispatchRaises`), an error of
`finish_automation_run` itself. The policy of the three jobs is that of a run of the model: the
thresholds are a constant, though the handlers at 7136 and 7741 change them,
after which an alert is what the last scan called for by the threshold of that time;
and the policy stays on, for with it off nothing is scanned and nothing is owed. Each
`update_*_alert` is one step, its transaction: a rule switched off between its first
SELECT and its INSERT may get an alert all the same, as in `AlertLifecycle`.
Scans left over from a failed cycle of a caller end before that caller's next.

### ConfigRestore

`config` is what the tables say of one host, one rule, one group and the policy;
`tmp`, `file`, `index` and `versions` are `config.json.tmp`, `config.json`, Git's
index and the commits. `commit_configuration` is one action per statement that
others can see: a SELECT per section (`Read`), `Write`, `Replace`, `Add`, `Diff`,
`Commit`. Nothing keeps two threads from doing so at a time, so a file may be gone
or somebody else may have committed what was staged (`Collides`). A restore is a
commit, the transaction over the tables (`Restore`) and another commit before
`Finish`; `Raise` is an error at any of these. `UpdateJobPolicy` is a
change that no commit follows: the policies of updates (7136), security baseline
(7741) and log collection (8447) write to a rule on routes that
`VERSIONED_CONFIG_ROUTE` (2291) does not match. A start adds default rules and seed
hosts that are missing (`Seeded`) before its own commit. `doubt` is history: a commit
failed or overlapped another, or such a change was made, and none was alone since.

`RestorePromise` has no calls, files or index: an archive, the configuration and
what has become of each request, with the content that its version had when it was
asked for. `ConfigRestore` maps a request to it by whether the transaction of its
restore has committed (`Outcome`), whatever the row says.

Left out: names, messages and identifiers of commits, the comparison shown
before a decision, deletion of old requests, and the groups of the program, which a
start resets and a restore skips: the group of the model is one that was created.

## Runs

| run | bounds | shows |
|---|---|---|
| `maintenance_safety` | 1 host, 2 writing tasks, 2 users, 2 workers, 1 fault | types, safety and step properties, with the crash or error at every point |
| `maintenance_promise` | 2 tasks, 2 runbooks (writing, reading), 1 alert, 1 worker with 2 slots | `ApprovalGate` is implemented; success means the whole runbook was sent |
| `maintenance_liveness` | 2 tasks, 2 workers, 1 fault, fair loops | `RunningSettles`, `QueueDrains` |
| `notification_retries` | 1 batch of 2 channels, 4 attempts, 2 faults, 1 replay, fair loop | `DeliveryPromise` is implemented; attempts and the hand-over; `JobsSettle` |
| `alert_cycle` | 1 rule, 2 hosts with 2 and no alerts, 2 cycles overlapping, 2 samples in a row, 1 fault, fair loop | `AlertBoard` is implemented; notices complete and in order; alerts follow the samples |
| `alert_escalation` | 2 alerts, 2 reminders, 1 fault, fair loops | types, the bounds on reminders and escalations, `BreachRecovers` |
| `alert_breach_lost` | the same, no fault | counterexample to a documented claim |
| `access` | 3 accounts, 2 groups, 2 requests, 2 sessions, 1 code per generation, 2 limits, 2 windows, 1 account watched, 1 failure out of the window, 2 changes | sessions, administrators, failures and codes, in every interleaving of the awaits |
| `host_keys` | 1 host, 2 rotations, 2 users, 2 faults | verified rows are true; an enabled host is reachable but for the named gaps |
| `inventory_scans` | 3 inspections, 2 hosts, loop and administrator, 3 findings, 1 change, 1 fault, fair | alerts are what the last scan called for, runs end, success means scanned, updates are found while the loop lives |
| `config_restore` | 4 sections, 2 administrators, 1 request, 2 changes, 1 fault | `RestorePromise` is implemented; the last version is the configuration |
| `config_restore_failed` | the same | counterexample to a documented claim |

Why these bounds are enough. Tasks interact only on one host or through one
worker, so one host and two tasks have every interaction of a pair; three tasks
are needed only to retry one beside a newer one. Two workers are what it takes
for claims to collide; two slots in one worker what it takes for one coroutine
to outlive its sibling's error. Two users separate requester from approver.
Faults repeat themselves: after one the system is in a state the invariants
already describe, and two in the notification run allow a lost attempt to be
lost again. Four attempts are the real limit. Rules do not meet
(every statement of an evaluation names one rule and one host), so one rule is
enough; two hosts are what `gather` joins, and one that only fails or holds up the
cycle is enough beside one with alerts; two cycles are what it takes for two
evaluations of a host; a second alert of one rule shows that
the first does not come back. Two reminders separate the first, the last and the
one too many. Two requests are what it takes to stand between two awaits of a
login; three accounts leave an administrator, one who is acted on and one who
acts; with a limit of one the first concurrent failure already exceeds it, and a
second limit or window is what it takes to lower or raise it; one group is the
administrators' and one is not, nor put back by a start: what it permits is then all
the freer (the proofs have groups that are put back too). A key
file concerns one host, and a promotion asks for each host alike, so one is
enough; two rotations give a key before the active one and a promotion to go back
to. Two callers and two hosts are what `gather` and the lock join. Two
administrators with a commit each are a collision, and their symmetry is used. The
proofs remove the bounds for
everything but liveness. Deadlock is not checked: task identifiers, faults and
replays run out and then nothing is left to do; liveness is checked instead.
Symmetry is used in runs without liveness only.

Fairness. `maintenance_liveness`: weak fairness for a coroutine between two of
its statements (asyncio schedules it), the claim loop, the reaper, Compose's
restart policy, and the lapse of the heartbeat of a row nobody runs (time
passes). None of users, of SSH successes or of faults. `notification_retries`:
weak fairness for each step of the retry loop and for due times; `JobsSettle`
excepts the state in which the loop has died, since only a restart brings it
back and none is owed. `alert_cycle`: weak fairness for the cycle while
`monitor_loop` lives, for its threads and its sending; none of administrators,
and `AlertsFollowSamples` is about rules that are on while the loop runs.
`alert_escalation`: weak fairness for the steps of the two loops, which catch
every exception; the claim of reminders needs none. `inventory_scans`: weak
fairness for the loop, which comes back every minute unless it has ended
(`UpdatesHeal` excepts that), for cycles and for scans,
whose commands time out; strong fairness for a scan of the loop to succeed, that
is, a host that is asked again and again answers one day. `UpdatesHeal` needs no
more: none of administrators, none of faults, and the restart that brings an ended
loop back is not owed. The other three runs check safety.

## Disagreements between code and documents

Shown by a run:

- README 721: the result of an escalation is kept. Its delivery is refused by the
  CHECK of the table (main.py 1694-1699, `006_scheduled_reports.sql`), the row
  stays `queued` and the rest of the list is dropped (`alert_breach_lost`,
  `EscalationsRecorded`).
- README 780 and main.py 2433: a restore that fails is rolled back. The commit
  after it may fail when the restore is in force (`config_restore_failed`,
  `FailedMeansRolledBack`).

Met while modelling; the properties checked make room for them, by a history
variable or by saying less:

- README 652: one task per host at a time. One row, yes; but closing or killing the
  ssh client does not end the command, and the reaper frees the host by status
  alone, so that the command of a task that was cancelled, failed or timed out meets
  the next task's (`OverlapOnlyWithAbandoned` says when).
- README 625: no second open task of a runbook for an alert. Retry does not look.
- `maintenance_worker.py` 144 writes "cancelled by an administrator" for tasks
  nobody cancelled: a row that was reaped, or the other tasks of a process whose
  claim collided.
- README 324: every failed first sending gets a retry job. Not when another
  channel's thread raises (`NothingForgotten` excepts it).
- README 324: four attempts at most in all (總嘗試次數最多四次). An attempt that a crash or
  database error leaves in `sending` is taken back without its count
  (3904-3910), and every claim counts one more (3902-3926): a message may be
  attempted once more for each time it was taken back, and `attempts` may exceed
  `max_attempts` (`AttemptsExplained` adds `recovered`).
- README 695: reminders stop with the acknowledgement or recovery. Those already
  claimed are sent, one per alert at most (`OneLateReminder`).
- main.py 3096, 3136: an administrator who can log in remains. `lock_user` counts
  the enabled administrators, `update_user` and `delete_user` all of them, so that
  the last enabled one can be moved or deleted (`AdministratorsRemain` counts all).
- README 573: switching keys loses no host. A refused promotion leaves no active
  key, and the key of the file may have been retired (`dropped`); a removal that
  timed out shares its temporary file with the next one (`raced`); new seed hosts are
  enabled untested (`untested`).
- README 570: recovery codes are good once (一次性復原碼); main.py 2665: after a renewal
  the old ones are invalid (舊復原碼已失效). `verify_mfa_code` reads the list in one
  transaction and writes it without the code in the end (1046-1066), so that two
  logins may both spend a code, and one that has read the list before a renewal
  writes the old codes back over the new ones (`CodesSpentOnce` excepts the accounts
  that are `contested` in this way).
- README 778: every change of a rule makes a version. The changes that come with the
  policies of three jobs make none (`LatestIsCurrent` excepts `doubt`).
- README 420 says an API restart marks running tasks failed; the comment at 1870
  and README 649 say they stay, and they do. The kind `on_call_gap` (5020) is
  refused like `sla_breach`.

## Proofs

`MaintenanceTasksProofs` proves for every number of tasks, hosts, users, runbooks,
alerts and workers, from the named assumptions on the constants: `TypeOK`,
`OneRunningRowPerHost`, `OverlapOnlyWithAbandoned`, `RunsOnlyApproved`,
`SucceededRanEverything`, `CommandsRunOnce`, `CancelStopsCommands`, `SettledStays`,
`QueuedUnderLiveApproval` and `ImplementsApprovalGate`. None is inductive by itself.
`Inv` adds: a row beyond pending has an approver, an independent one if the runbook
is sensitive, and a pending one has none (`Approvals`); a coroutine exists only for
a row that was claimed, and while it lives the row is running or reaped
(`Coroutines`); a selected row stays queued and has one claimant (`Claims`, the row
lock); what has been sent is determined by the phase (`Progress`); a command started
after the cancel request has not passed a check (`Late`); one that is on a host is
that of a coroutine in a command or was left by one that did not succeed
(`Leftovers`). One lemma per conjunct shows that each action keeps it. The
refinement has one lemma per abstract action.

`NotificationDeliveryProofs` proves `TypeOK`, `AttemptsExplained`, `NothingForgotten`,
`ImplementsDeliveryPromise`, and, in no run since the last says it of every message,
`DuplicatesExplained` and `SentIsFinal`. `JobSteps` says that
a step does one of seven things to a job; the rest follows from it with
`Counted` (a message arrived once more than it went unnoticed only while its
last sending is known to have succeeded) and `Handing` (what a batch has behind
it in each state). For the refinement one lemma per action (`DispatchLives` to
`RestartLives`) says what becomes of any one message; a crash moves many at once,
so the promise lets every message move or rest in each step.
`PromiseSays` shows that the promise is not too weak: from it alone, with none of
the machinery, follow `DuplicatesExplained` and `KnownOrKept` (a known message stays
known and does not arrive again, a kept one is not lost).

`AlertLifecycleProofs` proves `TypeOK`, `ImplementsAlertBoard`, `NoticesInOrder` and
`EveryAlertTold` for every set of rules and hosts and any number of cycles that
overlap. Only the commit of an evaluation of its host begins an alert
(`BeginsByCommit`), and only where the index finds none active; everybody else moves
alerts forward (`Goes`); hence a rule never gets a second active alert. What an
evaluation will end has begun, and what it has returned has happened (`Evaluated`).
The notices of one alert come from one thread, that of the cycle under way
(`NoticesOfCycle`), and there are none while others are sent (`Sending`), so what is
told of an alert has happened to it (`Noticed`), `stray` ones included. `Faultless`
says that without a fault every evaluation belongs to the cycle under way, has not
raised, and that the index has nothing to refuse (`NoCollision`); `EveryAlertTold`
needs all of it.

`AlertEscalationProofs` proves `TypeOK`, and `RemindersBounded`,
`OneLateReminder`, `OneEscalation` and `RemindersRecorded` one by one and together
(`SendingsBounded`, which the run checks): a reminder in hand has a row that
nothing was sent under (`Numbered`), a late one leaves the alert past firing and
out of every later claim (`Lateness`).

`AccessProofs` proves the five invariants of `access` for any number of accounts,
groups, requests and sessions. A request under way names an account (`Carrying`).
The codes of an account, those a request is spending included, are of generations
there have been and of no other account (`CodesApart`); an accepted code is in the
list of no account but a contested one (`SpentIsGone`). Each request
between count and record stands for one failure to come, and when it was counted
there was room by the policy in force, or that policy found the failures there were
and lets no more be added but by requests of before (`Counted`, with the cardinality
theorems of the library). The
administrators need no strengthening, only that each guard counts them.

`HostKeysProofs` proves the three invariants of `host_keys` for any hosts and
rotations. The heart is that a key being removed is an old one, neither
staged nor in use (`RetiresOld`), so that every file that replaces another lacks,
whoever wrote it and however late it is moved, only old keys and raced lines
(`RewritesKeep`); a rotation that does not exist yet is
deployed nowhere (`NewIsNowhere`), and at most one is active (`OneActive`,
`ActiveAlone`). A file loses only such keys and raced lines (`OnlyOldKeysGo`, an
action property), and an old key never comes back into use (`OldIsOld`). With the
`verified` rows this keeps hosts reachable over promotions, those being added too
(`NoneCutOff`).

`InventoryScansProofs` proves `TypeOK`, `RunningIsHeld`, `SuccessMeansScanned` and
`AlertMatchesLastScan`. Only the holder of the lock is past waiting, and one that
waits has no scans left over (`Holding`, `Waiting`); two scans of a host at a time
make it `overlapped` until the only scan is that of the only cycle (`Alone`); what
a cycle will count as a success is one of its own or still to come (`Counted`); a
verdict is on its way or has arrived (`Verdicts`). `SuccessMeansScanned` is about
the step in which a run becomes a success, and only `Finish` is such a step.

`ConfigRestoreProofs` proves `TypeOK`, `LatestIsCurrent` and `RestoredOnceAsDecided`
(the last one for every instance only; the run has `ImplementsRestorePromise`, which
says more). A request that is being applied is carried by one call, which knows by
its purpose whether it has restored (`Carrying`, `OneCarrier`); nothing is restored
before a decision (`Decided`). A commit that is alone finds its own reading in the
work tree, and its reading is the configuration (`Alone`); one that is not leaves
`doubt`, as does a change that no commit follows. The refinement is proved step by
step, one lemma for each action of `RestorePromise`: a commit is `Keep` or a
stutter, a start `Complete`, the transaction over the tables `CarryOut`, an error
before it `Drop`, and after it a stutter.

Only model-checked: liveness (`RunningSettles`, `QueueDrains`, `JobsSettle`,
`AlertsFollowSamples`, `BreachRecovers`, `UpdatesHeal`), which the prover's temporal
backend does not do under fairness. Assumed: the named assumptions on the
constants, which TLC evaluates in every run; nothing else.

## Not modelled

- Which messages a batch has (routing, silences, windows, storms, templates):
  `NotificationDelivery` takes any batch.
- Backup jobs: the worker is a sequential shell script around `pg_dump` and
  `pg_restore`. One gap is known: `notified_at` is set before the message is sent
  (4256).
- The audit chain: appends take one advisory lock for one transaction (8634), so
  there is nothing to interleave; the rest is a hash function.
- Migrations: one transaction of one process before it serves.
- On-call shifts, retention, rollups, central logs, reports, forecast, standby
  scripts, watchdog: sequential, numeric or text.
- Terminal, SSH transport, console, examples: input and output without state that
  several actors change.
- Of the modelled components, what each section above names as left out.

The definitions are mapped to a third of the lines of `backend/app`; the largest part
of the rest is the schema, the scripts sent to hosts, request models and read-only
endpoints, which change no state.
