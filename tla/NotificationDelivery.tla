------------------------ MODULE NotificationDelivery ------------------------
(***************************************************************************)
(* Delivering notifications (backend/app/main.py): dispatch_notifications   *)
(* sends a batch over its channels in parallel threads and hands each       *)
(* failure to the table notification_retry_jobs; notification_retry_loop    *)
(* claims due jobs one at a time; administrators replay or dismiss.         *)
(*                                                                          *)
(* A notice is one message on one channel, the key of that table.  Routing, *)
(* silencing and templates decide which notices a batch has and come first. *)
(***************************************************************************)
EXTENDS Integers, FiniteSets

CONSTANTS
    Notices,       \* (channel, retry key) pairs
    Batches,       \* calls of dispatch_notifications
    BatchOf,       \* the call a notice belongs to
    MaxAttempts,   \* the column max_attempts
    MaxFaults,     \* bound on crashes, database errors, lost and malformed replies
    MaxReplays,    \* bound on manual replays
    None           \* no job in the hands of the retry loop

ASSUME BatchAssumption == BatchOf \in [Notices -> Batches]
ASSUME LimitAssumption ==
    /\ MaxAttempts \in Nat \ {0, 1}
    /\ MaxFaults \in Nat
    /\ MaxReplays \in Nat
ASSUME NoneIsNoNotice == None \notin Notices

VARIABLES
    dispatch,   \* where each call of dispatch_notifications is
    first,      \* where the first sending of a notice is
    job,        \* the table notification_retry_jobs
    retry,      \* what notification_retry_loop is doing
    listed,     \* the jobs a batch replay has read and not yet replayed
    arrived,    \* history: how often the channel's provider has taken the notice
    unnoticed,  \* history: how often it did and nobody recorded it
    recovered,  \* history: how often the job was taken back from a lost attempt
    faults,     \* how many of MaxFaults have happened
    replays     \* how many of MaxReplays have happened

history == <<arrived, unnoticed, recovered>>
vars == <<dispatch, first, job, retry, listed, history, faults, replays>>

-----------------------------------------------------------------------------
Underway == {"sending", "accepted", "refused"}
Stages   == {"idle", "sent", "failed", "raised", "handed", "gone"} \cup Underway
Statuses == {"none", "queued", "sending", "sent", "failed", "dismissed"}

Job == [status   : Statuses,
        attempts : Nat,
        due      : BOOLEAN,   \* next_attempt_at <= NOW()
        old      : BOOLEAN]   \* updated_at older than ten minutes

NoJob == [status |-> "none", attempts |-> 0, due |-> FALSE, old |-> FALSE]

Retry == [notice : Notices \cup {None},
          stage  : {"idle", "sent", "failed", "dead"} \cup Underway]

Idle == [notice |-> None, stage |-> "idle"]
Dead == [notice |-> None, stage |-> "dead"]

TypeOK ==
    /\ dispatch \in [Batches -> {"idle", "sending", "handing", "done", "aborted"}]
    /\ first \in [Notices -> Stages]
    /\ job \in [Notices -> Job]
    /\ retry \in Retry
    /\ listed \subseteq Notices
    /\ arrived \in [Notices -> Nat]
    /\ unnoticed \in [Notices -> Nat]
    /\ recovered \in [Notices -> Nat]
    /\ faults \in 0..MaxFaults
    /\ replays \in 0..MaxReplays

Init ==
    /\ dispatch = [b \in Batches |-> "idle"]
    /\ first = [n \in Notices |-> "idle"]
    /\ job = [n \in Notices |-> NoJob]
    /\ retry = Idle
    /\ listed = {}
    /\ arrived = [n \in Notices |-> 0]
    /\ unnoticed = [n \in Notices |-> 0]
    /\ recovered = [n \in Notices |-> 0]
    /\ faults = 0
    /\ replays = 0

InBatch(b) == {n \in Notices : BatchOf[n] = b}
Status(n)  == job[n].status

Fault == faults < MaxFaults /\ faults' = faults + 1

Once(f, n) == [f EXCEPT ![n] = @ + 1]

-----------------------------------------------------------------------------
(* The first sending: one thread per notice of the batch                    *)

Dispatch(b) ==
    /\ dispatch[b] = "idle"
    /\ dispatch' = [dispatch EXCEPT ![b] = "sending"]
    /\ first' = [n \in Notices |-> IF n \in InBatch(b) THEN "sending" ELSE first[n]]
    /\ UNCHANGED <<job, retry, listed, history, faults, replays>>

\* urlopen or the SMTP client returns, raises what send_notification takes for
\* a failure, or does so although the provider has taken the message.
FirstAnswered(n) ==
    /\ first[n] = "sending"
    /\ \/ /\ first' = [first EXCEPT ![n] = "accepted"]
          /\ arrived' = Once(arrived, n)
          /\ UNCHANGED <<unnoticed, faults>>
       \/ /\ first' = [first EXCEPT ![n] = "refused"]
          /\ UNCHANGED <<arrived, unnoticed, faults>>
       \/ /\ first' = [first EXCEPT ![n] = "refused"]
          /\ arrived' = Once(arrived, n)
          /\ unnoticed' = Once(unnoticed, n)
          /\ Fault
    /\ UNCHANGED <<dispatch, job, retry, listed, recovered, replays>>

FirstRecorded(n) ==
    /\ \/ first[n] = "accepted" /\ first' = [first EXCEPT ![n] = "sent"]
       \/ first[n] = "refused" /\ first' = [first EXCEPT ![n] = "failed"]
    /\ UNCHANGED <<dispatch, job, retry, listed, history, faults, replays>>

\* The INSERT of write_notification_delivery fails, or the provider's reply is
\* one that http.client raises BadStatusLine for, which nothing here expects.
FirstRaises(n) ==
    /\ first[n] \in Underway
    /\ Fault
    /\ first' = [first EXCEPT ![n] = "raised"]
    /\ \/ /\ first[n] = "sending"
          /\ arrived' = Once(arrived, n)
          /\ unnoticed' = Once(unnoticed, n)
       \/ /\ first[n] = "accepted"
          /\ unnoticed' = Once(unnoticed, n)
          /\ UNCHANGED arrived
       \/ first[n] # "accepted" /\ UNCHANGED <<arrived, unnoticed>>
    /\ UNCHANGED <<dispatch, job, retry, listed, recovered, replays>>

\* gather returns when every thread has, and raises as soon as one does.
GatherReturns(b) ==
    /\ dispatch[b] = "sending"
    /\ \A n \in InBatch(b) : first[n] \in {"sent", "failed"}
    /\ dispatch' = [dispatch EXCEPT ![b] = "handing"]
    /\ UNCHANGED <<first, job, retry, listed, history, faults, replays>>

GatherRaises(b) ==
    /\ dispatch[b] = "sending"
    /\ \E n \in InBatch(b) : first[n] = "raised"
    /\ dispatch' = [dispatch EXCEPT ![b] = "aborted"]
    /\ UNCHANGED <<first, job, retry, listed, history, faults, replays>>

-----------------------------------------------------------------------------
(* Handing failures over to the retry table                                 *)

\* enqueue_notification_retry counts the first sending as an attempt.
HandOver(n) ==
    /\ dispatch[BatchOf[n]] = "handing"
    /\ first[n] = "failed"
    /\ first' = [first EXCEPT ![n] = "handed"]
    /\ job' = [job EXCEPT ![n] = [NoJob EXCEPT !.status = "queued", !.attempts = 1]]
    /\ UNCHANGED <<dispatch, retry, listed, history, faults, replays>>

\* Its INSERT fails, and with it what is left of the batch.
HandOverRaises(b) ==
    /\ dispatch[b] = "handing"
    /\ \E n \in InBatch(b) : first[n] = "failed"
    /\ Fault
    /\ dispatch' = [dispatch EXCEPT ![b] = "aborted"]
    /\ UNCHANGED <<first, job, retry, listed, history, replays>>

\* Fault: the batch is closed after its first failure has been handed over.
HandsOneOver(b) ==
    /\ dispatch[b] = "handing"
    /\ \E n \in InBatch(b) : first[n] # "failed"
    /\ dispatch' = [dispatch EXCEPT ![b] = "done"]
    /\ UNCHANGED <<first, job, retry, listed, history, faults, replays>>

DispatchDone(b) ==
    /\ dispatch[b] = "handing"
    /\ \A n \in InBatch(b) : first[n] # "failed"
    /\ dispatch' = [dispatch EXCEPT ![b] = "done"]
    /\ UNCHANGED <<first, job, retry, listed, history, faults, replays>>

-----------------------------------------------------------------------------
(* The retry loop                                                           *)

\* Environment: next_attempt_at or ten minutes since updated_at pass.
TimePasses(n) ==
    /\ \/ Status(n) = "queued" /\ ~job[n].due /\ job' = [job EXCEPT ![n].due = TRUE]
       \/ /\ Status(n) = "sending" /\ retry.notice # n /\ ~job[n].old
          /\ job' = [job EXCEPT ![n].old = TRUE]
    /\ UNCHANGED <<dispatch, first, retry, listed, history, faults, replays>>

TakenBack(back) ==
    [n \in Notices |-> IF n \in back
                       THEN [job[n] EXCEPT !.status = "queued", !.due = TRUE, !.old = FALSE]
                       ELSE job[n]]

Recovering(back) ==
    recovered' = [n \in Notices |-> IF n \in back THEN recovered[n] + 1 ELSE recovered[n]]

Stale == {n \in Notices : Status(n) = "sending" /\ job[n].old}

\* claim_notification_retry, one transaction: the jobs in back, left sending by
\* a lost attempt, are queued again and a due job is claimed.
Claims(n, back) ==
    /\ retry = Idle
    /\ \/ n \in back
       \/ Status(n) = "queued" /\ job[n].due
    /\ job' = [TakenBack(back) EXCEPT
                 ![n] = [status |-> "sending", attempts |-> job[n].attempts + 1,
                         due |-> TRUE, old |-> FALSE]]
    /\ Recovering(back)
    /\ retry' = [notice |-> n, stage |-> "sending"]
    /\ UNCHANGED <<dispatch, first, listed, arrived, unnoticed, faults, replays>>

\* Fault: a job left sending is never queued again.
ClaimLeavesStale(n) == Claims(n, {})

\* The order of next_attempt_at is left open.
Claim(n) == Claims(n, Stale)

RetryAnswered ==
    /\ retry.stage = "sending"
    /\ \/ /\ retry' = [retry EXCEPT !.stage = "accepted"]
          /\ arrived' = Once(arrived, retry.notice)
          /\ UNCHANGED <<unnoticed, faults>>
       \/ /\ retry' = [retry EXCEPT !.stage = "refused"]
          /\ UNCHANGED <<arrived, unnoticed, faults>>
       \/ /\ retry' = [retry EXCEPT !.stage = "refused"]
          /\ arrived' = Once(arrived, retry.notice)
          /\ unnoticed' = Once(unnoticed, retry.notice)
          /\ Fault
    /\ UNCHANGED <<dispatch, first, job, listed, recovered, replays>>

RetryRecorded ==
    /\ \/ retry.stage = "accepted" /\ retry' = [retry EXCEPT !.stage = "sent"]
       \/ retry.stage = "refused" /\ retry' = [retry EXCEPT !.stage = "failed"]
    /\ UNCHANGED <<dispatch, first, job, listed, history, faults, replays>>

\* A database error while the answer is recorded or the job finished: the loop
\* goes on to the next job and this one stays as it is.
RetryRaises ==
    /\ retry.stage \in {"accepted", "refused", "sent", "failed"}
    /\ Fault
    /\ retry' = Idle
    /\ unnoticed' = IF retry.stage \in {"accepted", "sent"} THEN Once(unnoticed, retry.notice)
                                                           ELSE unnoticed
    /\ UNCHANGED <<dispatch, first, job, listed, arrived, recovered, replays>>

\* A malformed reply raises what the loop does not catch, and ends it.
RetryDies ==
    /\ retry.stage = "sending"
    /\ Fault
    /\ retry' = Dead
    /\ \/ /\ arrived' = Once(arrived, retry.notice)
          /\ unnoticed' = Once(unnoticed, retry.notice)
       \/ UNCHANGED <<arrived, unnoticed>>
    /\ UNCHANGED <<dispatch, first, job, listed, recovered, replays>>

\* Fault: a failed attempt is always queued again.
FinishAlwaysRequeues ==
    /\ retry.stage \in {"sent", "failed"}
    /\ job' = [job EXCEPT ![retry.notice] =
                 [@ EXCEPT !.status = IF retry.stage = "sent" THEN "sent" ELSE "queued",
                           !.due = FALSE, !.old = FALSE]]
    /\ retry' = Idle
    /\ UNCHANGED <<dispatch, first, listed, history, faults, replays>>

Finish ==
    /\ retry.stage \in {"sent", "failed"}
    /\ job' = [job EXCEPT ![retry.notice] =
                 [@ EXCEPT !.status = IF retry.stage = "sent" THEN "sent"
                                      ELSE IF job[retry.notice].attempts >= MaxAttempts
                                           THEN "failed" ELSE "queued",
                           !.due = FALSE, !.old = FALSE]]
    /\ retry' = Idle
    /\ UNCHANGED <<dispatch, first, listed, history, faults, replays>>

-----------------------------------------------------------------------------
(* Restart and manual actions                                               *)

Held == {n \in Notices : Status(n) = "sending"}

\* What providers have taken and no table shows.
Unrecorded ==
    {n \in Notices : \/ first[n] = "accepted"
                     \/ retry.notice = n /\ retry.stage \in {"accepted", "sent"}}

\* The process ends with its threads and loops; initialize_db queues again
\* whatever the table still shows as sending.
ApiRestart ==
    /\ Fault
    /\ dispatch' = [b \in Batches |-> IF dispatch[b] \in {"sending", "handing"}
                                      THEN "aborted" ELSE dispatch[b]]
    /\ first' = [n \in Notices |-> IF first[n] \in Underway THEN "gone" ELSE first[n]]
    /\ job' = TakenBack(Held)
    /\ Recovering(Held)
    /\ retry' = Idle
    /\ listed' = {}
    /\ unnoticed' = [n \in Notices |-> IF n \in Unrecorded THEN unnoticed[n] + 1
                                                           ELSE unnoticed[n]]
    /\ UNCHANGED <<arrived, replays>>

\* act_on_notification_retries, one transaction: those of the given jobs whose
\* status allows it start again from no attempt.
Requeue(given, allowed) ==
    LET chosen == {n \in given : Status(n) \in allowed} IN
    /\ job' = [n \in Notices |-> IF n \in chosen
                                 THEN [status |-> "queued", attempts |-> 0,
                                       due |-> TRUE, old |-> FALSE]
                                 ELSE job[n]]
    /\ recovered' = [n \in Notices |-> IF n \in chosen THEN 0 ELSE recovered[n]]
    /\ UNCHANGED <<dispatch, first, retry, arrived, unnoticed, faults>>

Replayable == {"failed", "dismissed"}

\* Fault: replay looks only whether there is a job.
ReplayAnything(n) ==
    /\ Status(n) # "none"
    /\ replays < MaxReplays
    /\ replays' = replays + 1
    /\ Requeue({n}, Statuses)
    /\ UNCHANGED listed

Replay(n) ==
    /\ Status(n) \in Replayable
    /\ replays < MaxReplays
    /\ replays' = replays + 1
    /\ Requeue({n}, Replayable)
    /\ UNCHANGED listed

\* Fault: a status the table does not have.
DismissMisspelt(n) ==
    /\ Status(n) = "failed"
    /\ job' = [job EXCEPT ![n].status = "ignored"]
    /\ UNCHANGED <<dispatch, first, retry, listed, history, faults, replays>>

Dismiss(n) ==
    /\ Status(n) = "failed"
    /\ job' = [job EXCEPT ![n].status = "dismissed"]
    /\ UNCHANGED <<dispatch, first, retry, listed, history, faults, replays>>

\* replay-failed reads the failed jobs, and replays them in a later transaction.
ListFailed ==
    /\ listed = {}
    /\ replays < MaxReplays
    /\ replays' = replays + 1
    /\ listed' = {n \in Notices : Status(n) = "failed"}
    /\ listed' # {}
    /\ UNCHANGED <<dispatch, first, job, retry, history, faults>>

ReplayListed ==
    /\ listed # {}
    /\ listed' = {}
    /\ Requeue(listed, Replayable)
    /\ UNCHANGED replays

-----------------------------------------------------------------------------
FirstStep(n)    == FirstAnswered(n) \/ FirstRecorded(n) \/ FirstRaises(n)
DispatchStep(b) == Dispatch(b) \/ GatherReturns(b) \/ GatherRaises(b)
                     \/ HandOverRaises(b) \/ DispatchDone(b)
RetryStep       == RetryAnswered \/ RetryRecorded \/ RetryRaises \/ RetryDies \/ Finish
ManualStep      == ListFailed \/ ReplayListed \/ \E n \in Notices : Replay(n) \/ Dismiss(n)

Next ==
    \/ \E b \in Batches : DispatchStep(b)
    \/ \E n \in Notices : FirstStep(n) \/ HandOver(n)
    \/ \E n \in Notices : TimePasses(n) \/ Claim(n)
    \/ RetryStep
    \/ ManualStep
    \/ ApiRestart

Spec == Init /\ [][Next]_vars

\* The retry loop runs for ever, its connections time out, and time passes.
Fairness ==
    /\ WF_vars(RetryAnswered)
    /\ WF_vars(RetryRecorded)
    /\ WF_vars(Finish)
    /\ \A n \in Notices : WF_vars(TimePasses(n)) /\ WF_vars(Claim(n))

FairSpec == Spec /\ Fairness

-----------------------------------------------------------------------------
(* Properties                                                               *)

\* A provider gets a message more than once only as often as it had taken the
\* message and the platform failed to learn or to record it: no retry, replay,
\* hand-over or recovery sends again what is known to be sent.
DuplicatesExplained == \A n \in Notices : arrived[n] <= 1 + unnoticed[n]

\* The four attempts: a job is given up after MaxAttempts attempts at the
\* earliest, and has more only for as many as were lost and taken back.
AttemptsExplained ==
    \A n \in Notices :
        /\ job[n].attempts <= MaxAttempts + recovered[n]
        /\ Status(n) \in {"failed", "dismissed"} => job[n].attempts >= MaxAttempts

\* When dispatch_notifications returns, every message of its batch has been
\* sent or is in the retry table.
NothingForgotten ==
    \A b \in Batches : dispatch[b] = "done" =>
        \A n \in InBatch(b) : first[n] = "sent" \/ Status(n) # "none"

\* A message known to be sent, at once or by a retry, never gets another job.
KnownSent(n) == first[n] = "sent" \/ Status(n) = "sent"

SentIsFinal == [][\A n \in Notices : KnownSent(n) => job'[n] = job[n]]_vars

\* What has become of a message, with batch, thread, job and loop out of sight.
JobPhase(n) ==
    CASE Status(n) = "sent"                                      -> "known"
      [] Status(n) \in Replayable                                -> "given up"
      [] retry.notice = n /\ retry.stage = "sending"             -> "sending"
      [] retry.notice = n /\ retry.stage \in {"accepted", "sent"} -> "accepted"
      [] retry.notice = n /\ retry.stage \in {"refused", "failed"} -> "refused"
      [] OTHER                                                   -> "owed"

Phase(n) ==
    CASE first[n] = "idle"     -> "new"
      [] first[n] \in Underway -> first[n]
      [] first[n] = "sent"     -> "known"
      [] first[n] = "failed"   -> IF dispatch[BatchOf[n]] = "aborted" THEN "lost" ELSE "refused"
      [] first[n] = "handed"   -> JobPhase(n)
      [] OTHER                 -> "lost"

Promise == INSTANCE DeliveryPromise
    WITH phase <- [n \in Notices |-> Phase(n)],
         kept  <- [n \in Notices |-> Status(n) # "none"]

\* Whatever crashes, fails or is replayed, each message lives as promised: one in the
\* retry table is never lost, one known to be sent never sent again, and a provider
\* takes a message again only if an earlier time went unnoticed.
ImplementsDeliveryPromise == Promise!Spec

\* A retry job comes to an end, unless a malformed reply has ended the loop.
JobsSettle ==
    \A n \in Notices :
        Status(n) \in {"queued", "sending"}
            ~> Status(n) \in {"sent", "failed", "dismissed"} \/ retry = Dead
=============================================================================
