--------------------- MODULE NotificationDeliveryProofs ---------------------
(***************************************************************************)
(* Theorems about NotificationDelivery for every set of notices and         *)
(* batches and every number of attempts, crashes and replays.  The          *)
(* inductive invariant Inv ties the retry loop to the job it works on       *)
(* (Loop), a job to the first sending it comes from (Jobs), the attempts    *)
(* to the status (Attempts) and what providers got to what the tables show  *)
(* (Counting).                                                              *)
(***************************************************************************)
EXTENDS NotificationDelivery, TLAPS

\* While the loop works on a job, the job is sending.
Loop ==
    /\ retry.stage \in {"sent", "failed"} \cup Underway => retry.notice \in Notices
    /\ retry.stage \in {"idle", "dead"} => retry.notice = None
    /\ retry.notice \in Notices => Status(retry.notice) = "sending"

\* Exactly the failures that were handed over have a job.
Jobs == \A n \in Notices : first[n] = "handed" <=> Status(n) # "none"

Attempted(n) ==
    /\ job[n].attempts <= MaxAttempts + recovered[n]
    /\ Status(n) \in {"none", "queued"} => job[n].attempts < MaxAttempts + recovered[n]
    /\ Status(n) \in {"failed", "dismissed"} => job[n].attempts >= MaxAttempts

Attempts == \A n \in Notices : Attempted(n)

\* The last sending is known, or about to be known, to have succeeded.
Noted(n) ==
    \/ first[n] \in {"accepted", "sent"}
    \/ Status(n) = "sent"
    \/ retry.notice = n /\ retry.stage \in {"accepted", "sent"}

Counted(n) ==
    /\ arrived[n] <= 1 + unnoticed[n]
    /\ ~Noted(n) => arrived[n] <= unnoticed[n]

Counting == \A n \in Notices : Counted(n)

\* What dispatch_notifications has behind it when it hands over and returns.
Handing(n) ==
    /\ dispatch[BatchOf[n]] = "idle" => first[n] = "idle"
    /\ dispatch[BatchOf[n]] = "handing" => first[n] \in {"sent", "failed", "handed"}
    /\ dispatch[BatchOf[n]] = "done" => first[n] \in {"sent", "handed"}

Handings == \A n \in Notices : Handing(n)

Inv == TypeOK /\ Loop /\ Jobs /\ Attempts /\ Counting /\ Handings

-----------------------------------------------------------------------------
\* The initial state satisfies the inductive invariant.
LEMMA InitInv == Init => Inv
<1>. SUFFICES ASSUME Init PROVE Inv
  OBVIOUS
<1>. USE BatchAssumption, LimitAssumption, NoneIsNoNotice DEF Init
<1>1. TypeOK
  BY DEF TypeOK, Job, NoJob, Statuses, Stages, Underway, Retry, Idle
<1>2. Loop
  BY DEF Loop, Idle, Underway
<1>3. Jobs
  BY DEF Jobs, Status, NoJob
<1>4. Attempts
  BY DEF Attempts, Attempted, Status, NoJob
<1>5. Counting
  BY DEF Counting, Counted
<1>6. Handings
  BY DEF Handings, Handing
<1>. QED
  BY <1>1, <1>2, <1>3, <1>4, <1>5, <1>6 DEF Inv

\* No step writes a value outside the variables' types.
LEMMA TypeStep == Inv /\ [Next]_vars => TypeOK'
<1>. SUFFICES ASSUME TypeOK, Loop, [Next]_vars PROVE TypeOK'
  BY DEF Inv
<1>. USE LimitAssumption DEF TypeOK, Stages, Underway
<1>0. \A n \in Notices : job[n] \in Job
  OBVIOUS
<1>1. ASSUME NEW b \in Batches, DispatchStep(b) PROVE TypeOK'
  BY <1>1 DEF DispatchStep, Dispatch, GatherReturns, GatherRaises, HandOverRaises,
              DispatchDone, Fault, history
<1>2. ASSUME NEW n \in Notices, FirstStep(n) PROVE TypeOK'
  BY <1>2 DEF FirstStep, FirstAnswered, FirstRecorded, FirstRaises, Once, Fault, history
<1>3. ASSUME NEW n \in Notices, HandOver(n) PROVE TypeOK'
  <2>1. [NoJob EXCEPT !.status = "queued", !.attempts = 1] \in Job
    BY DEF NoJob, Job, Statuses
  <2>. QED
    BY <1>3, <2>1 DEF HandOver, history
<1>4. ASSUME NEW n \in Notices, TimePasses(n) PROVE TypeOK'
  <2>1. [job[n] EXCEPT !.due = TRUE] \in Job /\ [job[n] EXCEPT !.old = TRUE] \in Job
    BY <1>0 DEF Job
  <2>2. job' \in [Notices -> Job]
    BY <1>4, <2>1 DEF TimePasses
  <2>. QED
    BY <1>4, <2>2 DEF TimePasses, history
<1>5. ASSUME NEW back \in SUBSET Notices PROVE TakenBack(back) \in [Notices -> Job]
  BY <1>0 DEF TakenBack, Job, Statuses
<1>6. ASSUME NEW n \in Notices, Claim(n) PROVE TypeOK'
  <2>1. TakenBack(Stale) \in [Notices -> Job]
    BY <1>5 DEF Stale
  <2>2. [status |-> "sending", attempts |-> job[n].attempts + 1,
         due |-> TRUE, old |-> FALSE] \in Job
    BY <1>0 DEF Job, Statuses
  <2>3. job' \in [Notices -> Job]
    BY <1>6, <2>1, <2>2 DEF Claim, Claims
  <2>. QED
    BY <1>6, <2>3 DEF Claim, Claims, Recovering, Retry
<1>7. CASE RetryAnswered \/ RetryRecorded \/ RetryRaises \/ RetryDies
  BY <1>7 DEF RetryAnswered, RetryRecorded, RetryRaises, RetryDies, Loop, Retry, Idle, Dead,
              Once, Fault, history
<1>8. CASE Finish
  <2>0. PICK st \in {"sent", "failed", "queued"} :
          job' = [job EXCEPT ![retry.notice] =
                    [@ EXCEPT !.status = st, !.due = FALSE, !.old = FALSE]]
    BY <1>8 DEF Finish
  <2>1. ASSUME NEW j \in Job
        PROVE  [j EXCEPT !.status = st, !.due = FALSE, !.old = FALSE] \in Job
    BY <2>1 DEF Job, Statuses
  <2>2. job' \in [Notices -> Job]
    BY <2>0, <2>1
  <2>. QED
    BY <1>8, <2>2 DEF Finish, Retry, Idle, history
<1>9. CASE ApiRestart
  <2>1. job' \in [Notices -> Job]
    BY <1>5, <1>9 DEF ApiRestart, Held
  <2>. QED
    BY <1>9, <2>1 DEF ApiRestart, Recovering, Retry, Idle, Fault
<1>10. ASSUME NEW given \in SUBSET Notices, Requeue(given, Replayable)
       PROVE  job' \in [Notices -> Job] /\ recovered' \in [Notices -> Nat]
  BY <1>0, <1>10 DEF Requeue, Job, Statuses
<1>11. CASE ManualStep
  <2>1. CASE ListFailed
    BY <2>1 DEF ListFailed, history
  <2>2. CASE ReplayListed
    BY <1>10, <2>2 DEF ReplayListed, Requeue
  <2>3. ASSUME NEW n \in Notices, Replay(n) PROVE TypeOK'
    <3>1. job' \in [Notices -> Job] /\ recovered' \in [Notices -> Nat]
      BY <1>10, <2>3 DEF Replay
    <3>. QED
      BY <2>3, <3>1 DEF Replay, Requeue
  <2>4. ASSUME NEW n \in Notices, Dismiss(n) PROVE TypeOK'
    BY <1>0, <2>4 DEF Dismiss, Job, Statuses, history
  <2>. QED
    BY <1>11, <2>1, <2>2, <2>3, <2>4 DEF ManualStep
<1>12. CASE UNCHANGED vars
  BY <1>12 DEF vars, history
<1>. QED
  BY <1>1, <1>2, <1>3, <1>4, <1>6, <1>7, <1>8, <1>9, <1>11, <1>12 DEF Next, RetryStep

-----------------------------------------------------------------------------
(* What a step may do to a job                                              *)

Stays(n) ==
    Status(n)' = Status(n) /\ job'[n].attempts = job[n].attempts /\ recovered'[n] = recovered[n]

HandedOver(n) ==
    /\ first[n] = "failed" /\ first'[n] = "handed" /\ recovered'[n] = recovered[n]
    /\ Status(n)' = "queued" /\ job'[n].attempts = 1

Claimed(n) ==
    /\ Status(n)' = "sending" /\ job'[n].attempts = job[n].attempts + 1
    /\ \/ Status(n) = "queued" /\ recovered'[n] = recovered[n]
       \/ Status(n) = "sending" /\ recovered'[n] = recovered[n] + 1

Returned(n) ==
    /\ Status(n) = "sending" /\ Status(n)' = "queued"
    /\ job'[n].attempts = job[n].attempts /\ recovered'[n] = recovered[n] + 1

Finished(n) ==
    /\ Status(n) = "sending" /\ job'[n].attempts = job[n].attempts /\ recovered'[n] = recovered[n]
    /\ \/ Status(n)' = "sent"
       \/ Status(n)' = "failed" /\ job[n].attempts >= MaxAttempts
       \/ Status(n)' = "queued" /\ job[n].attempts < MaxAttempts

Dismissed(n) ==
    /\ Status(n) = "failed" /\ Status(n)' = "dismissed"
    /\ job'[n].attempts = job[n].attempts /\ recovered'[n] = recovered[n]

Replayed(n) ==
    /\ Status(n) \in Replayable /\ Status(n)' = "queued"
    /\ job'[n].attempts = 0 /\ recovered'[n] = 0

JobStep(n) ==
    Stays(n) \/ HandedOver(n) \/ Claimed(n) \/ Returned(n) \/ Finished(n)
             \/ Dismissed(n) \/ Replayed(n)

\* Putting a job back in the queue keeps its count of attempts.
LEMMA Requeued ==
    ASSUME NEW j \in Job
    PROVE  LET k == [j EXCEPT !.status = "queued", !.due = TRUE, !.old = FALSE]
           IN  k.status = "queued" /\ k.attempts = j.attempts
BY DEF Job

\* A flag of a job that changes leaves its status and its attempts alone.
LEMMA Flagged ==
    ASSUME NEW j \in Job
    PROVE  /\ [j EXCEPT !.due = TRUE].status = j.status
           /\ [j EXCEPT !.due = TRUE].attempts = j.attempts
           /\ [j EXCEPT !.old = TRUE].status = j.status
           /\ [j EXCEPT !.old = TRUE].attempts = j.attempts
BY DEF Job

\* Every step does one of seven things to a job.
LEMMA JobSteps ==
    ASSUME TypeOK, Loop, [Next]_vars, NEW n \in Notices
    PROVE  JobStep(n)
<1>. USE DEF TypeOK
<1>0. job \in [Notices -> Job] /\ recovered \in [Notices -> Nat]
  OBVIOUS
<1>j. job[n] \in Job
  BY <1>0
<1>1. ASSUME NEW b \in Batches, DispatchStep(b) PROVE Stays(n)
  BY <1>1 DEF DispatchStep, Dispatch, GatherReturns, GatherRaises, HandOverRaises,
              DispatchDone, history, Stays, Status
<1>2. ASSUME NEW m \in Notices, FirstStep(m) PROVE Stays(n)
  BY <1>2 DEF FirstStep, FirstAnswered, FirstRecorded, FirstRaises, history, Stays, Status
<1>3. ASSUME NEW m \in Notices, HandOver(m) PROVE Stays(n) \/ HandedOver(n)
  BY <1>0, <1>3 DEF HandOver, history, Stays, HandedOver, Status, NoJob
<1>4. ASSUME NEW m \in Notices, TimePasses(m) PROVE Stays(n)
  <2>1. recovered' = recovered
    BY <1>4 DEF TimePasses, history
  <2>2. job'[n] \in {job[n], [job[n] EXCEPT !.due = TRUE], [job[n] EXCEPT !.old = TRUE]}
    BY <1>0, <1>4 DEF TimePasses
  <2>. QED
    BY <1>j, <2>1, <2>2, Flagged DEF Stays, Status
<1>5. ASSUME NEW m \in Notices, Claim(m)
      PROVE  Stays(n) \/ Claimed(n) \/ Returned(n)
  <2>1. recovered'[n] = IF n \in Stale THEN recovered[n] + 1 ELSE recovered[n]
    BY <1>5 DEF Claim, Claims, Recovering
  <2>2. Stale \subseteq Notices /\ \A k \in Stale : Status(k) = "sending"
    BY DEF Stale
  <2>3. TakenBack(Stale) = [k \in Notices |->
           IF k \in Stale THEN [job[k] EXCEPT !.status = "queued", !.due = TRUE, !.old = FALSE]
                          ELSE job[k]]
    BY DEF TakenBack
  <2>4. CASE n = m
    <3>1. job'[n].status = "sending" /\ job'[n].attempts = job[n].attempts + 1
      BY <1>5, <2>3, <2>4 DEF Claim, Claims
    <3>. QED
      BY <1>5, <2>1, <2>2, <2>4, <3>1 DEF Claim, Claims, Claimed, Status
  <2>5. CASE n # m
    <3>1. job'[n] = TakenBack(Stale)[n]
      BY <1>5, <2>3, <2>5 DEF Claim, Claims
    <3>2. CASE n \in Stale
      <4>0. job'[n] = [job[n] EXCEPT !.status = "queued", !.due = TRUE, !.old = FALSE]
        BY <2>3, <3>1, <3>2
      <4>1. job'[n].status = "queued" /\ job'[n].attempts = job[n].attempts
        BY <1>j, <4>0, Requeued
      <4>. QED
        BY <2>1, <2>2, <3>2, <4>1 DEF Returned, Status
    <3>3. CASE n \notin Stale
      BY <2>1, <2>3, <3>1, <3>3 DEF Stays, Status
    <3>. QED
      BY <3>2, <3>3
  <2>. QED
    BY <2>4, <2>5
<1>6. CASE RetryAnswered \/ RetryRecorded \/ RetryRaises \/ RetryDies
  <2>. Stays(n)
    BY <1>6 DEF RetryAnswered, RetryRecorded, RetryRaises, RetryDies, history, Stays, Status
  <2>. QED
    BY DEF JobStep
<1>7. CASE Finish
  <2>0. recovered' = recovered
    BY <1>7 DEF Finish, history
  <2>1. retry.notice \in Notices /\ Status(retry.notice) = "sending"
    BY <1>7 DEF Finish, Loop, Underway
  <2>2. CASE n = retry.notice
    <3>1. /\ job'[n].attempts = job[n].attempts
          /\ job'[n].status = IF retry.stage = "sent" THEN "sent"
                              ELSE IF job[n].attempts >= MaxAttempts THEN "failed" ELSE "queued"
      BY <1>0, <1>7, <2>2 DEF Finish, Job
    <3>2. job[n].attempts \in Nat
      BY <1>0 DEF Job
    <3>. QED
      BY <2>0, <2>1, <2>2, <3>1, <3>2, LimitAssumption DEF Finished, JobStep, Status
  <2>3. CASE n # retry.notice
    <3>. Stays(n)
      BY <1>0, <1>7, <2>0, <2>3 DEF Finish, Stays, Status
    <3>. QED
      BY DEF JobStep
  <2>. QED
    BY <2>2, <2>3
<1>8. CASE ApiRestart
  <2>1. recovered'[n] = IF n \in Held THEN recovered[n] + 1 ELSE recovered[n]
    BY <1>8 DEF ApiRestart, Recovering
  <2>2. job'[n] = IF n \in Held
                  THEN [job[n] EXCEPT !.status = "queued", !.due = TRUE, !.old = FALSE]
                  ELSE job[n]
    BY <1>8 DEF ApiRestart, TakenBack
  <2>3. CASE n \in Held
    <3>1. Status(n) = "sending"
      BY <2>3 DEF Held
    <3>2. job'[n].status = "queued" /\ job'[n].attempts = job[n].attempts
      BY <1>0, <2>2, <2>3 DEF Job
    <3>3. recovered'[n] = recovered[n] + 1
      BY <2>1, <2>3
    <3>4. Returned(n)
      BY <3>1, <3>2, <3>3 DEF Returned, Status
    <3>. QED
      BY <3>4 DEF JobStep
  <2>4. CASE n \notin Held
    BY <2>1, <2>2, <2>4 DEF Stays, JobStep, Status
  <2>. QED
    BY <2>3, <2>4
<1>9. ASSUME NEW given \in SUBSET Notices, Requeue(given, Replayable)
      PROVE  Stays(n) \/ Replayed(n)
  BY <1>0, <1>9 DEF Requeue, Stays, Replayed, Status
<1>10. CASE ManualStep
  <2>1. CASE ListFailed
    BY <2>1 DEF ListFailed, history, Stays, JobStep, Status
  <2>2. CASE ReplayListed
    BY <1>9, <2>2 DEF ReplayListed, JobStep
  <2>3. ASSUME NEW m \in Notices, Replay(m) PROVE JobStep(n)
    BY <1>9, <2>3 DEF Replay, JobStep
  <2>4. ASSUME NEW m \in Notices, Dismiss(m)
        PROVE  Stays(n) \/ Dismissed(n)
    BY <1>0, <2>4 DEF Dismiss, history, Stays, Dismissed, Status, Job
  <2>. QED
    BY <1>10, <2>1, <2>2, <2>3, <2>4 DEF ManualStep, JobStep
<1>11. CASE UNCHANGED vars
  BY <1>11 DEF vars, history, Stays, JobStep, Status
<1>. QED
  BY <1>1, <1>2, <1>3, <1>4, <1>5, <1>6, <1>7, <1>8, <1>10, <1>11
  DEF Next, RetryStep, JobStep

\* A notice is handed over once, by HandOver, and remains so.
LEMMA FirstSteps ==
    ASSUME Inv, [Next]_vars, NEW n \in Notices
    PROVE  /\ first[n] = "handed" => first'[n] = "handed"
           /\ first[n] # "handed" /\ first'[n] = "handed" => HandedOver(n)
<1>. USE DEF Inv, TypeOK
<1>1. CASE \E b \in Batches : DispatchStep(b)
  <2>1. ASSUME NEW b \in Batches, Dispatch(b)
        PROVE  (first[n] # "handed" /\ first'[n] # "handed") \/ first'[n] = first[n]
    BY <2>1 DEF Dispatch, InBatch, Handings, Handing
  <2>. QED
    BY <1>1, <2>1 DEF DispatchStep, GatherReturns, GatherRaises, HandOverRaises, DispatchDone
<1>2. CASE \E m \in Notices : FirstStep(m)
  BY <1>2 DEF FirstStep, FirstAnswered, FirstRecorded, FirstRaises, Underway
<1>3. ASSUME NEW m \in Notices, HandOver(m)
      PROVE  /\ first[n] = "handed" => first'[n] = "handed"
             /\ first[n] # "handed" /\ first'[n] = "handed" => HandedOver(n)
  BY <1>3 DEF HandOver, HandedOver, Status, NoJob, history
<1>4. CASE \E m \in Notices : TimePasses(m) \/ Claim(m)
  BY <1>4 DEF TimePasses, Claim, Claims
<1>5. CASE RetryStep
  BY <1>5 DEF RetryStep, RetryAnswered, RetryRecorded, RetryRaises, RetryDies, Finish
<1>6. CASE ManualStep
  BY <1>6 DEF ManualStep, ListFailed, ReplayListed, Replay, Dismiss, Requeue
<1>7. CASE ApiRestart
  BY <1>7 DEF ApiRestart, Underway
<1>8. CASE UNCHANGED vars
  BY <1>8 DEF vars
<1>. QED
  BY <1>1, <1>2, <1>3, <1>4, <1>5, <1>6, <1>7, <1>8 DEF Next

\* Jobs and first sendings stay in step.
LEMMA JobsStep == Inv /\ [Next]_vars => Jobs'
<1>. SUFFICES ASSUME Inv, [Next]_vars, NEW n \in Notices
              PROVE  (first[n] = "handed")' <=> (Status(n) # "none")'
  BY DEF Jobs
<1>1. JobStep(n)
  BY JobSteps DEF Inv
<1>2. first[n] = "handed" <=> Status(n) # "none"
  BY DEF Inv, Jobs
<1>. QED
  BY <1>1, <1>2, FirstSteps
  DEF JobStep, Stays, HandedOver, Claimed, Returned, Finished, Dismissed, Replayed, Replayable

\* No step breaks the account of the attempts.
LEMMA AttemptsStep == Inv /\ [Next]_vars => Attempts'
<1>. SUFFICES ASSUME Inv, [Next]_vars, NEW n \in Notices PROVE Attempted(n)'
  BY DEF Attempts
<1>1. JobStep(n)
  BY JobSteps DEF Inv
<1>2. Attempted(n) /\ job[n].attempts \in Nat /\ recovered[n] \in Nat
  BY DEF Inv, Attempts, TypeOK, Job
<1>3. HandedOver(n) => recovered'[n] \in Nat
  BY <1>2 DEF HandedOver
<1>. QED
  BY <1>1, <1>2, LimitAssumption
  DEF JobStep, Stays, HandedOver, Claimed, Returned, Finished, Dismissed, Replayed, Replayable,
      Attempted, Status

\* No step takes the loop's job away from it.
LEMMA LoopStep == Inv /\ [Next]_vars => Loop'
<1>. SUFFICES ASSUME Inv, TypeOK, Loop, [Next]_vars PROVE Loop'
  BY DEF Inv
<1>. USE NoneIsNoNotice DEF Loop, Underway
<1>0. ASSUME retry' = retry, \A n \in Notices : Stays(n) \/ Status(n) # "sending"
      PROVE  Loop'
  BY <1>0 DEF Stays, Status
<1>1. CASE \E b \in Batches : DispatchStep(b)
  BY <1>0, <1>1 DEF DispatchStep, Dispatch, GatherReturns, GatherRaises, HandOverRaises,
                    DispatchDone, Stays, Status, history
<1>2. CASE \E n \in Notices : FirstStep(n)
  BY <1>0, <1>2 DEF FirstStep, FirstAnswered, FirstRecorded, FirstRaises, Stays, Status, history
<1>3. ASSUME NEW m \in Notices, HandOver(m) PROVE Loop'
  <2>1. Status(m) = "none"
    BY <1>3 DEF HandOver, Inv, Jobs
  <2>2. \A n \in Notices \ {m} : Stays(n)
    BY <1>3 DEF HandOver, Stays, Status, TypeOK, history
  <2>. QED
    BY <1>0, <1>3, <2>1, <2>2 DEF HandOver
<1>4. ASSUME NEW m \in Notices, TimePasses(m) PROVE Loop'
  <2>1. \A n \in Notices : Stays(n)
    <3>1. SUFFICES ASSUME NEW n \in Notices PROVE Stays(n)
      OBVIOUS
    <3>2. job[n] \in Job /\ recovered' = recovered
      BY <1>4 DEF TimePasses, TypeOK, history
    <3>3. job'[n] \in {job[n], [job[n] EXCEPT !.due = TRUE], [job[n] EXCEPT !.old = TRUE]}
      BY <1>4 DEF TimePasses, TypeOK
    <3>. QED
      BY <3>2, <3>3, Flagged DEF Stays, Status
  <2>. QED
    BY <1>0, <1>4, <2>1 DEF TimePasses
<1>5. ASSUME NEW m \in Notices, Claim(m) PROVE Loop'
  <2>1. TakenBack(Stale) = [n \in Notices |-> TakenBack(Stale)[n]]
    BY DEF TakenBack
  <2>2. job'[m].status = "sending"
    BY <1>5, <2>1 DEF Claim, Claims
  <2>. QED
    BY <1>5, <2>2 DEF Claim, Claims, Status
<1>6. CASE RetryAnswered \/ RetryRecorded
  BY <1>6 DEF RetryAnswered, RetryRecorded, Status, TypeOK, Retry
<1>7. CASE RetryRaises \/ RetryDies \/ Finish \/ ApiRestart
  BY <1>7 DEF RetryRaises, RetryDies, Finish, ApiRestart, Idle, Dead
<1>8. CASE ManualStep
  <2>1. retry' = retry
    BY <1>8 DEF ManualStep, ListFailed, ReplayListed, Replay, Dismiss, Requeue
  <2>2. ASSUME NEW n \in Notices, Status(n) = "sending" PROVE Status(n)' = "sending"
    BY <1>8, <2>2 DEF ManualStep, ListFailed, ReplayListed, Replay, Dismiss, Requeue, Replayable,
                      Status, TypeOK, Job, history
  <2>. QED
    BY <2>1, <2>2 DEF Status
<1>9. CASE UNCHANGED vars
  BY <1>0, <1>9 DEF vars, Stays, Status, history
<1>. QED
  BY <1>1, <1>2, <1>3, <1>4, <1>5, <1>6, <1>7, <1>8, <1>9 DEF Next, RetryStep

\* Nothing reopens a batch or a first sending that was handed over or recorded.
LEMMA HandingsStep == Inv /\ [Next]_vars => Handings'
<1>. SUFFICES ASSUME Inv, TypeOK, [Next]_vars, NEW n \in Notices PROVE Handing(n)'
  BY DEF Inv, Handings
<1>. USE BatchAssumption DEF TypeOK, Handing
<1>0. Handing(n)
  BY DEF Inv, Handings
<1>1. ASSUME NEW b \in Batches, DispatchStep(b) PROVE Handing(n)'
  <2>1. CASE Dispatch(b)
    BY <1>0, <2>1 DEF Dispatch, InBatch
  <2>2. CASE GatherReturns(b) \/ GatherRaises(b) \/ HandOverRaises(b) \/ DispatchDone(b)
    BY <1>0, <2>2 DEF GatherReturns, GatherRaises, HandOverRaises, DispatchDone, InBatch
  <2>. QED
    BY <1>1, <2>1, <2>2 DEF DispatchStep
<1>2. ASSUME NEW m \in Notices, FirstStep(m) PROVE Handing(n)'
  <2>1. dispatch' = dispatch
    BY <1>2 DEF FirstStep, FirstAnswered, FirstRecorded, FirstRaises
  <2>2. first[m] \in Underway /\ (n = m \/ first'[n] = first[n])
    BY <1>2 DEF FirstStep, FirstAnswered, FirstRecorded, FirstRaises, Underway
  <2>. QED
    BY <1>0, <2>1, <2>2 DEF Underway
<1>3. ASSUME NEW m \in Notices, HandOver(m) PROVE Handing(n)'
  BY <1>0, <1>3 DEF HandOver
<1>4. CASE (\E m \in Notices : TimePasses(m) \/ Claim(m)) \/ RetryStep \/ ManualStep
  <2>. dispatch' = dispatch /\ first' = first
    BY <1>4 DEF TimePasses, Claim, Claims, RetryStep, RetryAnswered, RetryRecorded, RetryRaises,
                RetryDies, Finish, ManualStep, ListFailed, ReplayListed, Replay, Dismiss, Requeue
  <2>. QED
    BY <1>0
<1>5. CASE ApiRestart
  BY <1>0, <1>5 DEF ApiRestart, Underway
<1>6. CASE UNCHANGED vars
  BY <1>0, <1>6 DEF vars
<1>. QED
  BY <1>1, <1>2, <1>3, <1>4, <1>5, <1>6 DEF Next

\* No step sends again what was taken and recorded.
LEMMA CountingStep == Inv /\ [Next]_vars => Counting'
<1>. SUFFICES ASSUME Inv, TypeOK, Loop, [Next]_vars, NEW n \in Notices PROVE Counted(n)'
  BY DEF Inv, Counting
<1>. USE NoneIsNoNotice DEF Underway
<1>0. /\ Counted(n) /\ arrived[n] \in Nat /\ unnoticed[n] \in Nat
      /\ retry.notice = n => Status(n) = "sending"
      /\ first[n] = "handed" <=> Status(n) # "none"
      /\ first \in [Notices -> Stages] /\ job \in [Notices -> Job] /\ retry \in Retry
      /\ arrived \in [Notices -> Nat] /\ unnoticed \in [Notices -> Nat]
  BY DEF Inv, Counting, Jobs, Loop, TypeOK
\* A step that leaves both counters alone may not forget what was noted.
<1>a. ASSUME UNCHANGED <<arrived, unnoticed>>, Noted(n) => Noted(n)' PROVE Counted(n)'
  BY <1>0, <1>a DEF Counted
<1>1. ASSUME NEW b \in Batches, DispatchStep(b) PROVE Counted(n)'
  <2>1. Noted(n) => Noted(n)'
    BY <1>1 DEF DispatchStep, Dispatch, GatherReturns, GatherRaises, HandOverRaises,
                DispatchDone, Noted, Status, InBatch, Inv, Handings, Handing
  <2>. QED
    BY <1>1, <1>a, <2>1 DEF DispatchStep, Dispatch, GatherReturns, GatherRaises, HandOverRaises,
                            DispatchDone, history
<1>2. ASSUME NEW m \in Notices, FirstStep(m) PROVE Counted(n)'
  <2>1. CASE n # m
    BY <1>0, <1>2, <2>1 DEF FirstStep, FirstAnswered, FirstRecorded, FirstRaises, Once, Counted,
                            Noted, Status, history
  <2>2. CASE n = m
    <3>1. Status(n) = "none" /\ retry.notice # n /\ retry' = retry /\ job' = job
      BY <1>0, <1>2, <2>2 DEF FirstStep, FirstAnswered, FirstRecorded, FirstRaises
    <3>2. CASE FirstAnswered(n)
      BY <1>0, <3>1, <3>2 DEF FirstAnswered, Once, Counted, Noted, Status
    <3>3. CASE FirstRecorded(n)
      BY <1>0, <3>1, <3>3 DEF FirstRecorded, Counted, Noted, Status, history
    <3>4. CASE FirstRaises(n)
      BY <1>0, <3>1, <3>4 DEF FirstRaises, Once, Counted, Noted, Status
    <3>. QED
      BY <1>2, <2>2, <3>2, <3>3, <3>4 DEF FirstStep
  <2>. QED
    BY <2>1, <2>2
<1>3. ASSUME NEW m \in Notices, HandOver(m) PROVE Counted(n)'
  BY <1>0, <1>3, <1>a DEF HandOver, Noted, Status, history
<1>4. CASE (\E m \in Notices : TimePasses(m) \/ Claim(m)) \/ ManualStep
  <2>1. UNCHANGED <<first, arrived, unnoticed>>
    BY <1>4 DEF TimePasses, Claim, Claims, ManualStep, ListFailed, ReplayListed, Replay, Dismiss,
                Requeue, history
  <2>2. retry' = retry \/ retry = Idle
    BY <1>4 DEF TimePasses, Claim, Claims, ManualStep, ListFailed, ReplayListed, Replay, Dismiss,
                Requeue
  <2>3. Status(n) = "sent" => Status(n)' = "sent"
    BY <2>1, JobSteps
    DEF JobStep, Stays, HandedOver, Claimed, Returned, Finished, Dismissed, Replayed, Replayable
  <2>. QED
    BY <1>a, <2>1, <2>2, <2>3 DEF Noted, Idle
<1>5. CASE RetryAnswered \/ RetryRecorded \/ RetryRaises \/ RetryDies
  <2>1. first' = first /\ job' = job
    BY <1>5 DEF RetryAnswered, RetryRecorded, RetryRaises, RetryDies
  <2>2. CASE n = retry.notice
    <3>1. Status(n) = "sending" /\ first[n] = "handed"
      BY <1>0, <2>2
    <3>2. CASE RetryAnswered
      BY <1>0, <2>1, <2>2, <3>1, <3>2 DEF RetryAnswered, Once, Counted, Noted, Status, Retry
    <3>3. CASE RetryRecorded
      BY <1>0, <2>1, <2>2, <3>1, <3>3 DEF RetryRecorded, Counted, Noted, Status, Retry, history
    <3>4. CASE RetryRaises
      BY <1>0, <2>1, <2>2, <3>1, <3>4 DEF RetryRaises, Once, Counted, Noted, Status, Idle
    <3>5. CASE RetryDies
      BY <1>0, <2>1, <2>2, <3>1, <3>5 DEF RetryDies, Once, Counted, Noted, Status, Dead
    <3>. QED
      BY <1>5, <3>2, <3>3, <3>4, <3>5
  <2>3. CASE n # retry.notice
    <3>1. UNCHANGED <<arrived[n], unnoticed[n]>> /\ retry'.notice # n
      BY <1>0, <1>5, <2>3 DEF RetryAnswered, RetryRecorded, RetryRaises, RetryDies, Once, Idle,
                              Dead, Retry, history
    <3>. QED
      BY <1>0, <2>1, <2>3, <3>1 DEF Counted, Noted, Status
  <2>. QED
    BY <2>2, <2>3
<1>6. CASE Finish
  <2>1. UNCHANGED <<first, arrived, unnoticed>>
    BY <1>6 DEF Finish, history
  <2>2. Status(n) = "sent" => Status(n)' = "sent"
    BY <1>0, <1>6 DEF Finish, Status
  <2>3. retry.notice = n /\ retry.stage = "sent" => Status(n)' = "sent"
    BY <1>0, <1>6 DEF Finish, Status, Job
  <2>. QED
    BY <1>6, <1>a, <2>1, <2>2, <2>3 DEF Finish, Noted
<1>7. CASE ApiRestart
  <2>1. arrived' = arrived /\ unnoticed'[n] = IF n \in Unrecorded THEN unnoticed[n] + 1
                                                                  ELSE unnoticed[n]
    BY <1>7 DEF ApiRestart
  <2>2. Status(n) = "sent" => Status(n)' = "sent"
    BY <1>7 DEF ApiRestart, TakenBack, Held, Status
  <2>3. first[n] = "sent" => first'[n] = "sent"
    BY <1>7 DEF ApiRestart
  <2>. QED
    BY <1>0, <2>1, <2>2, <2>3 DEF Counted, Noted, Unrecorded
<1>8. CASE UNCHANGED vars
  BY <1>8, <1>a DEF vars, Noted, Status, history
<1>. QED
  BY <1>1, <1>2, <1>3, <1>4, <1>5, <1>6, <1>7, <1>8 DEF Next, RetryStep

-----------------------------------------------------------------------------
\* Inv holds throughout every execution.
THEOREM Invariance == Spec => []Inv
<1>1. Init => Inv
  BY InitInv
<1>2. Inv /\ [Next]_vars => Inv'
  BY TypeStep, LoopStep, JobsStep, AttemptsStep, CountingStep, HandingsStep DEF Inv
<1>. QED
  BY <1>1, <1>2, PTL DEF Spec

\* Statuses, stages and counters stay within their types, whatever raises.
THEOREM TypeCorrect == Spec => []TypeOK
<1>1. Inv => TypeOK
  BY DEF Inv
<1>. QED
  BY <1>1, Invariance, PTL

\* Providers get a message again only after an acceptance nobody recorded.
THEOREM Duplicates == Spec => []DuplicatesExplained
<1>1. Inv => DuplicatesExplained
  BY DEF Inv, Counting, Counted, DuplicatesExplained
<1>. QED
  BY <1>1, Invariance, PTL

\* MaxAttempts bounds the attempts of a job up to those that were lost.
THEOREM FourAttempts == Spec => []AttemptsExplained
<1>1. Inv => AttemptsExplained
  BY DEF Inv, Attempts, Attempted, AttemptsExplained
<1>. QED
  BY <1>1, Invariance, PTL

\* A returned dispatch has no failure left behind.
THEOREM HandOverComplete == Spec => []NothingForgotten
<1>1. Inv => NothingForgotten
  BY DEF Inv, Jobs, Handings, Handing, NothingForgotten, InBatch
<1>. QED
  BY <1>1, Invariance, PTL

\* A message known to be sent is never queued, replayed or changed again.
THEOREM SentFinal == Spec => SentIsFinal
<1>1. Inv /\ [Next]_vars => [\A n \in Notices : KnownSent(n) => job'[n] = job[n]]_vars
  <2>. SUFFICES ASSUME Inv, TypeOK, [Next]_vars, NEW n \in Notices, KnownSent(n)
                PROVE  job'[n] = job[n]
    BY DEF Inv
  <2>1. Status(n) \in {"none", "sent"} /\ first[n] # "failed"
    BY DEF Inv, Jobs, KnownSent
  <2>2. ASSUME NEW m \in Notices, HandOver(m) \/ TimePasses(m) \/ Claim(m) PROVE job'[n] = job[n]
    BY <2>1, <2>2 DEF HandOver, TimePasses, Claim, Claims, TakenBack, Stale, Status, TypeOK
  <2>3. CASE Finish
    BY <2>1, <2>3 DEF Finish, Inv, Loop, Underway, TypeOK
  <2>4. CASE ApiRestart
    BY <2>1, <2>4 DEF ApiRestart, TakenBack, Held
  <2>5. CASE ManualStep
    BY <2>1, <2>5 DEF ManualStep, ListFailed, ReplayListed, Replay, Dismiss, Requeue, Replayable,
                      Status, TypeOK
  <2>. QED
    BY <2>2, <2>3, <2>4, <2>5
    DEF Next, DispatchStep, Dispatch, GatherReturns, GatherRaises, HandOverRaises, DispatchDone,
        FirstStep, FirstAnswered, FirstRecorded, FirstRaises, RetryStep, RetryAnswered,
        RetryRecorded, RetryRaises, RetryDies, vars
<1>. QED
  BY <1>1, Invariance, PTL DEF Spec, SentIsFinal
-----------------------------------------------------------------------------
(* NotificationDelivery implements DeliveryPromise                          *)

\* The loop works on a job of a notice that was handed over, and nothing else does.
LEMMA Working ==
    ASSUME Inv, NEW n \in Notices
    PROVE  /\ retry \in Retry /\ first[n] \in Stages /\ job[n] \in Job
           /\ first[n] = "handed" <=> Status(n) # "none"
           /\ retry.notice = n => /\ Status(n) = "sending" /\ first[n] = "handed"
                                  /\ retry.stage \in {"sent", "failed"} \cup Underway
           /\ retry.stage \in {"sent", "failed"} \cup Underway => retry.notice \in Notices
BY NoneIsNoNotice DEF Inv, TypeOK, Loop, Jobs, Retry, Underway

\* The first sending alone decides until it is handed over, the job from then on.
LEMMA PhaseIs ==
    ASSUME Inv, NEW n \in Notices
    PROVE  /\ first[n] = "handed" => Phase(n) = JobPhase(n)
           /\ first[n] \in Underway => Phase(n) = first[n]
           /\ JobPhase(n) \in {"known", "given up", "owed", "sending", "accepted", "refused"}
           /\ Phase(n) \in Promise!Phases
BY Working DEF Phase, JobPhase, Stages, Underway, Promise!Phases, Promise!Attempt

\* What a change of phase is under the mapping.
LEMMA Mapped ==
    ASSUME NEW n \in Notices
    PROVE  /\ \A before, after : Promise!Becomes(n, before, after)
                                   <=> Phase(n) \in before /\ Phase(n)' \in after
           /\ Promise!Same(n) <=> ((Status(n) # "none")' <=> Status(n) # "none")
           /\ Promise!Quiet(n) <=> arrived'[n] = arrived[n] /\ unnoticed'[n] = unnoticed[n]
BY DEF Promise!Becomes, Promise!Same, Promise!Quiet

\* A step that changes neither the phase nor the counters of a notice is a rest.
LEMMA Resting ==
    ASSUME NEW n \in Notices, Phase(n)' = Phase(n), (Status(n) # "none")' <=> Status(n) # "none",
           arrived'[n] = arrived[n], unnoticed'[n] = unnoticed[n]
    PROVE  Promise!Rest(n)
BY Mapped DEF Promise!Rest
Lives(n) == Promise!Move(n) \/ Promise!Rest(n)

\* A step that leaves the first sending, the job and the loop alone is a rest for it.
LEMMA Untouched ==
    ASSUME NEW n \in Notices, dispatch' = dispatch, first'[n] = first[n], job'[n] = job[n],
           \/ retry' = retry
           \/ retry.notice # n /\ retry'.notice # n,
           arrived'[n] = arrived[n], unnoticed'[n] = unnoticed[n]
    PROVE  Lives(n)
<1>1. Status(n)' = Status(n)
  BY DEF Status
<1>2. JobPhase(n)' = JobPhase(n)
  BY <1>1 DEF JobPhase
<1>3. Phase(n)' = Phase(n)
  BY <1>2 DEF Phase
<1>. QED
  BY <1>1, <1>3, Resting DEF Lives

\* A batch begins, hands over, ends or is given up.
LEMMA DispatchLives ==
    ASSUME Inv, NEW b \in Batches, DispatchStep(b), NEW n \in Notices
    PROVE  Lives(n)
<1>. USE BatchAssumption
<1>0. UNCHANGED <<job, retry, arrived, unnoticed>>
  BY DEF DispatchStep, Dispatch, GatherReturns, GatherRaises, HandOverRaises, DispatchDone, history
<1>1. JobPhase(n)' = JobPhase(n) /\ Status(n)' = Status(n)
  BY <1>0 DEF JobPhase, Status
<1>2. Handing(n) /\ dispatch \in [Batches -> {"idle", "sending", "handing", "done", "aborted"}]
      /\ first \in [Notices -> Stages]
  BY DEF Inv, Handings, TypeOK
<1>3. CASE Dispatch(b) /\ BatchOf[n] = b
  <2>1. Phase(n) = "new" /\ Phase(n)' = "sending"
    BY <1>2, <1>3 DEF Dispatch, Handing, InBatch, Phase, Underway
  <2>2. Promise!Send(n)
    BY <1>0, <1>1, <2>1, Mapped DEF Promise!Send
  <2>. QED
    BY <2>2 DEF Lives, Promise!Move
<1>4. CASE Dispatch(b) /\ BatchOf[n] # b
  <2>1. first'[n] = first[n] /\ dispatch'[BatchOf[n]] = dispatch[BatchOf[n]]
    BY <1>2, <1>4 DEF Dispatch, InBatch
  <2>2. Phase(n)' = Phase(n)
    BY <1>1, <2>1 DEF Phase
  <2>. QED
    BY <1>0, <1>1, <2>2, Resting DEF Lives
<1>5. CASE GatherReturns(b) \/ DispatchDone(b)
  <2>1. first' = first /\ (dispatch'[BatchOf[n]] = "aborted" <=> dispatch[BatchOf[n]] = "aborted")
    BY <1>2, <1>5 DEF GatherReturns, DispatchDone
  <2>2. Phase(n)' = Phase(n)
    BY <1>1, <2>1 DEF Phase
  <2>. QED
    BY <1>0, <1>1, <2>2, Resting DEF Lives
<1>6. CASE GatherRaises(b) \/ HandOverRaises(b)
  <2>0. first' = first /\ dispatch[b] # "aborted" /\ dispatch' = [dispatch EXCEPT ![b] = "aborted"]
    BY <1>6 DEF GatherRaises, HandOverRaises
  <2>1. CASE first[n] = "failed" /\ BatchOf[n] = b
    <3>1. Phase(n) = "refused" /\ Phase(n)' = "lost" /\ Status(n) = "none"
      BY <1>2, <2>0, <2>1, Working DEF Phase, Underway
    <3>3. Promise!Break(n)
      BY <1>0, <1>1, <3>1, Mapped DEF Promise!Break, Promise!Attempt
    <3>. QED
      BY <3>3 DEF Lives, Promise!Move
  <2>2. CASE first[n] # "failed" \/ BatchOf[n] # b
    <3>1. Phase(n)' = Phase(n)
      BY <1>1, <1>2, <2>0, <2>2 DEF Phase
    <3>. QED
      BY <1>0, <1>1, <3>1, Resting DEF Lives
  <2>. QED
    BY <2>1, <2>2
<1>. QED
  BY <1>3, <1>4, <1>5, <1>6 DEF DispatchStep
\* The first sending of a message is answered, recorded or raises.
LEMMA FirstLives ==
    ASSUME Inv, NEW m \in Notices, FirstStep(m), NEW n \in Notices
    PROVE  Lives(n)
<1>0. UNCHANGED <<dispatch, job, retry>>
  BY DEF FirstStep, FirstAnswered, FirstRecorded, FirstRaises
<1>1. /\ first \in [Notices -> Stages] /\ arrived \in [Notices -> Nat]
      /\ unnoticed \in [Notices -> Nat]
  BY DEF Inv, TypeOK
<1>2. CASE n # m
  <2>1. first'[n] = first[n] /\ arrived'[n] = arrived[n] /\ unnoticed'[n] = unnoticed[n]
    BY <1>1, <1>2 DEF FirstStep, FirstAnswered, FirstRecorded, FirstRaises, Once, history
  <2>. QED
    BY <1>0, <2>1, Untouched
<1>3. CASE n = m
  <2>0. Status(n) = "none" /\ Status(n)' = "none"
    BY <1>0, <1>3, Working
    DEF FirstStep, FirstAnswered, FirstRecorded, FirstRaises, Status, Underway
  <2>1. first[n] \in Underway /\ Phase(n) = first[n]
    BY <1>3, PhaseIs DEF FirstStep, FirstAnswered, FirstRecorded, FirstRaises, Underway
  <2>2. CASE FirstAnswered(n)
    <3>1. Phase(n)' = first'[n] /\ first'[n] \in {"accepted", "refused"} /\ first[n] = "sending"
      BY <1>1, <2>2 DEF FirstAnswered, Phase, Underway
    <3>2. CASE first'[n] = "accepted"
      <4>1. arrived'[n] = arrived[n] + 1 /\ unnoticed'[n] = unnoticed[n]
        BY <1>1, <2>2, <3>2 DEF FirstAnswered, Once
      <4>2. Promise!Accept(n)
        BY <2>0, <2>1, <3>1, <3>2, <4>1, Mapped DEF Promise!Accept
      <4>. QED
        BY <4>2 DEF Lives, Promise!Move
    <3>3. CASE first'[n] = "refused"
      <4>1. \/ arrived'[n] = arrived[n] /\ unnoticed'[n] = unnoticed[n]
            \/ arrived'[n] = arrived[n] + 1 /\ unnoticed'[n] = unnoticed[n] + 1
        BY <1>1, <2>2, <3>3 DEF FirstAnswered, Once
      <4>2. Promise!Refuse(n)
        BY <2>0, <2>1, <3>1, <3>3, <4>1, Mapped DEF Promise!Refuse, Promise!Secret
      <4>. QED
        BY <4>2 DEF Lives, Promise!Move
    <3>. QED
      BY <3>1, <3>2, <3>3
  <2>3. CASE FirstRecorded(n)
    <3>1. arrived'[n] = arrived[n] /\ unnoticed'[n] = unnoticed[n]
      BY <2>3 DEF FirstRecorded, history
    <3>2. CASE first[n] = "accepted"
      <4>1. Phase(n)' = "known"
        BY <1>1, <2>3, <3>2 DEF FirstRecorded, Phase, Underway
      <4>2. Promise!Know(n)
        BY <2>0, <2>1, <3>1, <3>2, <4>1, Mapped DEF Promise!Know
      <4>. QED
        BY <4>2 DEF Lives, Promise!Move
    <3>3. CASE first[n] = "refused"
      <4>1. Phase(n)' \in {"refused", "lost"}
        BY <1>1, <2>3, <3>3 DEF FirstRecorded, Phase, Underway
      <4>2. CASE Phase(n)' = "refused"
        BY <2>0, <2>1, <3>1, <3>3, <4>2, Resting DEF Lives
      <4>3. CASE Phase(n)' = "lost"
        <5>1. Promise!Break(n)
          BY <2>0, <2>1, <3>1, <3>3, <4>3, Mapped DEF Promise!Break, Promise!Attempt
        <5>. QED
          BY <5>1 DEF Lives, Promise!Move
      <4>. QED
        BY <4>1, <4>2, <4>3
    <3>. QED
      BY <2>3, <3>2, <3>3 DEF FirstRecorded
  <2>4. CASE FirstRaises(n)
    <3>1. Phase(n)' = "lost"
      BY <1>1, <2>4 DEF FirstRaises, Phase, Underway
    <3>2. \/ Phase(n) # "accepted" /\ arrived'[n] = arrived[n] /\ unnoticed'[n] = unnoticed[n]
          \/ /\ Phase(n) = "sending"
             /\ arrived'[n] = arrived[n] + 1 /\ unnoticed'[n] = unnoticed[n] + 1
          \/ /\ Phase(n) = "accepted"
             /\ arrived'[n] = arrived[n] /\ unnoticed'[n] = unnoticed[n] + 1
      BY <1>1, <2>1, <2>4 DEF FirstRaises, Once
    <3>3. Promise!Break(n)
      BY <2>0, <2>1, <3>1, <3>2, Mapped DEF Promise!Break, Promise!Attempt, Promise!Secret, Underway
    <3>. QED
      BY <3>3 DEF Lives, Promise!Move
  <2>. QED
    BY <1>3, <2>2, <2>3, <2>4 DEF FirstStep
<1>. QED
  BY <1>2, <1>3

\* A failure that is handed over is kept, and no other message moves.
LEMMA HandOverLives ==
    ASSUME Inv, NEW m \in Notices, HandOver(m), NEW n \in Notices
    PROVE  Lives(n)
<1>0. UNCHANGED <<dispatch, retry, arrived, unnoticed>>
  BY DEF HandOver, history
<1>1. first \in [Notices -> Stages] /\ job \in [Notices -> Job]
  BY DEF Inv, TypeOK
<1>2. CASE n # m
  <2>1. first'[n] = first[n] /\ job'[n] = job[n]
    BY <1>1, <1>2 DEF HandOver
  <2>. QED
    BY <1>0, <2>1, Untouched
<1>3. CASE n = m
  <2>1. first[n] = "failed" /\ first'[n] = "handed" /\ dispatch[BatchOf[n]] = "handing"
    BY <1>1, <1>3 DEF HandOver
  <2>2. Status(n) = "none" /\ retry.notice # n
    BY <2>1, Working
  <2>3. Status(n)' = "queued"
    BY <1>1, <1>3 DEF HandOver, Status, NoJob
  <2>4. Phase(n) = "refused"
    BY <2>1 DEF Phase, Underway
  <2>5. Phase(n)' = "owed"
    BY <1>0, <2>1, <2>2, <2>3 DEF Phase, JobPhase, Replayable, Underway
  <2>6. Promise!Keep(n)
    BY <1>0, <2>3, <2>4, <2>5, Mapped DEF Promise!Keep
  <2>. QED
    BY <2>6 DEF Lives, Promise!Move
<1>. QED
  BY <1>2, <1>3

\* Time passing moves no message.
LEMMA TimeLives ==
    ASSUME Inv, [Next]_vars, NEW m \in Notices, TimePasses(m), NEW n \in Notices
    PROVE  Lives(n)
<1>0. UNCHANGED <<dispatch, first, retry, arrived, unnoticed>>
  BY DEF TimePasses, history
<1>1. job'[n] \in {job[n], [job[n] EXCEPT !.due = TRUE], [job[n] EXCEPT !.old = TRUE]}
  BY DEF TimePasses, Inv, TypeOK
<1>2. Status(n)' = Status(n)
  BY <1>1, Working, Flagged DEF Status
<1>3. JobPhase(n)' = JobPhase(n)
  BY <1>0, <1>2 DEF JobPhase
<1>4. Phase(n)' = Phase(n)
  BY <1>0, <1>3 DEF Phase
<1>. QED
  BY <1>0, <1>2, <1>4, Resting DEF Lives

\* The claimed message is sent once more; one that is taken back is still owed.
LEMMA ClaimLives ==
    ASSUME Inv, [Next]_vars, NEW m \in Notices, Claim(m), NEW n \in Notices
    PROVE  Lives(n)
<1>0. UNCHANGED <<dispatch, first, arrived, unnoticed>> /\ retry = Idle
      /\ retry' = [notice |-> m, stage |-> "sending"]
  BY DEF Claim, Claims
<1>1. retry.notice # n
  BY <1>0, NoneIsNoNotice DEF Idle
<1>2. job \in [Notices -> Job]
  BY DEF Inv, TypeOK
<1>3. TakenBack(Stale) = [k \in Notices |->
         IF k \in Stale THEN [job[k] EXCEPT !.status = "queued", !.due = TRUE, !.old = FALSE]
                        ELSE job[k]]
  BY DEF TakenBack
<1>4. CASE n = m
  <2>1. Status(n) \in {"queued", "sending"} /\ first[n] = "handed"
    BY <1>4, Working DEF Claim, Claims, Stale
  <2>2. Status(n)' = "sending"
    BY <1>3, <1>4 DEF Claim, Claims, Status
  <2>3. Phase(n) = "owed"
    BY <1>1, <2>1 DEF Phase, JobPhase, Replayable, Underway
  <2>4. Phase(n)' = "sending"
    BY <1>0, <1>4, <2>1, <2>2 DEF Phase, JobPhase, Replayable, Underway
  <2>5. Promise!Send(n)
    BY <1>0, <2>1, <2>2, <2>3, <2>4, Mapped DEF Promise!Send
  <2>. QED
    BY <2>5 DEF Lives, Promise!Move
<1>5. CASE n # m /\ n \notin Stale
  <2>1. job'[n] = job[n]
    BY <1>3, <1>5 DEF Claim, Claims
  <2>. QED
    BY <1>0, <1>1, <1>5, <2>1, Untouched
<1>6. CASE n # m /\ n \in Stale
  <2>1. Status(n) = "sending" /\ first[n] = "handed"
    BY <1>6, Working DEF Stale
  <2>2. job'[n] = [job[n] EXCEPT !.status = "queued", !.due = TRUE, !.old = FALSE]
    BY <1>3, <1>6 DEF Claim, Claims
  <2>3. Status(n)' = "queued"
    BY <1>2, <2>2, Requeued DEF Status
  <2>4. Phase(n) = "owed" /\ Phase(n)' = "owed"
    BY <1>0, <1>1, <1>6, <2>1, <2>3 DEF Phase, JobPhase, Replayable, Underway
  <2>. QED
    BY <1>0, <2>1, <2>3, <2>4, Resting DEF Lives
<1>. QED
  BY <1>4, <1>5, <1>6
\* The attempt of the retry loop is answered, recorded, fails or ends the loop.
LEMMA AttemptLives ==
    ASSUME Inv, RetryAnswered \/ RetryRecorded \/ RetryRaises \/ RetryDies, NEW n \in Notices
    PROVE  Lives(n)
<1>0. UNCHANGED <<dispatch, first, job>>
  BY DEF RetryAnswered, RetryRecorded, RetryRaises, RetryDies
<1>1. /\ retry \in Retry /\ arrived \in [Notices -> Nat] /\ unnoticed \in [Notices -> Nat]
      /\ retry.notice \in Notices
  BY Working DEF Inv, TypeOK, Loop, RetryAnswered, RetryRecorded, RetryRaises, RetryDies, Underway
<1>2. Status(n)' = Status(n)
  BY <1>0 DEF Status
<1>3. CASE n # retry.notice
  <2>1. arrived'[n] = arrived[n] /\ unnoticed'[n] = unnoticed[n]
    BY <1>1, <1>3 DEF RetryAnswered, RetryRecorded, RetryRaises, RetryDies, Once, history
  <2>2. retry'.notice # n
    BY <1>1, <1>3, NoneIsNoNotice
    DEF RetryAnswered, RetryRecorded, RetryRaises, RetryDies, Idle, Dead, Retry
  <2>. QED
    BY <1>0, <1>3, <2>1, <2>2, Untouched
<1>4. CASE n = retry.notice
  <2>1. Status(n) = "sending" /\ first[n] = "handed"
    BY <1>1, <1>4, Working
  <2>2. Phase(n) = JobPhase(n) /\ Phase(n)' = JobPhase(n)'
    BY <1>0, <2>1 DEF Phase, Underway
  <2>3. CASE RetryAnswered
    <3>0. Phase(n) = "sending" /\ retry'.notice = n
      BY <1>1, <1>4, <2>1, <2>2, <2>3 DEF RetryAnswered, JobPhase, Replayable, Retry
    <3>1. CASE retry'.stage = "accepted"
      <4>1. Phase(n)' = "accepted"
        BY <1>2, <2>1, <2>2, <3>0, <3>1 DEF JobPhase, Replayable
      <4>2. arrived'[n] = arrived[n] + 1 /\ unnoticed'[n] = unnoticed[n]
        BY <1>1, <1>4, <2>3, <3>1 DEF RetryAnswered, Once, Retry
      <4>3. Promise!Accept(n)
        BY <1>2, <3>0, <4>1, <4>2, Mapped DEF Promise!Accept
      <4>. QED
        BY <4>3 DEF Lives, Promise!Move
    <3>2. CASE retry'.stage = "refused"
      <4>1. Phase(n)' = "refused"
        BY <1>2, <2>1, <2>2, <3>0, <3>2 DEF JobPhase, Replayable
      <4>2. \/ arrived'[n] = arrived[n] /\ unnoticed'[n] = unnoticed[n]
            \/ arrived'[n] = arrived[n] + 1 /\ unnoticed'[n] = unnoticed[n] + 1
        BY <1>1, <1>4, <2>3, <3>2 DEF RetryAnswered, Once, Retry
      <4>3. Promise!Refuse(n)
        BY <1>2, <3>0, <4>1, <4>2, Mapped DEF Promise!Refuse, Promise!Secret
      <4>. QED
        BY <4>3 DEF Lives, Promise!Move
    <3>. QED
      BY <1>1, <2>3, <3>1, <3>2 DEF RetryAnswered, Retry
  <2>4. CASE RetryRecorded
    <3>1. arrived'[n] = arrived[n] /\ unnoticed'[n] = unnoticed[n]
      BY <2>4 DEF RetryRecorded, history
    <3>2. Phase(n)' = Phase(n)
      BY <1>1, <1>2, <1>4, <2>1, <2>2, <2>4 DEF RetryRecorded, JobPhase, Replayable, Retry
    <3>. QED
      BY <1>2, <3>1, <3>2, Resting DEF Lives
  <2>5. CASE RetryRaises \/ RetryDies
    <3>1. retry'.notice # n
      BY <1>4, <1>1, <2>5, NoneIsNoNotice DEF RetryRaises, RetryDies, Idle, Dead
    <3>2. Phase(n)' = "owed"
      BY <1>2, <2>1, <2>2, <3>1 DEF JobPhase, Replayable
    <3>3. /\ Phase(n) \in {"sending", "accepted", "refused"}
          /\ Phase(n) = "accepted" <=> retry.stage \in {"accepted", "sent"}
          /\ Phase(n) = "sending" <=> retry.stage = "sending"
      BY <1>1, <1>4, <2>1, <2>2, <2>5 DEF RetryRaises, RetryDies, JobPhase, Replayable, Retry
    <3>4. \/ Phase(n) # "accepted" /\ arrived'[n] = arrived[n] /\ unnoticed'[n] = unnoticed[n]
          \/ /\ Phase(n) = "sending"
             /\ arrived'[n] = arrived[n] + 1 /\ unnoticed'[n] = unnoticed[n] + 1
          \/ /\ Phase(n) = "accepted"
             /\ arrived'[n] = arrived[n] /\ unnoticed'[n] = unnoticed[n] + 1
      BY <1>1, <1>4, <2>5, <3>3 DEF RetryRaises, RetryDies, Once
    <3>5. Promise!Break(n)
      BY <1>2, <2>1, <3>2, <3>3, <3>4, Mapped DEF Promise!Break, Promise!Attempt, Promise!Secret
    <3>. QED
      BY <3>5 DEF Lives, Promise!Move
  <2>. QED
    BY <2>3, <2>4, <2>5
<1>. QED
  BY <1>3, <1>4

\* The job of an attempt is finished: known, owed again or given up.
LEMMA FinishLives ==
    ASSUME Inv, Finish, NEW n \in Notices
    PROVE  Lives(n)
<1>0. UNCHANGED <<dispatch, first, arrived, unnoticed>> /\ retry' = Idle
  BY DEF Finish, history
<1>1. retry \in Retry /\ retry.notice \in Notices /\ job \in [Notices -> Job]
  BY Working DEF Inv, TypeOK, Loop, Finish
<1>2. retry'.notice # n
  BY <1>0, NoneIsNoNotice DEF Idle
<1>3. CASE n # retry.notice
  <2>1. job'[n] = job[n]
    BY <1>1, <1>3 DEF Finish
  <2>. QED
    BY <1>0, <1>2, <1>3, <2>1, Untouched
<1>4. CASE n = retry.notice
  <2>1. Status(n) = "sending" /\ first[n] = "handed"
    BY <1>1, <1>4, Working
  <2>2. Phase(n) = JobPhase(n) /\ Phase(n)' = JobPhase(n)'
    BY <1>0, <2>1 DEF Phase, Underway
  <2>3. Status(n)' = IF retry.stage = "sent" THEN "sent"
                     ELSE IF job[n].attempts >= MaxAttempts THEN "failed" ELSE "queued"
    BY <1>1, <1>4 DEF Finish, Status, Job
  <2>4. CASE retry.stage = "sent"
    <3>1. Phase(n) = "accepted" /\ Phase(n)' = "known"
      BY <1>2, <1>4, <2>1, <2>2, <2>3, <2>4 DEF JobPhase, Replayable
    <3>2. Promise!Know(n)
      BY <1>0, <2>1, <2>3, <2>4, <3>1, Mapped DEF Promise!Know
    <3>. QED
      BY <3>2 DEF Lives, Promise!Move
  <2>5. CASE retry.stage = "failed" /\ Status(n)' = "failed"
    <3>1. Phase(n) = "refused" /\ Phase(n)' = "given up"
      BY <1>2, <1>4, <2>1, <2>2, <2>5 DEF JobPhase, Replayable
    <3>2. Promise!GiveUp(n)
      BY <1>0, <2>1, <2>5, <3>1, Mapped DEF Promise!GiveUp
    <3>. QED
      BY <3>2 DEF Lives, Promise!Move
  <2>6. CASE retry.stage = "failed" /\ Status(n)' = "queued"
    <3>1. Phase(n) = "refused" /\ Phase(n)' = "owed"
      BY <1>2, <1>4, <2>1, <2>2, <2>6 DEF JobPhase, Replayable
    <3>2. Promise!Keep(n)
      BY <1>0, <2>6, <3>1, Mapped DEF Promise!Keep
    <3>. QED
      BY <3>2 DEF Lives, Promise!Move
  <2>. QED
    BY <2>3, <2>4, <2>5, <2>6 DEF Finish
<1>. QED
  BY <1>3, <1>4

\* A crash ends every attempt: those of kept messages are owed again.
LEMMA RestartLives ==
    ASSUME Inv, ApiRestart, NEW n \in Notices
    PROVE  Lives(n)
<1>. USE BatchAssumption
<1>0. /\ retry' = Idle /\ arrived' = arrived
      /\ unnoticed'[n] = IF n \in Unrecorded THEN unnoticed[n] + 1 ELSE unnoticed[n]
      /\ first'[n] = IF first[n] \in Underway THEN "gone" ELSE first[n]
      /\ dispatch'[BatchOf[n]] = IF dispatch[BatchOf[n]] \in {"sending", "handing"}
                                 THEN "aborted" ELSE dispatch[BatchOf[n]]
      /\ job'[n] = IF n \in Held
                   THEN [job[n] EXCEPT !.status = "queued", !.due = TRUE, !.old = FALSE]
                   ELSE job[n]
  BY DEF ApiRestart, TakenBack
<1>1. /\ first[n] \in Stages /\ retry \in Retry /\ job[n] \in Job /\ Handing(n)
      /\ dispatch[BatchOf[n]] \in {"idle", "sending", "handing", "done", "aborted"}
  BY DEF Inv, TypeOK, Handings
<1>2. retry'.notice # n
  BY <1>0, NoneIsNoNotice DEF Idle
<1>3. Status(n)' = IF Status(n) = "sending" THEN "queued" ELSE Status(n)
  BY <1>0, <1>1, Requeued DEF Held, Status
<1>4. CASE first[n] \in Underway
  <2>1. Status(n) = "none" /\ retry.notice # n
    BY <1>4, Working DEF Underway
  <2>2. Phase(n) = first[n] /\ Phase(n)' = "lost"
    BY <1>0, <1>4 DEF Phase, Underway
  <2>3. n \in Unrecorded <=> first[n] = "accepted"
    BY <2>1 DEF Unrecorded
  <2>4. Promise!Break(n)
    BY <1>0, <1>3, <1>4, <2>1, <2>2, <2>3, Mapped DEF Promise!Break, Promise!Attempt, Underway
  <2>. QED
    BY <2>4 DEF Lives, Promise!Move
<1>5. CASE first[n] = "failed"
  <2>1. Status(n) = "none" /\ retry.notice # n /\ n \notin Unrecorded
    BY <1>5, Working DEF Unrecorded
  <2>2. Phase(n)' = "lost" /\ Phase(n) \in {"lost", "refused"}
    BY <1>0, <1>1, <1>5 DEF Phase, Handing, Underway
  <2>3. CASE Phase(n) = "lost"
    BY <1>0, <1>3, <2>1, <2>2, <2>3, Resting DEF Lives
  <2>4. CASE Phase(n) = "refused"
    <3>1. Promise!Break(n)
      BY <1>0, <1>3, <2>1, <2>2, <2>4, Mapped DEF Promise!Break, Promise!Attempt
    <3>. QED
      BY <3>1 DEF Lives, Promise!Move
  <2>. QED
    BY <2>2, <2>3, <2>4
<1>6. CASE first[n] = "handed"
  <2>1. Phase(n) = JobPhase(n) /\ Phase(n)' = JobPhase(n)'
    BY <1>0, <1>6 DEF Phase, Underway
  <2>2. CASE retry.notice = n
    <3>1. Status(n) = "sending" /\ retry.stage \in {"sent", "failed"} \cup Underway
      BY <2>2, Working
    <3>2. Phase(n)' = "owed"
      BY <1>2, <1>3, <2>1, <3>1 DEF JobPhase, Replayable
    <3>3. /\ Phase(n) \in {"sending", "accepted", "refused"}
          /\ Phase(n) = "accepted" <=> retry.stage \in {"accepted", "sent"}
      BY <2>1, <2>2, <3>1 DEF JobPhase, Replayable, Underway
    <3>4. n \in Unrecorded <=> Phase(n) = "accepted"
      BY <1>6, <2>2, <3>3 DEF Unrecorded
    <3>5. Promise!Break(n)
      BY <1>0, <1>3, <3>1, <3>2, <3>3, <3>4, Mapped DEF Promise!Break, Promise!Attempt
    <3>. QED
      BY <3>5 DEF Lives, Promise!Move
  <2>3. CASE retry.notice # n
    <3>1. n \notin Unrecorded
      BY <1>6, <2>3 DEF Unrecorded
    <3>2. Phase(n)' = Phase(n)
      BY <1>2, <1>3, <2>1, <2>3 DEF JobPhase, Replayable
    <3>. QED
      BY <1>0, <1>3, <3>1, <3>2, Resting DEF Lives
  <2>. QED
    BY <2>2, <2>3
<1>7. CASE first[n] \in {"idle", "sent", "raised", "gone"}
  <2>1. Status(n) = "none" /\ retry.notice # n /\ n \notin Unrecorded
    BY <1>7, Working DEF Unrecorded
  <2>2. Phase(n)' = Phase(n)
    BY <1>0, <1>7 DEF Phase, Underway
  <2>. QED
    BY <1>0, <1>3, <2>1, <2>2, Resting DEF Lives
<1>. QED
  BY <1>1, <1>4, <1>5, <1>6, <1>7 DEF Stages

\* An administrator asks again for what was given up, or leaves it at that.
LEMMA ManualLives ==
    ASSUME Inv, ManualStep, NEW n \in Notices
    PROVE  Lives(n)
<1>0. UNCHANGED <<dispatch, first, retry, arrived, unnoticed>>
  BY DEF ManualStep, ListFailed, ReplayListed, Replay, Dismiss, Requeue, history
<1>1. job \in [Notices -> Job]
  BY DEF Inv, TypeOK
<1>2. \/ job'[n] = job[n]
      \/ Status(n) \in Replayable /\ Status(n)' = "queued"
      \/ Status(n) = "failed" /\ Status(n)' = "dismissed"
  <2>1. ASSUME NEW m \in Notices, Dismiss(m), job'[n] # job[n]
        PROVE  Status(n) = "failed" /\ Status(n)' = "dismissed"
    BY <1>1, <2>1 DEF Dismiss, Status, Job
  <2>2. ASSUME NEW given \in SUBSET Notices, Requeue(given, Replayable), job'[n] # job[n]
        PROVE  Status(n) \in Replayable /\ Status(n)' = "queued"
    BY <2>2 DEF Requeue, Status
  <2>3. ASSUME NEW m \in Notices, Replay(m), job'[n] # job[n]
        PROVE  Status(n) \in Replayable /\ Status(n)' = "queued"
    BY <2>2, <2>3 DEF Replay
  <2>4. ASSUME ReplayListed, job'[n] # job[n]
        PROVE  Status(n) \in Replayable /\ Status(n)' = "queued"
    BY <2>2, <2>4 DEF ReplayListed, Inv, TypeOK
  <2>. QED
    BY <2>1, <2>3, <2>4 DEF ManualStep, ListFailed
<1>3. CASE job'[n] = job[n]
  BY <1>0, <1>3, Untouched
<1>4. CASE Status(n) \in Replayable /\ Status(n)' \in {"queued", "dismissed"}
  <2>1. first[n] = "handed" /\ retry.notice # n /\ retry'.notice # n
    BY <1>0, <1>4, Working DEF Replayable
  <2>2. Phase(n) = "given up"
    BY <1>4, <2>1 DEF Phase, JobPhase, Underway, Replayable
  <2>3. CASE Status(n)' = "queued"
    <3>1. Phase(n)' = "owed"
      BY <1>0, <2>1, <2>3 DEF Phase, JobPhase, Underway, Replayable
    <3>2. Promise!AskAgain(n)
      BY <1>0, <1>4, <2>2, <2>3, <3>1, Mapped DEF Promise!AskAgain, Replayable
    <3>. QED
      BY <3>2 DEF Lives, Promise!Move
  <2>4. CASE Status(n)' = "dismissed"
    <3>1. Phase(n)' = "given up"
      BY <1>0, <2>1, <2>4 DEF Phase, JobPhase, Underway, Replayable
    <3>. QED
      BY <1>0, <1>4, <2>2, <2>4, <3>1, Resting DEF Lives, Replayable
  <2>. QED
    BY <1>4, <2>3, <2>4
<1>. QED
  BY <1>2, <1>3, <1>4 DEF Replayable

\* The mapped state is within the types of the promise.
LEMMA PromiseTyped == Inv => Promise!TypeOK
BY PhaseIs DEF Promise!TypeOK, Inv, TypeOK

\* Every step lets every message live as the promise says.
LEMMA PromiseStep == Inv /\ Inv' /\ [Next]_vars => Promise!Next
<1>. SUFFICES ASSUME Inv, Inv', [Next]_vars PROVE Promise!Next
  OBVIOUS
<1>1. Promise!TypeOK'
  BY PromiseTyped, PTL
<1>2. ASSUME NEW n \in Notices PROVE Lives(n)
  <2>1. CASE UNCHANGED vars
    BY <2>1, Untouched DEF vars, history
  <2>. QED
    BY <2>1, DispatchLives, FirstLives, HandOverLives, TimeLives, ClaimLives, AttemptLives,
       FinishLives, ManualLives, RestartLives DEF Next, RetryStep
<1>. QED
  BY <1>1, <1>2 DEF Promise!Next, Lives

\* NotificationDelivery keeps the promise for every set of messages and batches,
\* however many calls fail, crash or are replayed.
THEOREM Refinement == Spec => ImplementsDeliveryPromise
<1>1. Init => Promise!Init
  <2>. SUFFICES ASSUME Init PROVE Promise!Init
    OBVIOUS
  <2>1. \A n \in Notices : Phase(n) = "new" /\ Status(n) = "none"
    BY DEF Init, Phase, Status, NoJob, Underway
  <2>. QED
    BY <2>1 DEF Init, Promise!Init
<1>2. Inv /\ Inv' /\ [Next]_vars => [Promise!Next]_(Promise!vars)
  BY PromiseStep
<1>. QED
  BY <1>1, <1>2, Invariance, PTL DEF Spec, ImplementsDeliveryPromise, Promise!Spec
\* What the promise says of a message once it is known: it is the provider's for good,
\* and nobody sends it again; and one that is kept is not lost.
KnownOrKept ==
    [][\A n \in Notices :
          /\ Phase(n) = "known" => Phase(n)' = "known" /\ arrived'[n] = arrived[n]
          /\ Status(n) # "none" => (Status(n) # "none")' /\ Phase(n)' # "lost"]_(Promise!vars)

\* What has arrived and is not known, or about to be, went unnoticed; lost is not kept.
Ledger ==
    /\ Promise!TypeOK
    /\ \A n \in Notices :
          /\ arrived[n] = unnoticed[n] + (IF Phase(n) \in {"accepted", "known"} THEN 1 ELSE 0)
          /\ Status(n) # "none" => Phase(n) # "lost"

\* DeliveryPromise alone keeps the ledger.
LEMMA LedgerStep ==
    ASSUME Ledger, Promise!Next
    PROVE  /\ Ledger'
           /\ \A n \in Notices :
                /\ Phase(n) = "known" => Phase(n)' = "known" /\ arrived'[n] = arrived[n]
                /\ Status(n) # "none" => (Status(n) # "none")' /\ Phase(n)' # "lost"
<1>1. Promise!TypeOK'
  BY DEF Promise!Next
<1>2. ASSUME NEW n \in Notices
      PROVE  /\ arrived'[n] = unnoticed'[n]
                              + (IF Phase(n)' \in {"accepted", "known"} THEN 1 ELSE 0)
             /\ (Status(n) # "none")' => Phase(n)' # "lost"
             /\ Phase(n) = "known" => Phase(n)' = "known" /\ arrived'[n] = arrived[n]
             /\ Status(n) # "none" => (Status(n) # "none")' /\ Phase(n)' # "lost"
  <2>0. /\ arrived[n] = unnoticed[n] + (IF Phase(n) \in {"accepted", "known"} THEN 1 ELSE 0)
        /\ Status(n) # "none" => Phase(n) # "lost"
        /\ arrived[n] \in Nat /\ unnoticed[n] \in Nat
        /\ arrived'[n] \in Nat /\ unnoticed'[n] \in Nat
    BY <1>1 DEF Ledger, Promise!TypeOK
  <2>. USE DEF Promise!Becomes, Promise!Same, Promise!Quiet
  <2>1. CASE Promise!Send(n)
    BY <2>0, <2>1 DEF Promise!Send
  <2>2. CASE Promise!Know(n)
    BY <2>0, <2>2 DEF Promise!Know
  <2>3. CASE Promise!GiveUp(n) \/ Promise!AskAgain(n)
    BY <2>0, <2>3 DEF Promise!GiveUp, Promise!AskAgain
  <2>4. CASE Promise!Accept(n) \/ Promise!Refuse(n)
    BY <2>0, <2>4 DEF Promise!Accept, Promise!Refuse, Promise!Secret
  <2>5. CASE Promise!Keep(n)
    BY <2>0, <2>5 DEF Promise!Keep
  <2>6. CASE Promise!Break(n)
    <3>1. /\ Phase(n) \in {"sending", "accepted", "refused"}
          /\ Phase(n)' \in IF Status(n) # "none" THEN {"owed"} ELSE {"lost"}
          /\ (Status(n) # "none")' <=> Status(n) # "none"
      BY <2>6 DEF Promise!Break, Promise!Attempt
    <3>2. \/ Phase(n) # "accepted" /\ arrived'[n] = arrived[n] /\ unnoticed'[n] = unnoticed[n]
          \/ /\ Phase(n) = "sending"
             /\ arrived'[n] = arrived[n] + 1 /\ unnoticed'[n] = unnoticed[n] + 1
          \/ /\ Phase(n) = "accepted"
             /\ arrived'[n] = arrived[n] /\ unnoticed'[n] = unnoticed[n] + 1
      BY <2>6 DEF Promise!Break, Promise!Secret
    <3>. QED
      BY <2>0, <3>1, <3>2
  <2>7. CASE Promise!Rest(n)
    BY <2>0, <2>7 DEF Promise!Rest
  <2>. QED
    BY <2>1, <2>2, <2>3, <2>4, <2>5, <2>6, <2>7 DEF Promise!Next, Promise!Move
<1>. QED
  BY <1>1, <1>2 DEF Ledger

\* The promise is strong enough: whatever keeps it sends no message again that is known
\* to be sent, loses none that it has kept and explains every duplicate.
THEOREM PromiseSays == Promise!Spec => []DuplicatesExplained /\ KnownOrKept
<1>1. Promise!Init => Ledger
  <2>. SUFFICES ASSUME Promise!Init PROVE Ledger
    OBVIOUS
  <2>1. \A n \in Notices : /\ Phase(n) = "new" /\ Status(n) = "none"
                           /\ arrived[n] = 0 /\ unnoticed[n] = 0
    <3>1. ASSUME NEW n \in Notices
          PROVE  /\ [k \in Notices |-> Phase(k)][n] = "new"
                 /\ ~[k \in Notices |-> Status(k) # "none"][n]
                 /\ arrived[n] = 0 /\ unnoticed[n] = 0
      BY DEF Promise!Init
    <3>. QED
      BY <3>1
  <2>2. Promise!TypeOK
    BY <2>1 DEF Promise!Init, Promise!TypeOK, Promise!Phases
  <2>. QED
    BY <2>1, <2>2 DEF Ledger
<1>2. Ledger /\ [Promise!Next]_(Promise!vars) => Ledger'
  <2>1. CASE UNCHANGED Promise!vars
    BY <2>1 DEF Ledger, Promise!TypeOK, Promise!vars
  <2>. QED
    BY <2>1, LedgerStep
<1>3. Ledger => DuplicatesExplained
  BY DEF Ledger, Promise!TypeOK, DuplicatesExplained
<1>4. Ledger /\ [Promise!Next]_(Promise!vars)
        => [\A n \in Notices :
              /\ Phase(n) = "known" => Phase(n)' = "known" /\ arrived'[n] = arrived[n]
              /\ Status(n) # "none" => (Status(n) # "none")' /\ Phase(n)' # "lost"]_(Promise!vars)
  BY LedgerStep
<1>. QED
  BY <1>1, <1>2, <1>3, <1>4, PTL DEF Promise!Spec, KnownOrKept
=============================================================================
