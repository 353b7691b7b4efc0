------------------------ MODULE AlertLifecycleProofs ------------------------
(***************************************************************************)
(* Theorems about AlertLifecycle for every set of rules and hosts and any   *)
(* number of cycles whose threads overlap, of alerts, samples, failures and *)
(* restarts.  Inv says what an evaluation that has read the alerts may rely *)
(* on until it commits and what it returns (Evaluations), what the lock of  *)
(* the cycle protects (Sending), what has been told of an alert (Notices),  *)
(* and that without a fault evaluations belong to the cycle under way and   *)
(* meet nobody else's alerts (Faultless).                                   *)
(***************************************************************************)
EXTENDS AlertLifecycle, TLAPS

Host(e) == e[2]
Rule(e) == e[1]

\* What an evaluation will end has begun; what it has returned has happened.
Evaluated(p) ==
    /\ eval[p].stage \in {"done", "raised"} => cycle = p[1]
    /\ eval[p].stage # "selected" => eval[p].ends = {}
    /\ eval[p].stage # "done" => eval[p].notices = {}
    /\ \A e \in eval[p].ends : Host(e) = p[2] /\ event[e] # "none"
    /\ \A e \in Events :
          /\ <<e, "firing">> \in eval[p].notices =>
                Host(e) = p[2] /\ event[e] # "none" /\ <<e, "resolved">> \notin eval[p].notices
          /\ <<e, "resolved">> \in eval[p].notices => Host(e) = p[2] /\ event[e] = "resolved"

Evaluations == \A p \in Threads : Evaluated(p)

\* While notices are sent there are no others.
Sending == outbox # {} => cycle = "dispatching"

Noticed(e) ==
    /\ <<e, "firing">> \in told \cup outbox \cup stray => event[e] # "none"
    /\ <<e, "resolved">> \in told \cup outbox \cup stray => event[e] = "resolved"
    /\ <<e, "firing">> \in outbox => <<e, "resolved">> \notin told \cup outbox \cup stray
    /\ \A p \in Threads : <<e, "firing">> \in eval[p].notices =>
                              <<e, "resolved">> \notin told \cup outbox \cup stray

Notices == \A e \in Events : Noticed(e)

Alone(p) ==
    /\ eval[p].stage # "none" => cycle = p[1] /\ eval[p].stage # "raised"
    /\ eval[p].stage = "selected" => \A r \in eval[p].fires : ActiveOf(r, p[2]) = {}

Faultless == faults = 0 => \A p \in Threads : Alone(p)

Inv ==
    /\ TypeOK
    /\ OneActiveAlert
    /\ Evaluations
    /\ Sending
    /\ Notices
    /\ Faultless
    /\ EveryAlertTold

\* What a step may do to an alert, seen from the alert.
Goes(e) ==
    \/ event'[e] = event[e]
    \/ event[e] = "none" /\ event'[e] = "firing"
    \/ event[e] = "firing" /\ event'[e] = "acknowledged"
    \/ event[e] \in Active /\ event'[e] = "resolved"

\* A step writes one evaluation and no other.
Rewrites(c, h) ==
    /\ eval' \in [Threads -> Evaluation]
    /\ \A p \in Threads : p # <<c, h>> => eval'[p] = eval[p]

-----------------------------------------------------------------------------
\* The rule and the host of an alert.
LEMMA EventParts == \A e \in Events : Rule(e) \in Rules /\ Host(e) \in Hosts
BY DEF Events, Rule, Host

\* A thread belongs to a cycle and a host.
LEMMA ThreadParts ==
    /\ \A p \in Threads : p[1] \in Cycles /\ p[2] \in Hosts /\ p = <<p[1], p[2]>>
    /\ \A c \in Cycles, h \in Hosts : <<c, h>> \in Threads
BY DEF Threads

\* What an evaluation is made of.
LEMMA EvalParts ==
    ASSUME TypeOK, NEW p \in Threads
    PROVE  /\ eval[p] \in Evaluation
           /\ eval[p].stage \in Stages
           /\ eval[p].rules \subseteq Rules /\ eval[p].bad \subseteq Rules
           /\ eval[p].fires \subseteq Rules /\ eval[p].ends \subseteq Events
           /\ eval[p].notices \subseteq Events \X Kinds
BY DEF TypeOK, Evaluation

\* An evaluation begins with nothing.
LEMMA Fields ==
    /\ NoEvaluation \in Evaluation
    /\ NoEvaluation.stage = "none" /\ NoEvaluation.ends = {} /\ NoEvaluation.notices = {}
BY DEF NoEvaluation, Evaluation, Stages

\* A thread that has just been started.
LEMMA QueuedFields ==
    ASSUME NEW row, row = [NoEvaluation EXCEPT !.stage = "queued"]
    PROVE  /\ row \in Evaluation
           /\ row.stage = "queued" /\ row.ends = {} /\ row.notices = {}
BY DEF NoEvaluation, Evaluation, Stages

\* One row of the table of evaluations is written.
LEMMA Put ==
    ASSUME TypeOK, NEW c \in Cycles, NEW h \in Hosts, NEW row \in Evaluation,
           eval' = [eval EXCEPT ![<<c, h>>] = row]
    PROVE  Rewrites(c, h) /\ eval'[<<c, h>>] = row
<1>1. eval \in [Threads -> Evaluation] /\ <<c, h>> \in Threads
  BY ThreadParts DEF TypeOK
<1>. QED
  BY <1>1 DEF Rewrites

\* The first alert of a rule and host that there has not been yet.
LEMMA FreshUnused ==
    ASSUME NEW r \in Rules, NEW h \in Hosts, Unused(r, h) # {}
    PROVE  /\ Fresh(r, h) \in Events /\ Rule(Fresh(r, h)) = r /\ Host(Fresh(r, h)) = h
           /\ event[Fresh(r, h)] = "none"
<1>1. \E e \in Of(r, h) : event[e] = "none"
  BY DEF Unused
<1>2. Fresh(r, h) \in Of(r, h) /\ event[Fresh(r, h)] = "none"
  BY <1>1 DEF Fresh
<1>. QED
  BY <1>2 DEF Of, Rule, Host

\* What an evaluation inserts is new, of its host, and of rules that it fires.
LEMMA BegunNew ==
    ASSUME TypeOK, NEW c \in Cycles, NEW h \in Hosts
    PROVE  /\ Begun(c, h) \subseteq Events
           /\ \A e \in Begun(c, h) : /\ Host(e) = h /\ event[e] = "none"
                                     /\ Rule(e) \in eval[<<c, h>>].fires
                                     /\ e = Fresh(Rule(e), h)
<1>1. eval[<<c, h>>].fires \subseteq Rules
  BY EvalParts, ThreadParts
<1>. QED
  BY <1>1, FreshUnused DEF Begun

\* A run of samples is counted up to its limit.
LEMMA SeenRange ==
    ASSUME TypeOK, NEW c \in Cycles, NEW h \in Hosts, NEW r \in Rules
    PROVE  Seen(c, h, r) \in 0..Consecutive
<1>1. streak[<<r, h>>] \in 0..Consecutive /\ newer[<<c, h>>] \in 0..Consecutive
  BY ThreadParts DEF TypeOK
<1>. QED
  BY <1>1, LimitsAssumption DEF Seen, Capped

-----------------------------------------------------------------------------
\* The steps of an evaluation, seen from the evaluations.
LEMMA StartRow ==
    ASSUME TypeOK, NEW c \in Cycles, NEW h \in Hosts, EvalStart(c, h)
    PROVE  /\ Rewrites(c, h)
           /\ eval[<<c, h>>].stage = "queued" /\ eval'[<<c, h>>].stage = "started"
           /\ eval'[<<c, h>>].ends = {} /\ eval'[<<c, h>>].notices = {}
<1>. DEFINE read == {r \in Rules : enabled[r]}
<1>1. PICK bad \in SUBSET {r \in Rules : Of(r, h) # {}} :
         eval' = [eval EXCEPT ![<<c, h>>] = [NoEvaluation EXCEPT !.stage = "started",
                                                !.bad = bad, !.rules = read]]
  BY DEF EvalStart
<1>. DEFINE row == [NoEvaluation EXCEPT !.stage = "started", !.bad = bad, !.rules = read]
<1>2. read \in SUBSET Rules /\ bad \in SUBSET Rules
  OBVIOUS
<1>. HIDE DEF read
<1>3. /\ row \in Evaluation
      /\ row.stage = "started" /\ row.ends = {} /\ row.notices = {}
  BY <1>2 DEF NoEvaluation, Evaluation, Stages
<1>4. eval' = [eval EXCEPT ![<<c, h>>] = row] /\ eval[<<c, h>>].stage = "queued"
  BY <1>1 DEF EvalStart
<1>. HIDE DEF row
<1>5. Rewrites(c, h) /\ eval'[<<c, h>>] = row
  BY <1>3, <1>4, Put
<1>. QED
  BY <1>3, <1>4, <1>5

LEMMA JudgeRow ==
    ASSUME TypeOK, NEW c \in Cycles, NEW h \in Hosts, EvalJudge(c, h)
    PROVE  /\ Rewrites(c, h)
           /\ eval[<<c, h>>].stage = "started" /\ eval'[<<c, h>>].stage = "judged"
           /\ eval'[<<c, h>>].ends = eval[<<c, h>>].ends
           /\ eval'[<<c, h>>].notices = eval[<<c, h>>].notices
<1>. DEFINE old == eval[<<c, h>>]
            fires == {r \in old.rules : Seen(c, h, r) = Consecutive}
            row == [old EXCEPT !.stage = "judged", !.fires = fires]
<1>1. eval \in [Threads -> Evaluation] /\ <<c, h>> \in Threads /\ old \in Evaluation
  BY EvalParts, ThreadParts DEF TypeOK
<1>2. eval' = [eval EXCEPT ![<<c, h>>] = row] /\ old.stage = "started"
  BY <1>1 DEF EvalJudge
<1>3. fires \in SUBSET Rules
  BY <1>1, EvalParts
<1>. HIDE DEF old, fires
<1>4. /\ row \in Evaluation
      /\ row.stage = "judged" /\ row.ends = old.ends /\ row.notices = old.notices
  BY <1>1, <1>3 DEF Evaluation, Stages
<1>. HIDE DEF row
<1>5. Rewrites(c, h) /\ eval'[<<c, h>>] = row
  BY <1>2, <1>4, Put
<1>. QED
  BY <1>2, <1>4, <1>5 DEF old

LEMMA SelectRow ==
    ASSUME TypeOK, NEW c \in Cycles, NEW h \in Hosts, EvalSelect(c, h)
    PROVE  /\ Rewrites(c, h)
           /\ eval[<<c, h>>].stage = "judged" /\ eval'[<<c, h>>].stage = "selected"
           /\ eval'[<<c, h>>].notices = {}
           /\ \A r \in eval'[<<c, h>>].fires : ActiveOf(r, h) = {}
           /\ \A e \in eval'[<<c, h>>].ends : Host(e) = h /\ event[e] \in Active
<1>. DEFINE old == eval[<<c, h>>]
            fires == {r \in old.fires : ActiveOf(r, h) = {}}
            ends == {e \in Events : e[1] \in old.rules \ old.fires /\ e[2] = h
                                    /\ event[e] \in Active}
            bad == old.bad
            row == [NoEvaluation EXCEPT !.stage = "selected", !.bad = bad,
                                        !.fires = fires, !.ends = ends]
<1>1. eval' = [eval EXCEPT ![<<c, h>>] = row] /\ old.stage = "judged"
  BY DEF EvalSelect
<1>2. bad \in SUBSET Rules /\ fires \in SUBSET Rules /\ ends \in SUBSET Events
  BY EvalParts, ThreadParts
<1>3. /\ \A r \in fires : ActiveOf(r, h) = {}
      /\ \A e \in ends : Host(e) = h /\ event[e] \in Active
  BY DEF Host
<1>. HIDE DEF fires, ends, bad
<1>4. /\ row \in Evaluation /\ row.stage = "selected" /\ row.notices = {}
      /\ row.fires = fires /\ row.ends = ends
  BY <1>2 DEF NoEvaluation, Evaluation, Stages
<1>. HIDE DEF row
<1>5. Rewrites(c, h) /\ eval'[<<c, h>>] = row
  BY <1>1, <1>4, Put
<1>. QED
  BY <1>1, <1>3, <1>4, <1>5

\* The end of an evaluation: of the cycle under way, or of nobody's.
LEMMA ReturnRow ==
    ASSUME TypeOK, NEW c \in Cycles, NEW h \in Hosts, NEW stage \in {"done", "raised"},
           NEW notices \in SUBSET (Events \X Kinds), Returns(c, h, stage, notices)
    PROVE  /\ Rewrites(c, h)
           /\ eval'[<<c, h>>].stage = IF cycle = c THEN stage ELSE "none"
           /\ eval'[<<c, h>>].ends = {}
           /\ eval'[<<c, h>>].notices = IF cycle = c THEN notices ELSE {}
<1>. DEFINE full == [NoEvaluation EXCEPT !.stage = stage, !.notices = notices]
            row == IF cycle = c THEN full ELSE NoEvaluation
<1>1. eval' = [eval EXCEPT ![<<c, h>>] = row]
  BY DEF Returns
<1>2. full \in Evaluation /\ full.stage = stage /\ full.ends = {} /\ full.notices = notices
  BY DEF NoEvaluation, Evaluation, Stages
<1>. HIDE DEF full
<1>3. row \in Evaluation
  BY <1>2, Fields
<1>4. Rewrites(c, h) /\ eval'[<<c, h>>] = row
  BY <1>1, <1>3, Put
<1>. QED
  BY <1>2, <1>4, Fields

\* What a commit returns is about what it has written.
LEMMA CommitRow ==
    ASSUME TypeOK, NEW c \in Cycles, NEW h \in Hosts, EvalCommit(c, h)
    PROVE  /\ Rewrites(c, h)
           /\ eval[<<c, h>>].stage = "selected"
           /\ eval'[<<c, h>>].stage = IF cycle = c THEN "done" ELSE "none"
           /\ eval'[<<c, h>>].ends = {}
           /\ \A e \in Events :
                 /\ <<e, "firing">> \in eval'[<<c, h>>].notices <=>
                       cycle = c /\ e \in Begun(c, h)
                 /\ <<e, "resolved">> \in eval'[<<c, h>>].notices <=>
                       cycle = c /\ e \in eval[<<c, h>>].ends
<1>. DEFINE notices == (Begun(c, h) \X {"firing"}) \cup (eval[<<c, h>>].ends \X {"resolved"})
<1>1. Returns(c, h, "done", notices) /\ eval[<<c, h>>].stage = "selected"
  BY DEF EvalCommit, Persists
<1>2. notices \in SUBSET (Events \X Kinds)
  BY BegunNew, EvalParts, ThreadParts DEF Kinds
<1>3. \A e : /\ <<e, "firing">> \in notices <=> e \in Begun(c, h)
             /\ <<e, "resolved">> \in notices <=> e \in eval[<<c, h>>].ends
  OBVIOUS
<1>. HIDE DEF notices
<1>. QED
  BY <1>1, <1>2, <1>3, ReturnRow

LEMMA UndoneRow ==
    ASSUME TypeOK, NEW c \in Cycles, NEW h \in Hosts, Undone(c, h)
    PROVE  /\ Rewrites(c, h)
           /\ eval'[<<c, h>>].stage = IF cycle = c THEN "raised" ELSE "none"
           /\ eval'[<<c, h>>].ends = {} /\ eval'[<<c, h>>].notices = {}
BY ReturnRow DEF Undone

\* A step of an evaluation leaves the other evaluations alone.
LEMMA StepRow ==
    ASSUME TypeOK, NEW c \in Cycles, NEW h \in Hosts, EvalStep(c, h)
    PROVE  /\ Rewrites(c, h) /\ cycle' = cycle
           /\ eval[<<c, h>>].stage \in {"queued", "started", "judged", "selected"}
<1>1. CASE EvalStart(c, h) \/ EvalJudge(c, h) \/ EvalSelect(c, h) \/ EvalCommit(c, h)
  BY <1>1, StartRow, JudgeRow, SelectRow, CommitRow
     DEF EvalStart, EvalJudge, EvalSelect, EvalCommit, Persists
<1>2. CASE EvalCollides(c, h) \/ EvalRaises(c, h)
  BY <1>2, UndoneRow DEF EvalCollides, EvalRaises, Undone
<1>. QED
  BY <1>1, <1>2 DEF EvalStep, EvalProceeds

\* The variables that no step of an evaluation changes.
LEMMA StepFrame ==
    ASSUME NEW c \in Cycles, NEW h \in Hosts, EvalStep(c, h)
    PROVE  /\ UNCHANGED <<enabled, monitor, cycle, told, outbox, stray>>
           /\ EvalProceeds(c, h) => UNCHANGED faults
BY DEF EvalStep, EvalProceeds, EvalStart, EvalJudge, EvalSelect, EvalCommit, Persists,
       EvalCollides, EvalRaises, Undone

\* What a commit writes to the alerts.
LEMMA CommitEvents ==
    ASSUME TypeOK, NEW c \in Cycles, NEW h \in Hosts, Evaluated(<<c, h>>), EvalCommit(c, h)
    PROVE  /\ event' \in [Events -> Statuses]
           /\ Begun(c, h) \cap eval[<<c, h>>].ends = {}
           /\ \A e \in Begun(c, h) : event'[e] = "firing"
           /\ \A e \in eval[<<c, h>>].ends : event'[e] = "resolved"
           /\ \A e \in Events \ (Begun(c, h) \cup eval[<<c, h>>].ends) : event'[e] = event[e]
<1>. DEFINE begun == Begun(c, h)
            ended == eval[<<c, h>>].ends
<1>1. begun \subseteq Events /\ \A e \in begun : event[e] = "none"
  BY BegunNew
<1>2. ended \subseteq Events /\ \A e \in ended : event[e] # "none"
  BY EvalParts, ThreadParts DEF Evaluated
<1>3. event' = [e \in Events |-> CASE e \in begun -> "firing"
                                   [] e \in ended -> "resolved"
                                   [] OTHER       -> event[e]]
  BY DEF EvalCommit, Persists
<1>. HIDE DEF begun, ended
<1>4. /\ begun \cap ended = {}
      /\ \A e \in begun : event'[e] = "firing"
      /\ \A e \in ended : event'[e] = "resolved"
      /\ \A e \in Events \ (begun \cup ended) : event'[e] = event[e]
  BY <1>1, <1>2, <1>3
<1>5. \A e \in Events : event'[e] \in Statuses
  BY <1>4 DEF TypeOK, Statuses
<1>6. event' = [e \in Events |-> event'[e]]
  BY <1>3
<1>. QED
  BY <1>4, <1>5, <1>6 DEF begun, ended

-----------------------------------------------------------------------------
\* The initial state satisfies the inductive invariant.
LEMMA InitInv == LifecycleInit => Inv
<1>. SUFFICES ASSUME LifecycleInit PROVE Inv
  OBVIOUS
<1>. USE LimitsAssumption DEF LifecycleInit
<1>0. \A p \in Threads : eval[p] = NoEvaluation
  OBVIOUS
<1>1. TypeOK
  BY Fields DEF TypeOK, BoardInit, Statuses
<1>2. OneActiveAlert
  BY DEF OneActiveAlert, ActiveOf, Of, Active, BoardInit
<1>3. Evaluations
  BY <1>0, Fields DEF Evaluations, Evaluated
<1>4. Sending
  BY DEF Sending
<1>5. Notices
  BY <1>0, Fields DEF Notices, Noticed
<1>6. Faultless
  BY <1>0, Fields DEF Faultless, Alone
<1>7. EveryAlertTold
  BY DEF EveryAlertTold, BoardInit
<1>. QED
  BY <1>1, <1>2, <1>3, <1>4, <1>5, <1>6, <1>7 DEF Inv

\* Commits and administrators change alerts, nobody else does.
LEMMA EventSteps ==
    [LifecycleNext]_lifecycle =>
        event' = event \/ AdminStep \/ \E c \in Cycles, h \in Hosts : EvalCommit(c, h)
BY DEF LifecycleNext, LifecycleStep, lifecycle, Collect, EvalStep, EvalProceeds, EvalStart,
       EvalJudge, EvalSelect, EvalCollides, EvalRaises, Undone, GatherRaises, GatherReturns,
       DispatchReturns, DispatchRaises, Tell, StrayTells, LifecycleRestart

\* Every step moves an alert forward.
LEMMA GoesStep ==
    ASSUME TypeOK, Evaluations, [LifecycleNext]_lifecycle
    PROVE  event' \in [Events -> Statuses] /\ \A e \in Events : Goes(e)
<1>0. event \in [Events -> Statuses]
  BY DEF TypeOK
<1>1. CASE event' = event
  BY <1>0, <1>1 DEF Goes
<1>2. ASSUME NEW c \in Cycles, NEW h \in Hosts, EvalCommit(c, h)
      PROVE  event' \in [Events -> Statuses] /\ \A e \in Events : Goes(e)
  <2>1. Evaluated(<<c, h>>)
    BY ThreadParts DEF Evaluations
  <2>2. \A e \in Begun(c, h) : event[e] = "none"
    BY BegunNew
  <2>3. \A e \in eval[<<c, h>>].ends : event[e] # "none"
    BY <2>1 DEF Evaluated
  <2>. QED
    BY <1>0, <1>2, <2>1, <2>2, <2>3, CommitEvents DEF Goes, Active, Statuses
<1>3. ASSUME AdminStep
      PROVE  event' \in [Events -> Statuses] /\ \A e \in Events : Goes(e)
  BY <1>0, <1>3 DEF AdminStep, Acknowledge, Close, Enable, Disable, Goes, Active, Statuses
<1>. QED
  BY <1>1, <1>2, <1>3, EventSteps

\* Only a commit for its host begins an alert.
LEMMA BeginsByCommit ==
    ASSUME TypeOK, Evaluations, [LifecycleNext]_lifecycle, NEW e \in Events,
           event[e] = "none", event'[e] # "none"
    PROVE  \E c \in Cycles : EvalCommit(c, Host(e)) /\ e \in Begun(c, Host(e))
<1>1. event' # event
  OBVIOUS
<1>2. ~AdminStep
  BY DEF TypeOK, AdminStep, Acknowledge, Close, Enable, Disable, Active
<1>3. PICK c \in Cycles, h \in Hosts : EvalCommit(c, h)
  BY <1>1, <1>2, EventSteps
<1>4. Evaluated(<<c, h>>)
  BY ThreadParts DEF Evaluations
<1>5. e \notin eval[<<c, h>>].ends
  BY <1>4 DEF Evaluated
<1>6. e \in Begun(c, h)
  BY <1>3, <1>4, <1>5, CommitEvents
<1>7. Host(e) = h
  BY <1>6, BegunNew
<1>. QED
  BY <1>3, <1>6, <1>7

\* No step gives a rule a second active alert on a host: the index refuses it.
LEMMA AloneStep ==
    ASSUME TypeOK, Evaluations, OneActiveAlert, [LifecycleNext]_lifecycle
    PROVE  OneActiveAlert'
<1>. SUFFICES ASSUME NEW r \in Rules, NEW h \in Hosts, NEW d \in Events, NEW e \in Events,
                     Rule(d) = r, Host(d) = h, Rule(e) = r, Host(e) = h,
                     event'[d] \in Active, event'[e] \in Active
              PROVE  d = e
  BY DEF OneActiveAlert, ActiveOf, Of, Rule, Host
<1>1. Goes(d) /\ Goes(e)
  BY GoesStep
<1>2. CASE event[d] \in Active /\ event[e] \in Active
  BY <1>2 DEF OneActiveAlert, ActiveOf, Of, Rule, Host
<1>3. ASSUME NEW x \in {d, e}, event[x] = "none"
      PROVE  d = e
  <2>1. PICK c \in Cycles : EvalCommit(c, h) /\ x \in Begun(c, h)
    BY <1>1, <1>3, BeginsByCommit DEF Active
  <2>2. Rule(x) \in eval[<<c, h>>].fires /\ ActiveOf(r, h) = {}
    BY <1>3, <2>1, BegunNew DEF EvalCommit, Collision
  <2>3. event[d] \notin Active /\ event[e] \notin Active
    BY <2>2 DEF ActiveOf, Of, Rule, Host
  <2>4. Evaluated(<<c, h>>)
    BY ThreadParts DEF Evaluations
  <2>5. d \in Begun(c, h) /\ e \in Begun(c, h)
    BY <2>1, <2>3, <2>4, CommitEvents DEF Active
  <2>. QED
    BY <2>5, BegunNew
<1>. QED
  BY <1>1, <1>2, <1>3 DEF Goes, Active

\* No step writes a value outside the variables' types.
LEMMA TypeStep == Inv /\ [LifecycleNext]_lifecycle => TypeOK'
<1>. SUFFICES ASSUME Inv, [LifecycleNext]_lifecycle PROVE TypeOK'
  OBVIOUS
<1>0. TypeOK /\ Evaluations
  BY DEF Inv
<1>. USE <1>0, LimitsAssumption
<1>1. event' \in [Events -> Statuses]
  BY GoesStep
<1>2. ASSUME NEW c \in Cycles, NEW h \in Hosts, EvalStart(c, h) PROVE TypeOK'
  <2>1. order' \in [Hosts -> SUBSET (Cycles \X Cycles)]
    <3>. DEFINE more == {<<d, c>> : d \in {x \in Cycles : Running(x, h)}}
    <3>1. more \subseteq Cycles \X Cycles /\ order' = [order EXCEPT ![h] = @ \cup more]
      BY <1>2 DEF EvalStart
    <3>. HIDE DEF more
    <3>. QED
      BY <3>1 DEF TypeOK
  <2>. QED
    BY <1>1, <1>2, <2>1, StartRow DEF EvalStart, Rewrites, TypeOK
<1>3. ASSUME NEW c \in Cycles, NEW h \in Hosts, EvalJudge(c, h) PROVE TypeOK'
  BY <1>1, <1>3, JudgeRow DEF EvalJudge, samples, Rewrites, TypeOK
<1>4. ASSUME NEW c \in Cycles, NEW h \in Hosts, EvalSelect(c, h) PROVE TypeOK'
  BY <1>1, <1>4, SelectRow DEF EvalSelect, samples, Rewrites, TypeOK
<1>5. ASSUME NEW c \in Cycles, NEW h \in Hosts, NEW stage, NEW notices,
             Returns(c, h, stage, notices)
      PROVE  order' \in [Hosts -> SUBSET (Cycles \X Cycles)]
  BY <1>5 DEF Returns, TypeOK
<1>6. ASSUME NEW c \in Cycles, NEW h \in Hosts, EvalCommit(c, h) PROVE TypeOK'
  <2>1. streak' \in [Rules \X Hosts -> 0..Consecutive]
    <3>1. \A p \in Rules \X Hosts :
             streak[p] \in 0..Consecutive /\ Seen(c, h, p[1]) \in 0..Consecutive
      BY SeenRange DEF TypeOK
    <3>. QED
      BY <1>6, <3>1 DEF EvalCommit, Persists
  <2>2. newer' \in [Threads -> 0..Consecutive]
    <3>1. \A p \in Threads : newer[p] \in 0..Consecutive /\ Capped(newer[p] + 1) \in 0..Consecutive
      BY DEF TypeOK, Capped
    <3>. QED
      BY <1>6, <3>1 DEF EvalCommit, Persists
  <2>3. order' \in [Hosts -> SUBSET (Cycles \X Cycles)]
    BY <1>5, <1>6 DEF EvalCommit, Persists
  <2>4. eval' \in [Threads -> Evaluation]
    BY <1>6, CommitRow DEF Rewrites
  <2>5. UNCHANGED <<enabled, monitor, cycle, told, outbox, stray, faults>>
    BY <1>6 DEF EvalCommit, Persists
  <2>. QED
    BY <1>1, <2>1, <2>2, <2>3, <2>4, <2>5 DEF TypeOK
<1>7. ASSUME NEW c \in Cycles, NEW h \in Hosts, Undone(c, h), faults' \in 0..MaxFaults
      PROVE  TypeOK'
  <2>1. eval' \in [Threads -> Evaluation]
    BY <1>7, UndoneRow DEF Rewrites
  <2>2. newer' \in [Threads -> 0..Consecutive]
    <3>1. newer' = [newer EXCEPT ![<<c, h>>] = 0] /\ newer \in [Threads -> 0..Consecutive]
      BY <1>7 DEF Undone, TypeOK
    <3>2. \A q \in Threads : newer'[q] \in 0..Consecutive
      BY <3>1
    <3>3. newer' = [q \in Threads |-> newer'[q]]
      BY <3>1
    <3>. QED
      BY <3>2, <3>3
  <2>3. Returns(c, h, "raised", {})
    BY <1>7 DEF Undone
  <2>4. order' \in [Hosts -> SUBSET (Cycles \X Cycles)]
    BY <1>5, <2>3
  <2>5. UNCHANGED <<enabled, streak, monitor, cycle, told, outbox, stray>>
    BY <1>7 DEF Undone
  <2>. QED
    BY <1>1, <1>7, <2>1, <2>2, <2>4, <2>5 DEF TypeOK
<1>8. ASSUME NEW c \in Cycles, NEW h \in Hosts, EvalCollides(c, h) \/ EvalRaises(c, h)
      PROVE  TypeOK'
  BY <1>7, <1>8 DEF EvalCollides, EvalRaises, Fault, TypeOK
<1>9. CASE Collect
  <2>. DEFINE c == CHOOSE c \in Free : TRUE
  <2>1. c \in Cycles /\ cycle' = c
    BY <1>9 DEF Collect, Free
  <2>2. eval' = [p \in Threads |-> IF p[1] = c THEN [NoEvaluation EXCEPT !.stage = "queued"]
                                  ELSE eval[p]]
    BY <1>9 DEF Collect
  <2>. HIDE DEF c
  <2>3. eval' \in [Threads -> Evaluation]
    BY <2>2, QueuedFields DEF TypeOK
  <2>. QED
    BY <1>1, <1>9, <2>1, <2>3 DEF Collect, samples, TypeOK
<1>10. CASE GatherRaises
  BY <1>1, <1>10, Fields DEF GatherRaises, samples, TypeOK
<1>11. CASE GatherReturns
  <2>1. Intents \subseteq Events \X Kinds
    BY EvalParts DEF Intents
  <2>. QED
    BY <1>1, <1>11, <2>1, Fields DEF GatherReturns, samples, TypeOK
<1>12. CASE DispatchReturns \/ DispatchRaises
  BY <1>1, <1>12 DEF DispatchReturns, DispatchRaises, Fault, samples, TypeOK
<1>13. CASE LifecycleRestart
  BY <1>1, <1>13, Fields DEF LifecycleRestart, Fault, TypeOK
<1>14. CASE AdminStep
  BY <1>1, <1>14 DEF AdminStep, Acknowledge, Close, Enable, Disable, samples, TypeOK
<1>15. CASE UNCHANGED lifecycle
  BY <1>1, <1>15 DEF lifecycle, samples, TypeOK
<1>16. ASSUME NEW n \in Events \X Kinds, Tell(n) \/ StrayTells(n) PROVE TypeOK'
  BY <1>1, <1>16 DEF Tell, StrayTells, samples, TypeOK
<1>. QED
  BY <1>2, <1>3, <1>4, <1>6, <1>8, <1>9, <1>10, <1>11, <1>12, <1>13, <1>14, <1>15, <1>16
     DEF LifecycleNext, LifecycleStep, EvalStep, EvalProceeds

-----------------------------------------------------------------------------
\* What becomes of an evaluation in a step.
Ends(p) == eval'[p] \in {NoEvaluation, [NoEvaluation EXCEPT !.stage = "queued"]}

LEMMA RowSteps ==
    ASSUME TypeOK, [LifecycleNext]_lifecycle, NEW p \in Threads
    PROVE  \/ EvalStep(p[1], p[2])
           \/ eval'[p] = eval[p]
           \/ Ends(p)
<1>1. ASSUME NEW c \in Cycles, NEW h \in Hosts, EvalStep(c, h), p # <<c, h>>
      PROVE  eval'[p] = eval[p]
  BY <1>1, StepRow DEF Rewrites
<1>2. ASSUME \A c \in Cycles, h \in Hosts : ~EvalStep(c, h)
      PROVE  eval'[p] = eval[p] \/ Ends(p)
  BY <1>2 DEF LifecycleNext, LifecycleStep, Collect, GatherRaises, GatherReturns,
               DispatchReturns, DispatchRaises, Tell, StrayTells, LifecycleRestart, AdminStep,
               Acknowledge, Close, Enable, Disable, lifecycle, Ends
<1>. QED
  BY <1>1, <1>2, ThreadParts

\* The cycle changes only when nothing of it is left that says so.
LEMMA CycleSteps ==
    ASSUME TypeOK, [LifecycleNext]_lifecycle, cycle' # cycle, NEW p \in Threads,
           eval'[p].stage \in {"done", "raised"}
    PROVE  eval[p] = eval'[p] /\ (cycle = p[1] => FALSE)
<1>1. \A c \in Cycles, h \in Hosts : ~EvalStep(c, h)
  BY StepRow
<1>2. CASE Collect
  <2>. DEFINE row == [NoEvaluation EXCEPT !.stage = "queued"]
  <2>1. row.stage = "queued"
    BY QueuedFields
  <2>. HIDE DEF row
  <2>2. eval'[p] \in {row, eval[p]} /\ cycle = "idle"
    BY <1>2 DEF Collect, row
  <2>. QED
    BY <2>1, <2>2, ThreadParts, CyclesAssumption
<1>3. CASE GatherRaises \/ LifecycleRestart
  BY <1>3, Fields DEF GatherRaises, LifecycleRestart
<1>4. CASE GatherReturns
  BY <1>4, Fields DEF GatherReturns
<1>5. CASE DispatchReturns \/ DispatchRaises
  BY <1>5, ThreadParts, CyclesAssumption DEF DispatchReturns, DispatchRaises
<1>. QED
  BY <1>1, <1>2, <1>3, <1>4, <1>5
     DEF LifecycleNext, LifecycleStep, Tell, StrayTells, AdminStep, Acknowledge, Close,
         Enable, Disable, lifecycle

\* What an evaluation has read stays good until it commits, and what it has
\* returned stays true.
LEMMA EvaluationsStep == Inv /\ [LifecycleNext]_lifecycle => Evaluations'
<1>. SUFFICES ASSUME Inv, [LifecycleNext]_lifecycle, NEW p \in Threads PROVE Evaluated(p)'
  BY DEF Evaluations
<1>0. TypeOK /\ Evaluations /\ Evaluated(p)
  BY DEF Inv, Evaluations
<1>. USE <1>0
<1>1. \A e \in Events : Goes(e)
  BY GoesStep
<1>2. PICK c \in Cycles, h \in Hosts : p = <<c, h>>
  BY ThreadParts
<1>3. eval[p].ends \subseteq Events
  BY EvalParts
<1>4. CASE eval'[p] = eval[p]
  <2>1. eval'[p].stage \in {"done", "raised"} => cycle' = p[1]
    BY <1>4, CycleSteps DEF Evaluated
  <2>2. \A e \in Events : /\ event[e] # "none" => event'[e] # "none"
                          /\ event[e] = "resolved" => event'[e] = "resolved"
    BY <1>1 DEF Goes, Active
  <2>. QED
    BY <1>3, <1>4, <2>1, <2>2 DEF Evaluated
<1>5. CASE Ends(p)
  BY <1>5, Fields, QueuedFields DEF Ends, Evaluated
<1>6. CASE EvalCommit(c, h)
  <2>. DEFINE begun == Begun(c, h)
              ended == eval[<<c, h>>].ends
  <2>1. cycle' = cycle /\ p = <<c, h>> /\ p[1] = c /\ p[2] = h
    BY <1>2, <1>6 DEF EvalCommit, Persists
  <2>2. begun \subseteq Events /\ \A e \in begun : Host(e) = h
    BY BegunNew
  <2>3. ended \subseteq Events /\ \A e \in ended : Host(e) = h
    BY <1>2, <1>3 DEF Evaluated
  <2>4. /\ begun \cap ended = {}
        /\ \A e \in begun : e \notin ended /\ event'[e] = "firing"
        /\ \A e \in ended : event'[e] = "resolved"
    BY <1>2, <1>6, CommitEvents
  <2>5. eval'[p].stage = (IF cycle = c THEN "done" ELSE "none") /\ eval'[p].ends = {}
    BY <1>2, <1>6, CommitRow
  <2>. DEFINE new == eval'[p].notices
  <2>6. new \subseteq Events \X Kinds
    <3>1. eval'[p] \in Evaluation
      BY <1>2, <1>6, CommitRow, ThreadParts DEF Rewrites
    <3>. QED
      BY <3>1 DEF Evaluation
  <2>7. \A e \in Events : /\ <<e, "firing">> \in new => cycle = c /\ e \in begun
                          /\ <<e, "resolved">> \in new => cycle = c /\ e \in ended
    BY <1>2, <1>6, CommitRow
  <2>. HIDE DEF begun, ended, new
  <2>8. \A e \in Events :
           /\ <<e, "firing">> \in new => /\ Host(e) = p[2] /\ event'[e] # "none"
                                        /\ <<e, "resolved">> \notin new
           /\ <<e, "resolved">> \in new => Host(e) = p[2] /\ event'[e] = "resolved"
    <3>1. \A e \in Events :
             /\ e \in begun => Host(e) = p[2] /\ event'[e] # "none" /\ e \notin ended
             /\ e \in ended => Host(e) = p[2] /\ event'[e] = "resolved"
      BY <2>1, <2>2, <2>3, <2>4
    <3>. QED
      BY <2>7, <3>1, Zenon
  <2>9. ASSUME cycle # c PROVE new = {}
    <3>. SUFFICES ASSUME NEW n \in new PROVE FALSE
      OBVIOUS
    <3>1. PICK e \in Events : n = <<e, "firing">> \/ n = <<e, "resolved">>
      BY <2>6 DEF Kinds
    <3>2. <<e, "firing">> \notin new /\ <<e, "resolved">> \notin new
      BY <2>7, <2>9
    <3>. QED
      BY <3>1, <3>2
  <2>. QED
    BY <2>1, <2>5, <2>8, <2>9 DEF Evaluated, Host, new
<1>7. CASE EvalStart(c, h)
  BY <1>2, <1>7, StartRow DEF Evaluated
<1>8. CASE EvalJudge(c, h)
  <2>1. event' = event
    BY <1>8 DEF EvalJudge
  <2>. QED
    BY <1>2, <1>8, <2>1, JudgeRow DEF Evaluated
<1>9. CASE EvalSelect(c, h)
  <2>1. event' = event
    BY <1>9 DEF EvalSelect
  <2>. QED
    BY <1>2, <1>9, <2>1, SelectRow DEF Evaluated, Active
<1>10. CASE EvalCollides(c, h) \/ EvalRaises(c, h)
  <2>1. Undone(c, h) /\ cycle' = cycle
    BY <1>10 DEF EvalCollides, EvalRaises, Undone
  <2>. QED
    BY <1>2, <2>1, UndoneRow DEF Evaluated
<1>. QED
  BY <1>2, <1>4, <1>5, <1>6, <1>7, <1>8, <1>9, <1>10, RowSteps DEF EvalStep, EvalProceeds

\* The lock keeps evaluations and sending apart.
LEMMA SendingStep == Inv /\ [LifecycleNext]_lifecycle => Sending'
<1>. SUFFICES ASSUME TypeOK, Sending, [LifecycleNext]_lifecycle PROVE Sending'
  BY DEF Inv
<1>1. ASSUME NEW c \in Cycles, NEW h \in Hosts, EvalStep(c, h) PROVE Sending'
  BY <1>1 DEF EvalStep, EvalProceeds, EvalStart, EvalJudge, EvalSelect, EvalCommit, Persists,
              EvalCollides, EvalRaises, Undone, Sending
<1>2. CASE Collect \/ GatherRaises \/ DispatchReturns \/ DispatchRaises \/ LifecycleRestart
  BY <1>2, CyclesAssumption
     DEF Collect, GatherRaises, DispatchReturns, DispatchRaises, LifecycleRestart, Sending
<1>3. CASE GatherReturns
  BY <1>3 DEF GatherReturns, Sending
<1>4. ASSUME NEW n \in Events \X Kinds, Tell(n) \/ StrayTells(n) PROVE Sending'
  BY <1>4 DEF Tell, StrayTells, Sending
<1>5. CASE AdminStep \/ UNCHANGED lifecycle
  BY <1>5 DEF AdminStep, Acknowledge, Close, Enable, Disable, lifecycle, Sending
<1>. QED
  BY <1>1, <1>2, <1>3, <1>4, <1>5 DEF LifecycleNext, LifecycleStep

-----------------------------------------------------------------------------
\* The notices of the evaluations.
LEMMA IntentsOf == \A n : n \in Intents <=> \E p \in Threads : n \in eval[p].notices
BY DEF Intents

\* The notices of one host's alerts come from one thread, that of the cycle.
LEMMA NoticesOfCycle ==
    ASSUME TypeOK, Evaluations, NEW p \in Threads, NEW e \in Events, NEW k \in Kinds,
           <<e, k>> \in eval[p].notices
    PROVE  p = <<cycle, Host(e)>> /\ eval[p].stage = "done"
<1>1. Evaluated(p)
  BY DEF Evaluations
<1>2. eval[p].stage = "done"
  BY <1>1 DEF Evaluated
<1>3. p[1] = cycle /\ p[2] = Host(e)
  BY <1>1, <1>2 DEF Evaluated, Kinds
<1>. QED
  BY <1>2, <1>3, ThreadParts

\* Only a commit returns notices.
LEMMA NoticesByCommit ==
    ASSUME TypeOK, Evaluations, [LifecycleNext]_lifecycle, NEW p \in Threads,
           eval'[p].notices # {}, ~EvalCommit(p[1], p[2])
    PROVE  eval'[p] = eval[p]
<1>1. PICK c \in Cycles, h \in Hosts : p = <<c, h>>
  BY ThreadParts
<1>2. ~EvalStart(c, h) /\ ~EvalSelect(c, h)
  BY <1>1, StartRow, SelectRow
<1>3. ~EvalJudge(c, h)
  <2>1. eval[p].stage # "done" => eval[p].notices = {}
    BY DEF Evaluations, Evaluated
  <2>. QED
    BY <1>1, <2>1, JudgeRow
<1>4. ~EvalCollides(c, h) /\ ~EvalRaises(c, h)
  BY <1>1, UndoneRow DEF EvalCollides, EvalRaises
<1>5. ~Ends(p)
  BY Fields, QueuedFields DEF Ends
<1>. QED
  BY <1>1, <1>2, <1>3, <1>4, <1>5, RowSteps DEF EvalStep, EvalProceeds

\* Whatever is told of an alert has happened to it, its beginning first.
LEMMA NoticesStep == Inv /\ [LifecycleNext]_lifecycle => Notices'
<1>. SUFFICES ASSUME Inv, [LifecycleNext]_lifecycle, NEW e \in Events PROVE Noticed(e)'
  BY DEF Notices
<1>0. TypeOK /\ Evaluations /\ Noticed(e)
  BY DEF Inv, Notices
<1>. USE <1>0
<1>1. Goes(e)
  BY GoesStep
<1>2. CASE GatherReturns
  <2>1. outbox' = Intents /\ told' = told /\ stray' = stray /\ event' = event
    BY <1>2, CyclesAssumption DEF GatherReturns, Sending, Inv
  <2>2. \A p \in Threads : Evaluated(p)
    BY DEF Evaluations
  <2>3. ASSUME <<e, "firing">> \in Intents
        PROVE  event[e] # "none" /\ <<e, "resolved">> \notin told \cup Intents \cup stray
    <3>1. PICK p \in Threads : <<e, "firing">> \in eval[p].notices
      BY <2>3, IntentsOf
    <3>2. event[e] # "none" /\ <<e, "resolved">> \notin told \cup stray
      BY <2>2, <3>1 DEF Evaluated, Noticed
    <3>3. ASSUME NEW q \in Threads, <<e, "resolved">> \in eval[q].notices PROVE FALSE
      <4>1. p = q
        BY <3>1, <3>3, NoticesOfCycle DEF Kinds
      <4>. QED
        BY <2>2, <3>1, <3>3, <4>1 DEF Evaluated
    <3>. QED
      BY <3>2, <3>3, IntentsOf
  <2>4. <<e, "resolved">> \in Intents => event[e] = "resolved"
    BY <2>2, IntentsOf DEF Evaluated
  <2>5. ASSUME NEW p \in Threads PROVE <<e, "firing">> \notin eval'[p].notices
    <3>1. eval'[p] = IF p[1] = cycle THEN NoEvaluation ELSE eval[p]
      BY <1>2 DEF GatherReturns
    <3>2. <<e, "firing">> \in eval[p].notices => p[1] = cycle
      <4>1. ASSUME <<e, "firing">> \in eval[p].notices PROVE p = <<cycle, Host(e)>>
        BY <4>1, NoticesOfCycle DEF Kinds
      <4>. QED
        BY <4>1
    <3>. QED
      BY <3>1, <3>2, Fields
  <2>. QED
    BY <2>1, <2>3, <2>4, <2>5 DEF Noticed
<1>3. ASSUME ~GatherReturns
      PROVE  /\ outbox' \subseteq outbox
             /\ told' \cup outbox' \cup stray' \subseteq told \cup outbox \cup stray
  BY <1>3, StepFrame
     DEF LifecycleNext, LifecycleStep, Collect, GatherRaises, DispatchReturns, DispatchRaises,
         Tell, StrayTells, LifecycleRestart, AdminStep, Acknowledge, Close, Enable, Disable,
         lifecycle
<1>4. ASSUME NEW p \in Threads, <<e, "firing">> \in eval'[p].notices
      PROVE  <<e, "resolved">> \notin told \cup outbox \cup stray
  <2>1. PICK c \in Cycles, h \in Hosts : p = <<c, h>>
    BY ThreadParts
  <2>2. CASE EvalCommit(c, h)
    <3>1. event[e] = "none"
      <4>1. e \in Begun(c, h)
        BY <1>4, <2>1, <2>2, CommitRow
      <4>. QED
        BY <4>1, BegunNew
    <3>. QED
      BY <3>1 DEF Noticed
  <2>3. CASE ~EvalCommit(c, h)
    <3>1. eval'[p] = eval[p]
      BY <1>4, <2>1, <2>3, NoticesByCommit
    <3>. QED
      BY <1>4, <3>1 DEF Noticed
  <2>. QED
    BY <2>2, <2>3
<1>5. ASSUME ~GatherReturns PROVE Noticed(e)'
  BY <1>1, <1>3, <1>4, <1>5 DEF Noticed, Goes, Active
<1>. QED
  BY <1>2, <1>5

\* While there has been no fault no step that counts as one has been taken.
LEMMA NoFault ==
    ASSUME TypeOK, [LifecycleNext]_lifecycle, faults' = 0
    PROVE  /\ faults = 0 /\ ~DispatchRaises /\ ~LifecycleRestart
           /\ \A c \in Cycles, h \in Hosts : ~EvalRaises(c, h)
<1>1. ~Fault
  BY DEF TypeOK, Fault
<1>2. /\ ~DispatchRaises /\ ~LifecycleRestart
      /\ \A c \in Cycles, h \in Hosts : ~EvalRaises(c, h)
  BY <1>1 DEF DispatchRaises, LifecycleRestart, EvalRaises
<1>3. faults' = faults
  BY <1>2, StepFrame
     DEF LifecycleNext, LifecycleStep, EvalStep, Collect, GatherRaises, GatherReturns,
         DispatchReturns, Tell, StrayTells, AdminStep, Acknowledge, Close, Enable, Disable,
         lifecycle
<1>. QED
  BY <1>2, <1>3

\* Without a fault no INSERT is refused: nobody else inserts alerts of the host.
LEMMA NoCollision ==
    ASSUME Faultless, faults = 0, NEW c \in Cycles, NEW h \in Hosts
    PROVE  ~EvalCollides(c, h)
<1>1. Alone(<<c, h>>)
  BY ThreadParts DEF Faultless
<1>. QED
  BY <1>1 DEF Alone, EvalCollides, Collision

\* Without a fault an evaluation neither raises nor outlives its cycle, and what
\* it has read of the alerts it will insert stays true.
LEMMA FaultlessStep == Inv /\ [LifecycleNext]_lifecycle => Faultless'
<1>. SUFFICES ASSUME Inv, [LifecycleNext]_lifecycle, faults' = 0, NEW p \in Threads
              PROVE  Alone(p)'
  BY DEF Faultless
<1>0. TypeOK /\ Evaluations /\ Faultless
  BY DEF Inv
<1>. USE <1>0
<1>1. /\ faults = 0 /\ ~DispatchRaises /\ ~LifecycleRestart
      /\ \A c \in Cycles, h \in Hosts : ~EvalRaises(c, h)
  BY NoFault
<1>2. /\ \A q \in Threads : Alone(q)
      /\ \A c \in Cycles, h \in Hosts : ~EvalCollides(c, h)
  BY <1>1, NoCollision DEF Faultless
<1>3. p[1] \in Cycles /\ p[2] \in Hosts /\ p = <<p[1], p[2]>> /\ "idle" \notin Cycles
      /\ "dispatching" \notin Cycles
  BY ThreadParts, CyclesAssumption
<1>4. ASSUME eval[p].stage = "selected", ~EvalCommit(p[1], p[2]), NEW r \in Rules,
             ActiveOf(r, p[2]) = {}
      PROVE  ActiveOf(r, p[2])' = {}
  <2>. SUFFICES ASSUME NEW e \in Of(r, p[2]), event'[e] \in Active PROVE FALSE
    BY DEF ActiveOf, Of
  <2>1. e \in Events /\ Host(e) = p[2] /\ event[e] \notin Active
    BY <1>4 DEF ActiveOf, Of, Host
  <2>2. event[e] = "none" /\ event'[e] # "none"
    BY <2>1, GoesStep DEF Goes, Active
  <2>3. PICK c \in Cycles : EvalCommit(c, p[2])
    BY <2>1, <2>2, BeginsByCommit
  <2>4. eval[<<c, p[2]>>].stage # "none"
    BY <2>3 DEF EvalCommit
  <2>5. c = cycle /\ p[1] = cycle
    BY <1>2, <1>3, <1>4, <2>4, ThreadParts DEF Alone
  <2>. QED
    BY <1>4, <2>3, <2>5
<1>5. ASSUME eval'[p] = eval[p], cycle' = cycle PROVE Alone(p)'
  <2>1. ~EvalCommit(p[1], p[2]) \/ eval[p].stage # "selected"
    <3>1. ASSUME EvalCommit(p[1], p[2]) PROVE eval'[p].stage # "selected"
      BY <1>3, <3>1, CommitRow
    <3>. QED
      BY <1>5, <3>1
  <2>2. eval[p].fires \subseteq Rules
    BY EvalParts
  <2>. QED
    BY <1>2, <1>4, <1>5, <2>1, <2>2 DEF Alone
<1>6. ASSUME EvalStep(p[1], p[2]) PROVE Alone(p)'
  <2>. DEFINE c == p[1]
              h == p[2]
  <2>1. c \in Cycles /\ h \in Hosts /\ p = <<c, h>>
    BY <1>3
  <2>. HIDE DEF c, h
  <2>2. EvalStart(c, h) \/ EvalJudge(c, h) \/ EvalSelect(c, h) \/ EvalCommit(c, h)
    BY <1>1, <1>2, <1>6, <2>1 DEF c, h, EvalStep, EvalProceeds
  <2>3. cycle' = cycle /\ cycle = c
    <3>1. eval[p].stage # "none" /\ cycle' = cycle
      BY <1>6, <2>1, StepRow DEF c, h
    <3>. QED
      BY <1>2, <3>1 DEF Alone, c
  <2>4. eval'[p].stage \in {"started", "judged", "done", "selected"}
    BY <2>1, <2>2, <2>3, StartRow, JudgeRow, SelectRow, CommitRow
  <2>5. ASSUME eval'[p].stage = "selected", NEW r \in eval'[p].fires
        PROVE  ActiveOf(r, h)' = {}
    <3>1. EvalSelect(c, h)
      BY <2>1, <2>2, <2>5, StartRow, JudgeRow, CommitRow, <2>3
    <3>2. event' = event /\ ActiveOf(r, h) = {}
      BY <2>1, <2>5, <3>1, SelectRow DEF EvalSelect
    <3>. QED
      BY <3>2 DEF ActiveOf, Of
  <2>. QED
    BY <2>3, <2>4, <2>5 DEF Alone, c, h
<1>7. ASSUME NEW c \in Cycles, NEW h \in Hosts, EvalStep(c, h), p # <<c, h>> PROVE Alone(p)'
  BY <1>5, <1>7, StepRow DEF Rewrites
<1>8. CASE Collect
  <2>. DEFINE c == CHOOSE c \in Free : TRUE
  <2>1. c \in Cycles /\ cycle' = c /\ cycle = "idle"
    BY <1>8 DEF Collect, Free
  <2>2. eval'[p] = IF p[1] = c THEN [NoEvaluation EXCEPT !.stage = "queued"] ELSE eval[p]
    BY <1>8 DEF Collect
  <2>. HIDE DEF c
  <2>3. eval[p].stage = "none"
    BY <1>2, <1>3, <2>1 DEF Alone
  <2>. QED
    BY <2>1, <2>2, <2>3, QueuedFields DEF Alone
<1>9. ~GatherRaises
  BY <1>2, ThreadParts DEF GatherRaises, Alone
<1>10. CASE GatherReturns \/ DispatchReturns
  <2>1. eval'[p].stage = "none"
    BY <1>2, <1>3, <1>10, Fields DEF GatherReturns, DispatchReturns, Alone
  <2>. QED
    BY <2>1 DEF Alone
<1>11. ASSUME NEW n \in Events \X Kinds, Tell(n) \/ StrayTells(n) PROVE Alone(p)'
  BY <1>5, <1>11 DEF Tell, StrayTells
<1>12. CASE AdminStep \/ UNCHANGED lifecycle
  BY <1>5, <1>12 DEF AdminStep, Acknowledge, Close, Enable, Disable, lifecycle
<1>. QED
  BY <1>1, <1>6, <1>7, <1>8, <1>9, <1>10, <1>11, <1>12 DEF LifecycleNext, LifecycleStep

\* Without a fault every alert that has begun has been told of or will be.
LEMMA ToldStep == Inv /\ [LifecycleNext]_lifecycle => EveryAlertTold'
<1>. SUFFICES ASSUME Inv, [LifecycleNext]_lifecycle, faults' = 0,
                     NEW e \in Events, event'[e] # "none"
              PROVE  \/ <<e, "firing">> \in told' \cup outbox'
                     \/ cycle' \in Cycles /\ <<e, "firing">> \in Intents'
  BY DEF EveryAlertTold
<1>0. TypeOK /\ Evaluations /\ Faultless
  BY DEF Inv
<1>. USE <1>0
<1>1. /\ faults = 0 /\ ~DispatchRaises /\ ~LifecycleRestart
      /\ \A c \in Cycles, h \in Hosts : ~EvalRaises(c, h) /\ ~EvalCollides(c, h)
  BY NoFault, NoCollision
<1>2. \A q \in Threads : Alone(q)
  BY <1>1 DEF Faultless
<1>3. ~GatherRaises
  BY <1>2, ThreadParts DEF GatherRaises, Alone
<1>4. CASE GatherReturns
  BY <1>1, <1>4 DEF GatherReturns, Inv, EveryAlertTold
<1>5. ASSUME ~GatherReturns
      PROVE  /\ told \cup outbox \subseteq told' \cup outbox'
             /\ cycle \in Cycles => cycle' \in Cycles
  <2>1. CASE Collect
    BY <2>1, CyclesAssumption DEF Collect
  <2>2. ASSUME NEW c \in Cycles, NEW h \in Hosts, EvalProceeds(c, h)
        PROVE  UNCHANGED <<cycle, told, outbox>>
    BY <2>2, StepFrame DEF EvalStep
  <2>3. CASE DispatchReturns \/ AdminStep \/ UNCHANGED lifecycle
    BY <2>3, CyclesAssumption
       DEF DispatchReturns, AdminStep, Acknowledge, Close, Enable, Disable, lifecycle
  <2>4. ASSUME NEW n \in Events \X Kinds, Tell(n) \/ StrayTells(n)
        PROVE  told \cup outbox \subseteq told' \cup outbox' /\ cycle' = cycle
    BY <2>4 DEF Tell, StrayTells
  <2>. QED
    BY <1>1, <1>3, <1>5, <2>1, <2>2, <2>3, <2>4 DEF LifecycleNext, LifecycleStep, EvalStep
<1>6. ASSUME ~GatherReturns, cycle \in Cycles, NEW p \in Threads,
             <<e, "firing">> \in eval[p].notices
      PROVE  <<e, "firing">> \in eval'[p].notices
  <2>1. eval[p].stage = "done"
    BY <1>6, NoticesOfCycle DEF Kinds
  <2>2. ASSUME NEW c \in Cycles, NEW h \in Hosts, EvalStep(c, h) PROVE eval'[p] = eval[p]
    BY <2>1, <2>2, StepRow DEF Rewrites
  <2>3. ~Collect
    BY <1>6, CyclesAssumption DEF Collect
  <2>4. ASSUME \A c \in Cycles, h \in Hosts : ~EvalStep(c, h) PROVE eval'[p] = eval[p]
    BY <1>1, <1>3, <1>6, <2>3, <2>4 DEF LifecycleNext, LifecycleStep, DispatchReturns, Tell,
       StrayTells, AdminStep, Acknowledge, Close, Enable, Disable, lifecycle
  <2>. QED
    BY <1>6, <2>2, <2>4
<1>7. ASSUME ~GatherReturns, event[e] # "none"
      PROVE  \/ <<e, "firing">> \in told' \cup outbox'
             \/ cycle' \in Cycles /\ <<e, "firing">> \in Intents'
  <2>1. \/ <<e, "firing">> \in told \cup outbox
        \/ cycle \in Cycles /\ <<e, "firing">> \in Intents
    BY <1>1, <1>7 DEF Inv, EveryAlertTold
  <2>2. CASE <<e, "firing">> \in told \cup outbox
    BY <1>5, <1>7, <2>2
  <2>3. CASE cycle \in Cycles /\ <<e, "firing">> \in Intents
    <3>1. \E p \in Threads : <<e, "firing">> \in eval'[p].notices
      BY <1>6, <1>7, <2>3, IntentsOf
    <3>. QED
      BY <1>5, <1>7, <2>3, <3>1 DEF Intents
  <2>. QED
    BY <2>1, <2>2, <2>3
<1>8. ASSUME event[e] = "none"
      PROVE  cycle' \in Cycles /\ <<e, "firing">> \in Intents'
  <2>1. PICK c \in Cycles : EvalCommit(c, Host(e)) /\ e \in Begun(c, Host(e))
    BY <1>8, BeginsByCommit
  <2>2. Host(e) \in Hosts /\ <<c, Host(e)>> \in Threads
    BY EventParts, ThreadParts
  <2>3. cycle = c /\ cycle' = cycle
    BY <1>2, <2>1, <2>2 DEF EvalCommit, Persists, Alone
  <2>4. <<e, "firing">> \in eval'[<<c, Host(e)>>].notices
    BY <2>1, <2>2, <2>3, CommitRow
  <2>. QED
    BY <2>2, <2>3, <2>4 DEF Intents
<1>. QED
  BY <1>4, <1>7, <1>8

\* The inductive invariant holds in every reachable state.
LEMMA Invariance == LifecycleSpec => []Inv
<1>1. Inv /\ [LifecycleNext]_lifecycle => Inv'
  BY TypeStep, AloneStep, EvaluationsStep, SendingStep, NoticesStep, FaultlessStep, ToldStep
     DEF Inv
<1>. QED
  BY <1>1, InitInv, PTL DEF LifecycleSpec

-----------------------------------------------------------------------------
\* Statuses, stages and notices stay within their types.
THEOREM TypeCorrect == LifecycleSpec => []TypeOK
<1>1. Inv => TypeOK
  BY DEF Inv
<1>. QED
  BY <1>1, Invariance, PTL

\* Without a fault dispatch_notifications gets every alert that an evaluation inserts.
THEOREM Told == LifecycleSpec => []EveryAlertTold
<1>1. Inv => EveryAlertTold
  BY DEF Inv
<1>. QED
  BY <1>1, Invariance, PTL

\* No end of an alert is told before its beginning, whatever cycles and
\* administrators do, unless a dispatch that raised left the beginning behind.
THEOREM InOrder == LifecycleSpec => NoticesInOrder
<1>1. ASSUME Inv, [LifecycleNext]_lifecycle, NEW e \in Events,
             <<e, "firing">> \in told' \ told, <<e, "resolved">> \in told
      PROVE  <<e, "firing">> \in stray
  <2>1. <<e, "firing">> \in outbox \cup stray
    BY <1>1, StepFrame
       DEF LifecycleNext, LifecycleStep, Collect, GatherRaises, GatherReturns, DispatchReturns,
           DispatchRaises, Tell, StrayTells, LifecycleRestart, AdminStep, Acknowledge, Close,
           Enable, Disable, lifecycle
  <2>. QED
    BY <1>1, <2>1 DEF Inv, Notices, Noticed
<1>2. Inv /\ [LifecycleNext]_lifecycle =>
        [\A e \in Events :
           <<e, "firing">> \in told' \ told /\ <<e, "resolved">> \in told
           => <<e, "firing">> \in stray]_lifecycle
  BY <1>1
<1>. QED
  BY <1>2, Invariance, PTL DEF LifecycleSpec, NoticesInOrder

\* Evaluations and administrators together keep to the life of an alert: it
\* begins once, ends for good, and is the one active alert of its rule and host.
THEOREM Implements == LifecycleSpec => ImplementsAlertBoard
<1>1. LifecycleInit => BoardInit
  BY DEF LifecycleInit
<1>2. ASSUME Inv, [LifecycleNext]_lifecycle, event' # event PROVE BoardStep
  <2>. DEFINE moved == {e \in Events : event'[e] # event[e]}
  <2>1. /\ event \in [Events -> Statuses] /\ event' \in [Events -> Statuses]
        /\ \A e \in Events : Goes(e)
    BY <1>2, GoesStep DEF Inv, TypeOK
  <2>2. moved # {}
    BY <1>2, <2>1
  <2>3. \A e \in moved : event'[e] \in After(event[e])
    BY <2>1 DEF Goes, After, Active
  <2>4. OneActiveAlert'
    BY <1>2, AloneStep DEF Inv
  <2>5. Move(moved)
    BY <2>3, <2>4 DEF Move
  <2>. HIDE DEF moved
  <2>6. moved \in SUBSET Events
    BY DEF moved
  <2>. QED
    BY <2>1, <2>2, <2>5, <2>6 DEF BoardStep
<1>3. Inv /\ [LifecycleNext]_lifecycle => [BoardStep]_event
  BY <1>2
<1>. QED
  BY <1>1, <1>3, Invariance, PTL DEF LifecycleSpec, ImplementsAlertBoard, BoardSpec
=============================================================================
