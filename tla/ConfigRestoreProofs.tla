------------------------- MODULE ConfigRestoreProofs -------------------------
(***************************************************************************)
(* Proofs about ConfigRestore: of any number of administrators, requests    *)
(* and changes, a restore happens once and as decided, and the last version *)
(* is the configuration but for commits that failed or overlapped and for   *)
(* changes that no commit follows.                                          *)
(***************************************************************************)
EXTENDS ConfigRestore, TLAPS

Carries(a, r) == work[a].request = r
Latest == versions[Len(versions)]

\* What a commit has read is a value of its section, and all of it once it writes.
ReadSoFar ==
    \A a \in Admins :
        /\ \A i \in Items : work[a].content[i] \in Values(i) \cup {None}
        /\ work[a].stage = "write" => work[a].content \in Configs

\* Only the two commits and the statements of a restore carry its request.
Carrying ==
    \A a \in Admins :
        /\ work[a].request # None <=> /\ work[a].stage # "idle"
                                      /\ work[a].purpose \in {"before", "after"}
        /\ work[a].stage = "restore" => work[a].purpose = "before"
        /\ work[a].stage = "finish" => work[a].purpose = "after"

\* A request under way is carried by one call, which knows whether it has restored.
OneCarrier ==
    \A a \in Admins : work[a].request # None =>
        /\ request[work[a].request].status = "applying"
        /\ restores[work[a].request] = IF work[a].purpose = "after" THEN 1 ELSE 0
        /\ \A b \in Admins : work[b].request = work[a].request => b = a

Decided ==
    \A r \in Requests :
        /\ request[r].status \in {"none", "pending", "approved", "rejected"} => restores[r] = 0
        /\ request[r].status \in {"approved", "applying", "applied", "failed"} =>
               request[r].decider \notin {None, request[r].by}

\* What a commit that is alone finds in the work tree is its own reading.
Seen(a) ==
    /\ \A i \in Items : work[a].content[i] \in {None, config[i]}
    /\ work[a].stage # "read" => work[a].content = config
    /\ work[a].stage = "replace" => tmp = config
    /\ work[a].stage \in {"add", "diff", "commit"} => file = config
    /\ work[a].stage \in {"diff", "commit"} => index = config
    /\ work[a].stage = "commit" => (work[a].changed <=> index # Latest)

Alone ==
    \A a \in Admins : InCommit(a) =>
        IF work[a].alone THEN Seen(a) /\ \A b \in Admins \ {a} : ~InCommit(b)
        ELSE doubt

Inv ==
    /\ TypeOK
    /\ ReadSoFar
    /\ Carrying
    /\ OneCarrier
    /\ Decided
    /\ RestoredOnceAsDecided
    /\ Alone
    /\ LatestIsCurrent

-----------------------------------------------------------------------------
(* What a step does to the calls                                            *)

LEMMA ItemValues == \A i \in Items : i \in {"host", "rule", "group", "policy"}
BY ConfigAssumption DEF Items

LEMMA NoneApart ==
    /\ None \notin Requests /\ None \notin Admins
    /\ None # "none" /\ None # "off" /\ None # "on"
    /\ \A c \in Configs, i \in Items : c[i] \in Values(i) /\ c[i] # None
<1>1. None \notin Requests /\ None \notin Admins /\ None # "none" /\ None # "off" /\ None # "on"
  BY ConfigAssumption
<1>2. \A c \in Configs, i \in Items : c[i] \in Values(i) /\ c[i] # None
  BY <1>1 DEF Configs, Values
<1>3. QED BY <1>1, <1>2

LEMMA IdleIs ==
    /\ Idle \in Works /\ Idle.stage = "idle" /\ Idle.purpose = "edit" /\ Idle.content = Unread
    /\ Idle.alone = FALSE /\ Idle.request = None
BY DEF Idle, Works, Unread, Purposes

\* a has begun a commit; one that was under way is no longer alone.
Begins(a, purpose, r) ==
    /\ work' \in [Admins -> Works] /\ doubt' \in BOOLEAN
    /\ work'[a].stage = "read" /\ work'[a].purpose = purpose
    /\ work'[a].content = Unread /\ work'[a].request = r
    /\ work'[a].alone => \A b \in Admins \ {a} : ~InCommit(b)
    /\ ~work'[a].alone => doubt'
    /\ doubt => doubt'
    /\ \A b \in Admins \ {a} :
         /\ work'[b].stage = work[b].stage /\ work'[b].purpose = work[b].purpose
         /\ work'[b].content = work[b].content /\ work'[b].request = work[b].request
         /\ work'[b].alone = FALSE
         /\ InCommit(b) => doubt'

LEMMA Begun ==
    ASSUME TypeOK, NEW a \in Admins, NEW purpose \in Purposes, NEW r \in Requests \cup {None},
           Starts(a, purpose, r)
    PROVE  Begins(a, purpose, r)
<1> DEFINE others == {b \in Admins \ {a} : InCommit(b)}
<1>1. /\ work' = [b \in Admins |->
                   IF b = a THEN [Idle EXCEPT !.stage = "read", !.purpose = purpose,
                                              !.alone = (others = {}), !.request = r]
                   ELSE [work[b] EXCEPT !.alone = FALSE]]
      /\ doubt' = (doubt \/ others # {})
  BY DEF Starts
<1>2. work'[a] = [Idle EXCEPT !.stage = "read", !.purpose = purpose, !.alone = (others = {}),
                              !.request = r]
  BY <1>1
<1>3. \A b \in Admins \ {a} : work'[b] = [work[b] EXCEPT !.alone = FALSE] /\ work[b] \in Works
  BY <1>1 DEF TypeOK
<1>4. \A b \in Admins \ {a} : InCommit(b) => others # {}
  OBVIOUS
<1>5. others = {} => \A b \in Admins \ {a} : ~InCommit(b)
  BY <1>4
<1>6. (others = {}) \in BOOLEAN
  OBVIOUS
<1> HIDE DEF others
<1>7. /\ work'[a] \in Works /\ work'[a].stage = "read" /\ work'[a].purpose = purpose
      /\ work'[a].content = Unread /\ work'[a].request = r
      /\ work'[a].alone = (others = {})
  BY <1>2, <1>6, IdleIs DEF Works, Committing
<1>8. \A b \in Admins \ {a} :
        /\ work'[b] \in Works
        /\ work'[b].stage = work[b].stage /\ work'[b].purpose = work[b].purpose
        /\ work'[b].content = work[b].content /\ work'[b].request = work[b].request
        /\ work'[b].alone = FALSE
  <2> SUFFICES ASSUME NEW b \in Admins \ {a}, NEW w \in Works, w = work[b],
                      work'[b] = [w EXCEPT !.alone = FALSE]
               PROVE  /\ work'[b] \in Works
                      /\ work'[b].stage = w.stage /\ work'[b].purpose = w.purpose
                      /\ work'[b].content = w.content /\ work'[b].request = w.request
                      /\ work'[b].alone = FALSE
    BY <1>3
  <2>1. QED BY DEF Works
<1>9. work' \in [Admins -> Works]
  BY <1>1, <1>7, <1>8
<1>10. doubt' \in BOOLEAN
  BY <1>1 DEF TypeOK
<1>11. QED BY <1>1, <1>4, <1>5, <1>7, <1>8, <1>9, <1>10 DEF Begins

LEMMA Moved ==
    ASSUME TypeOK, NEW a \in Admins, NEW stage \in Committing, Moves(a, stage)
    PROVE  /\ work' \in [Admins -> Works]
           /\ work'[a].stage = stage /\ work'[a].purpose = work[a].purpose
           /\ work'[a].content = work[a].content /\ work'[a].request = work[a].request
           /\ work'[a].alone = work[a].alone
           /\ \A b \in Admins \ {a} : work'[b] = work[b]
BY DEF TypeOK, Moves, Works

LEMMA ReadOne ==
    ASSUME TypeOK, ReadSoFar, NEW a \in Admins, Read(a)
    PROVE  /\ work' \in [Admins -> Works]
           /\ work'[a].stage \in {"read", "write"} /\ work'[a].purpose = work[a].purpose
           /\ work'[a].request = work[a].request /\ work'[a].alone = work[a].alone
           /\ \A i \in Items : work'[a].content[i] \in {work[a].content[i], config[i]}
           /\ work'[a].stage = "write" => \A i \in Items : work'[a].content[i] # None
           /\ \A b \in Admins \ {a} : work'[b] = work[b]
<1>1. PICK n \in DOMAIN Sections :
         /\ work[a].content[Sections[n]] = None
         /\ \A m \in 1..(n - 1) : work[a].content[Sections[m]] # None
         /\ work' = [work EXCEPT ![a].content[Sections[n]] = config[Sections[n]],
                                 ![a].stage = IF n = Len(Sections) THEN "write" ELSE "read"]
  BY DEF Read
<1> DEFINE stage == IF n = Len(Sections) THEN "write" ELSE "read"
           read == [work[a].content EXCEPT ![Sections[n]] = config[Sections[n]]]
<1>2. /\ Sections[n] \in Items
      /\ work[a] \in Works
      /\ work[a].content \in [Items -> {"none", "off", "on", None}]
  BY DEF Items, TypeOK, Works
<1>3. work' = [work EXCEPT ![a] = [work[a] EXCEPT !.content = read, !.stage = stage]]
  BY <1>1, <1>2 DEF TypeOK, Works
<1>4. config[Sections[n]] \in {"none", "off", "on"}
  BY <1>2 DEF TypeOK, Configs
<1>5. /\ read \in [Items -> {"none", "off", "on", None}]
      /\ \A i \in Items : read[i] = IF i = Sections[n] THEN config[i] ELSE work[a].content[i]
  BY <1>2, <1>4
<1>6. stage = "write" => \A i \in Items : read[i] # None
  <2> SUFFICES ASSUME n = Len(Sections), NEW i \in Items PROVE read[i] # None
    OBVIOUS
  <2>1. PICK m \in DOMAIN Sections : i = Sections[m]
    BY DEF Items
  <2>2. DOMAIN Sections = 1..Len(Sections) /\ Len(Sections) \in Nat
    BY ConfigAssumption
  <2>3. CASE m = n
    BY <1>4, <1>5, <2>1, <2>3, NoneApart
  <2>4. CASE m # n
    <3>1. m \in 1..(n - 1)
      BY <2>2, <2>4
    <3>2. QED BY <1>1, <1>4, <1>5, <2>1, <3>1, NoneApart
  <2>5. QED BY <2>3, <2>4
<1>7. stage \in {"read", "write"}
  OBVIOUS
<1> HIDE DEF stage, read
<1>8. /\ work'[a] \in Works /\ work'[a].content = read /\ work'[a].stage = stage
      /\ work'[a].purpose = work[a].purpose /\ work'[a].request = work[a].request
      /\ work'[a].alone = work[a].alone
      /\ \A b \in Admins \ {a} : work'[b] = work[b]
      /\ work' \in [Admins -> Works]
  BY <1>2, <1>3, <1>5, <1>7 DEF TypeOK, Works, Committing
<1>9. QED BY <1>5, <1>6, <1>7, <1>8

LEMMA Compared ==
    ASSUME TypeOK, NEW a \in Admins, Diff(a)
    PROVE  /\ work' \in [Admins -> Works]
           /\ work'[a].stage = "commit" /\ work'[a].purpose = work[a].purpose
           /\ work'[a].content = work[a].content /\ work'[a].request = work[a].request
           /\ work'[a].alone = work[a].alone /\ work'[a].changed = (index # Latest)
           /\ \A b \in Admins \ {a} : work'[b] = work[b]
<1> DEFINE differ == index # Latest
<1>1. work' = [work EXCEPT ![a] = [work[a] EXCEPT !.stage = "commit", !.changed = differ]]
  BY DEF Diff, TypeOK, Latest
<1>2. differ \in BOOLEAN /\ work[a] \in Works
  BY DEF TypeOK
<1> HIDE DEF differ
<1>3. /\ work' \in [Admins -> Works]
      /\ work'[a].stage = "commit" /\ work'[a].purpose = work[a].purpose
      /\ work'[a].content = work[a].content /\ work'[a].request = work[a].request
      /\ work'[a].alone = work[a].alone /\ work'[a].changed = differ
      /\ \A b \in Admins \ {a} : work'[b] = work[b]
  BY <1>1, <1>2 DEF TypeOK, Works, Committing
<1>4. QED BY <1>3 DEF differ

LEMMA Committed ==
    ASSUME TypeOK, NEW a \in Admins, Commit(a)
    PROVE  /\ work' \in [Admins -> Works]
           /\ work'[a].stage = Afterwards[work[a].purpose]
           /\ work'[a].stage \in {"idle", "restore", "finish"}
           /\ work'[a].purpose = work[a].purpose
           /\ work'[a].content = Unread /\ work'[a].request = work[a].request
           /\ \A b \in Admins \ {a} : work'[b] = work[b]
<1>1. work[a] \in Works
  BY DEF TypeOK
<1>2. Afterwards[work[a].purpose] \in {"idle", "restore", "finish"}
  BY <1>1 DEF Works, Purposes, Afterwards
<1> DEFINE stage == Afterwards[work[a].purpose]
<1>3. work' = [work EXCEPT ![a] = [Idle EXCEPT !.stage = stage, !.purpose = work[a].purpose,
                                              !.request = work[a].request]]
  BY DEF Commit
<1> HIDE DEF stage
<1>4. QED BY <1>1, <1>2, <1>3, IdleIs DEF TypeOK, Works, stage

LEMMA Raised ==
    ASSUME TypeOK, Carrying, NEW a \in Admins, Raise(a) \/ Finish(a)
    PROVE  /\ work' \in [Admins -> Works]
           /\ work'[a].stage \in {"idle", "read"} /\ work'[a].content = Unread
           /\ work'[a].request = None /\ ~work'[a].alone
           /\ work'[a].stage = "read" => InCommit(a) /\ doubt' /\ work'[a].purpose = "startup"
           /\ \A b \in Admins \ {a} : work'[b] = work[b]
<1> DEFINE again == [Idle EXCEPT !.stage = "read", !.purpose = "startup"]
<1>1. \/ work' = [work EXCEPT ![a] = Idle]
      \/ work' = [work EXCEPT ![a] = again] /\ doubt' /\ work[a].purpose = "startup"
         /\ work[a].stage # "idle"
  BY DEF Raise, Finish, TypeOK, At
<1>2. work[a].purpose = "startup" /\ work[a].stage # "idle" => InCommit(a)
  BY DEF Carrying, InCommit, TypeOK, Works
<1>3. /\ again \in Works /\ again.stage = "read" /\ again.purpose = "startup"
      /\ again.content = Unread /\ again.alone = FALSE /\ again.request = None
  BY IdleIs DEF Works, Committing, Purposes
<1> HIDE DEF again
<1>4. QED BY <1>1, <1>2, <1>3, IdleIs DEF TypeOK

LEMMA Restarted ==
    ASSUME TypeOK, NEW a \in Admins, ApiRestart(a)
    PROVE  /\ work' \in [Admins -> Works] /\ doubt'
           /\ \A b \in Admins : work'[b].request = None /\ work'[b].content = Unread
           /\ work'[a].stage = "read" /\ work'[a].purpose = "startup"
           /\ \A b \in Admins \ {a} : work'[b].stage = "idle" /\ ~work'[b].alone
<1> DEFINE again == [Idle EXCEPT !.stage = "read", !.purpose = "startup", !.alone = TRUE]
<1>1. work' = [b \in Admins |-> IF b # a THEN Idle ELSE again] /\ doubt'
  BY DEF ApiRestart
<1>2. /\ again \in Works /\ again.stage = "read" /\ again.purpose = "startup"
      /\ again.content = Unread /\ again.request = None
  BY IdleIs DEF Works, Committing, Purposes
<1> HIDE DEF again
<1>3. QED BY <1>1, <1>2, IdleIs

-----------------------------------------------------------------------------
(* What a step does to the tables and the work tree                         *)

\* The changes that version_control_changes commits.
EditStep(a) ==
    \/ InsertHost(a) \/ DisableHost(a)
    \/ CreateRule(a) \/ DeleteRule(a) \/ CreateGroup(a) \/ DeleteGroup(a)
    \/ \E value \in {"off", "on"} :
           UpdateRule(a, value) \/ UpdateGroup(a, value) \/ UpdatePolicy(a, value)

LEMMA Edited ==
    ASSUME TypeOK, NEW a \in Admins, EditStep(a) \/ CreateVersion(a)
    PROVE  /\ config' \in Configs /\ edits' \in 0..MaxEdits /\ At(a, "idle")
           /\ \E purpose \in {"edit", "manual"} : Starts(a, purpose, None)
           /\ UNCHANGED <<gitVars, request, restores, faults>>
<1>1. ASSUME NEW i \in Items, NEW value \in Values(i)
      PROVE  [config EXCEPT ![i] = value] \in Configs
  BY DEF TypeOK, Configs, Values
<1>2. edits < MaxEdits => edits + 1 \in 0..MaxEdits
  BY ConfigAssumption DEF TypeOK
<1>3. ASSUME NEW i, NEW from, NEW to, Changes(a, i, from, to),
             to \in {"off", "on"} \/ (to = "none" /\ i # "policy")
      PROVE  /\ config' \in Configs /\ edits' \in 0..MaxEdits /\ At(a, "idle")
             /\ Starts(a, "edit", None)
             /\ UNCHANGED <<gitVars, request, restores, faults>>
  BY <1>1, <1>2, <1>3 DEF Changes, Values
<1>4. CASE InsertHost(a)
  BY <1>3, <1>4 DEF InsertHost
<1>5. CASE DisableHost(a)
  BY <1>3, <1>5 DEF DisableHost
<1>6. CASE CreateRule(a) \/ DeleteRule(a)
  BY <1>3, <1>6 DEF CreateRule, DeleteRule
<1>7. CASE CreateGroup(a) \/ DeleteGroup(a)
  BY <1>3, <1>7 DEF CreateGroup, DeleteGroup
<1>8. ASSUME NEW value \in {"off", "on"},
             UpdateRule(a, value) \/ UpdateGroup(a, value) \/ UpdatePolicy(a, value)
      PROVE  /\ config' \in Configs /\ edits' \in 0..MaxEdits /\ At(a, "idle")
             /\ Starts(a, "edit", None)
             /\ UNCHANGED <<gitVars, request, restores, faults>>
  BY <1>3, <1>8 DEF UpdateRule, UpdateGroup, UpdatePolicy
<1>9. CASE CreateVersion(a)
  BY <1>2, <1>9 DEF CreateVersion, TypeOK
<1>10. QED BY <1>4, <1>5, <1>6, <1>7, <1>8, <1>9 DEF EditStep

\* A commit that is under way when the policy of a job changes a rule is no longer alone.
LEMMA RuleChanged ==
    ASSUME TypeOK, NEW value \in {"off", "on"}, UpdateJobPolicy(value)
    PROVE  /\ work' \in [Admins -> Works] /\ doubt' = TRUE
           /\ \A b \in Admins :
                /\ work'[b].stage = work[b].stage /\ work'[b].purpose = work[b].purpose
                /\ work'[b].content = work[b].content /\ work'[b].request = work[b].request
                /\ work'[b].alone = FALSE
           /\ "rule" \in Items /\ config' \in Configs
           /\ \A i \in Items \ {"rule"} : config'[i] = config[i]
           /\ edits' \in 0..MaxEdits
           /\ UNCHANGED <<gitVars, request, restores, faults>>
<1>1. \A b \in Admins :
        /\ work'[b] \in Works
        /\ work'[b].stage = work[b].stage /\ work'[b].purpose = work[b].purpose
        /\ work'[b].content = work[b].content /\ work'[b].request = work[b].request
        /\ work'[b].alone = FALSE
  <2> SUFFICES ASSUME NEW b \in Admins, NEW w \in Works, w = work[b],
                      work'[b] = [w EXCEPT !.alone = FALSE]
               PROVE  /\ work'[b] \in Works
                      /\ work'[b].stage = w.stage /\ work'[b].purpose = w.purpose
                      /\ work'[b].content = w.content /\ work'[b].request = w.request
                      /\ work'[b].alone = FALSE
    BY DEF UpdateJobPolicy, TypeOK
  <2>1. QED BY DEF Works
<1>2. work' \in [Admins -> Works]
  BY <1>1 DEF UpdateJobPolicy
<1>3. /\ "rule" \in Items /\ config' \in Configs
      /\ \A i \in Items \ {"rule"} : config'[i] = config[i]
  BY DEF UpdateJobPolicy, TypeOK, Configs, Values
<1>4. edits' \in 0..MaxEdits
  BY ConfigAssumption DEF UpdateJobPolicy, TypeOK
<1>5. QED BY <1>1, <1>2, <1>3, <1>4 DEF UpdateJobPolicy

\* A start adds what was not there.
LEMMA Completed ==
    ASSUME TypeOK, NEW a \in Admins, ApiRestart(a)
    PROVE  /\ config' \in Configs /\ edits' \in 0..MaxEdits
           /\ \A i \in Items : config[i] # "none" => config'[i] = config[i]
           /\ UNCHANGED <<gitVars, request, restores>>
<1>1. /\ config' \in Configs
      /\ \A i \in Items : config'[i] # config[i] => config[i] = "none" /\ edits < MaxEdits
  <2>1. PICK added \in SUBSET {i \in Items \cap {"host", "rule"} :
                                 config[i] = "none" /\ edits < MaxEdits} :
            config' = [i \in Items |-> IF i \in added THEN "on" ELSE config[i]]
    BY DEF ApiRestart, Seeded
  <2>2. \A i \in added : config[i] = "none" /\ edits < MaxEdits /\ i # "policy"
    OBVIOUS
  <2>3. config' \in Configs
    BY <2>1, <2>2 DEF TypeOK, Configs, Values
  <2>4. QED BY <2>1, <2>2, <2>3
<1>2. config' # config => edits < MaxEdits
  BY <1>1 DEF TypeOK, Configs
<1>3. edits' \in 0..MaxEdits
  BY <1>2, ConfigAssumption DEF ApiRestart, TypeOK
<1>4. QED BY <1>1, <1>3 DEF ApiRestart

\* The requests, by what a step does to one of them.
LEMMA Recorded ==
    ASSUME TypeOK, NEW a \in Admins, NEW r \in Requests, NEW status \in
               {"none", "pending", "approved", "rejected", "applying", "applied", "failed"},
           request' = [request EXCEPT ![r].status = status]
    PROVE  /\ request' \in [Requests -> Asked]
           /\ request'[r].status = status /\ request'[r].version = request[r].version
           /\ request'[r].by = request[r].by /\ request'[r].decider = request[r].decider
           /\ \A q \in Requests \ {r} : request'[q] = request[q]
BY DEF TypeOK, Asked

LEMMA AskedFor ==
    ASSUME TypeOK, NEW a \in Admins, NEW r \in Requests, NEW n \in DOMAIN versions,
           CreateRequest(a, r, n)
    PROVE  /\ request' \in [Requests -> Asked]
           /\ request'[r].status = "pending" /\ request'[r].version = n
           /\ request'[r].by = a /\ request'[r].decider = None
           /\ request[r].status = "none"
           /\ \A q \in Requests \ {r} : request'[q] = request[q]
<1>1. /\ NoRequest \in Asked /\ n \in Nat /\ NoRequest.decider = None
      /\ request' = [request EXCEPT ![r] = [NoRequest EXCEPT !.status = "pending",
                                                            !.version = n, !.by = a]]
  BY DEF NoRequest, Asked, CreateRequest, TypeOK
<1>2. [NoRequest EXCEPT !.status = "pending", !.version = n, !.by = a] \in Asked
  BY <1>1 DEF Asked
<1>3. QED BY <1>1, <1>2 DEF TypeOK, CreateRequest, Asked

LEMMA DecidedOn ==
    ASSUME TypeOK, NEW a \in Admins, NEW r \in Requests, NEW decision \in {"approved", "rejected"},
           Decide(a, r, decision)
    PROVE  /\ request' \in [Requests -> Asked]
           /\ request'[r].status = decision /\ request'[r].version = request[r].version
           /\ request'[r].by = request[r].by /\ request'[r].decider = a
           /\ request[r].status = "pending" /\ request[r].by # a
           /\ \A q \in Requests \ {r} : request'[q] = request[q]
BY DEF TypeOK, Asked, Decide

\* Every step that touches the requests names one and keeps its version.
LEMMA Settled ==
    ASSUME TypeOK, Carrying, NEW a \in Admins, Finish(a) \/ Raise(a)
    PROVE  /\ work[a].request = None => request' = request
           /\ work[a].request # None =>
                /\ work[a].request \in Requests
                /\ request'[work[a].request].status \in {"applied", "failed"}
                /\ Finish(a) \/ request'[work[a].request].status = "failed"
                /\ request'[work[a].request].version = request[work[a].request].version
                /\ request'[work[a].request].by = request[work[a].request].by
                /\ request'[work[a].request].decider = request[work[a].request].decider
                /\ \A q \in Requests \ {work[a].request} : request'[q] = request[q]
           /\ request' \in [Requests -> Asked]
           /\ UNCHANGED <<config, gitVars, restores, edits>> /\ faults' \in 0..MaxFaults
           /\ doubt' \in {doubt, TRUE}
<1>1. work[a].request \in Requests \cup {None}
  BY DEF TypeOK, Works
<1>2. CASE Finish(a)
  <2>1. work[a].request \in Requests
    BY <1>1, <1>2 DEF Carrying, Finish, At
  <2>2. request' = [request EXCEPT ![work[a].request].status = "applied"]
    BY <1>2 DEF Finish
  <2>3. QED BY <1>2, <2>1, <2>2, Recorded, NoneApart DEF Finish, TypeOK
<1>3. CASE Raise(a)
  <2>1. faults' \in 0..MaxFaults /\ UNCHANGED <<config, gitVars, restores, edits>> /\ doubt' = TRUE
    BY <1>3, ConfigAssumption DEF Raise, Fault, TypeOK
  <2>2. CASE work[a].request = None
    BY <1>3, <2>1, <2>2 DEF Raise, TypeOK
  <2>3. CASE work[a].request # None
    <3>1. request' = [request EXCEPT ![work[a].request].status = "failed"]
      BY <1>3, <2>3 DEF Raise
    <3>2. QED BY <1>1, <2>1, <2>3, <3>1, Recorded
  <2>4. QED BY <2>2, <2>3
<1>4. QED BY <1>2, <1>3

LEMMA RestoredIs ==
    ASSUME TypeOK, Carrying, NEW a \in Admins, Restore(a)
    PROVE  /\ work[a].request \in Requests /\ config' \in Configs
           /\ work[a].purpose = "before" /\ Starts(a, "after", work[a].request)
           /\ restores' = [restores EXCEPT ![work[a].request] = @ + 1]
<1>1. work[a].request \in Requests /\ work[a].purpose = "before"
  BY DEF TypeOK, Works, Carrying, Restore, At
<1>2. versions[request[work[a].request].version] \in Configs
  BY <1>1 DEF TypeOK
<1>3. \A c \in Configs : Restored(c) \in Configs
  BY DEF TypeOK, Configs, Restored, Values
<1>4. QED BY <1>1, <1>2, <1>3 DEF Restore

LEMMA Applies ==
    ASSUME TypeOK, Carrying, NEW a \in Admins, NEW r \in Requests, Apply(a, r)
    PROVE  /\ request[r].status = "approved" /\ At(a, "idle") /\ Starts(a, "before", r)
           /\ request' = [request EXCEPT ![r].status = "applying"]
           /\ UNCHANGED <<config, gitVars, restores, edits, faults>>
BY DEF Apply

-----------------------------------------------------------------------------
(* The invariant is kept                                                    *)

LEMMA Types ==
    ASSUME TypeOK, ReadSoFar, Carrying, [Next]_vars
    PROVE  TypeOK'
<1> DEFINE G == TypeOK'
<1>1. ASSUME NEW a \in Admins, EditStep(a) \/ CreateVersion(a) PROVE G
  <2>1. PICK purpose \in {"edit", "manual"} : Starts(a, purpose, None)
    BY <1>1, Edited
  <2>2. work' \in [Admins -> Works] /\ doubt' \in BOOLEAN
    BY <2>1, Begun DEF Purposes, Begins
  <2>3. QED BY <1>1, <2>2, Edited DEF TypeOK, gitVars
<1>2. ASSUME NEW a \in Admins, \E r \in Requests, n \in DOMAIN versions : CreateRequest(a, r, n)
      PROVE  G
  <2>1. PICK r \in Requests, n \in DOMAIN versions : CreateRequest(a, r, n)
    BY <1>2
  <2>2. request' \in [Requests -> Asked]
        /\ \A q \in Requests : request'[q].version \in DOMAIN versions
    <3>1. /\ request' \in [Requests -> Asked] /\ request'[r].version = n
          /\ \A q \in Requests \ {r} : request'[q] = request[q]
      BY <2>1, AskedFor
    <3>2. QED BY <3>1 DEF TypeOK
  <2>3. QED BY <2>1, <2>2 DEF TypeOK, CreateRequest, gitVars
<1>3. ASSUME NEW a \in Admins,
             \E r \in Requests, d \in {"approved", "rejected"} : Decide(a, r, d)
      PROVE  G
  <2>1. PICK r \in Requests, d \in {"approved", "rejected"} : Decide(a, r, d)
    BY <1>3
  <2>2. request' \in [Requests -> Asked]
        /\ \A q \in Requests : request'[q].version \in DOMAIN versions
    BY <2>1, DecidedOn DEF TypeOK
  <2>3. QED BY <2>1, <2>2 DEF TypeOK, Decide, gitVars
<1>4. ASSUME NEW a \in Admins, \E r \in Requests : Apply(a, r) PROVE G
  <2>1. PICK r \in Requests : Apply(a, r)
    BY <1>4
  <2>2. work' \in [Admins -> Works] /\ doubt' \in BOOLEAN
    BY <2>1, Applies, Begun DEF Purposes, Begins
  <2>3. QED BY <2>1, <2>2, Applies, Recorded DEF TypeOK, gitVars
<1>5. ASSUME NEW a \in Admins, Read(a) PROVE G
  BY <1>5, ReadOne DEF TypeOK, Read, gitVars, TablesUnchanged
<1>6. ASSUME NEW a \in Admins, Write(a) PROVE G
  <2>1. work[a].content \in Configs /\ work' \in [Admins -> Works]
    BY <1>6, Moved DEF ReadSoFar, Write, At, Committing
  <2>2. QED BY <1>6, <2>1 DEF TypeOK, Write, TablesUnchanged
<1>7. ASSUME NEW a \in Admins, Replace(a) PROVE G
  <2>1. work' \in [Admins -> Works]
    BY <1>7, Moved DEF Replace, Committing
  <2>2. QED BY <1>7, <2>1 DEF TypeOK, Replace, TablesUnchanged
<1>8. ASSUME NEW a \in Admins, Add(a) PROVE G
  <2>1. work' \in [Admins -> Works]
    BY <1>8, Moved DEF Add, Committing
  <2>2. QED BY <1>8, <2>1 DEF TypeOK, Add, TablesUnchanged
<1>9. ASSUME NEW a \in Admins, Diff(a) PROVE G
  BY <1>9, Compared DEF TypeOK, Diff, gitVars, TablesUnchanged
<1>10. ASSUME NEW a \in Admins, Commit(a) PROVE G
  <2>1. work' \in [Admins -> Works]
    BY <1>10, Committed
  <2>2. versions' = versions \/ versions' = Append(versions, index)
    BY <1>10 DEF Commit
  <2>3. /\ versions' \in Seq(Configs) /\ versions' # <<>>
        /\ DOMAIN versions \subseteq DOMAIN versions'
    <3>1. CASE versions' = versions
      BY <3>1 DEF TypeOK
    <3>2. CASE versions' = Append(versions, index)
      <4>1. versions \in Seq(Configs) /\ index \in Configs
        BY DEF TypeOK
      <4>2. /\ Append(versions, index) \in Seq(Configs)
            /\ Len(Append(versions, index)) = Len(versions) + 1 /\ Len(versions) \in Nat
            /\ DOMAIN versions = 1..Len(versions)
            /\ DOMAIN Append(versions, index) = 1..Len(Append(versions, index))
        BY <4>1
      <4>3. Append(versions, index) # <<>>
        BY <4>2
      <4>4. QED BY <3>2, <4>2, <4>3
    <3>3. QED BY <2>2, <3>1, <3>2
  <2>4. doubt' \in BOOLEAN
    BY <1>10 DEF Commit
  <2>5. QED BY <1>10, <2>1, <2>3, <2>4 DEF TypeOK, Commit, TablesUnchanged
<1>11. ASSUME NEW a \in Admins, Restore(a) PROVE G
  <2>1. work' \in [Admins -> Works] /\ doubt' \in BOOLEAN
    BY <1>11, RestoredIs, Begun DEF Purposes, Begins
  <2>2. restores' \in [Requests -> Nat]
    BY <1>11, RestoredIs DEF TypeOK
  <2>3. QED BY <1>11, <2>1, <2>2, RestoredIs DEF TypeOK, Restore, gitVars
<1>12. ASSUME NEW a \in Admins, Finish(a) \/ Raise(a) PROVE G
  <2>1. work' \in [Admins -> Works]
    BY <1>12, Raised
  <2>2. QED BY <1>12, <2>1, Settled DEF TypeOK, gitVars
<1>13. ASSUME NEW a \in Admins, ApiRestart(a) PROVE G
  <2>1. faults' \in 0..MaxFaults
    BY <1>13, ConfigAssumption DEF TypeOK, ApiRestart, Fault
  <2>2. QED BY <1>13, <2>1, Restarted, Completed DEF TypeOK, gitVars
<1>14. CASE UNCHANGED vars
  BY <1>14 DEF TypeOK, vars, gitVars
<1>15. ASSUME NEW value \in {"off", "on"}, UpdateJobPolicy(value) PROVE G
  BY <1>15, RuleChanged DEF TypeOK, gitVars
<1>16. QED
  BY <1>1, <1>2, <1>3, <1>4, <1>5, <1>6, <1>7, <1>8, <1>9, <1>10, <1>11, <1>12, <1>13, <1>14,
     <1>15
  DEF Next, CommitStep, EditStep

LEMMA Reads ==
    ASSUME TypeOK, ReadSoFar, Carrying, [Next]_vars
    PROVE  ReadSoFar'
<1> DEFINE G == ReadSoFar'
<1>0. ASSUME NEW a \in Admins, work' \in [Admins -> Works],
             work'[a].content = Unread, work'[a].stage # "write",
             \A b \in Admins \ {a} : work'[b].content = work[b].content
                                     /\ work'[b].stage = work[b].stage
      PROVE  G
  BY <1>0 DEF ReadSoFar, Unread
<1>1. ASSUME NEW a \in Admins, EditStep(a) \/ CreateVersion(a) PROVE G
  <2>1. PICK purpose \in {"edit", "manual"} : Starts(a, purpose, None)
    BY <1>1, Edited
  <2>2. Begins(a, purpose, None)
    BY <2>1, Begun DEF Purposes
  <2>3. QED BY <1>0, <2>2 DEF Begins
<1>2. ASSUME NEW a \in Admins, \E r \in Requests, n \in DOMAIN versions : CreateRequest(a, r, n)
      PROVE  G
  BY <1>2 DEF CreateRequest, ReadSoFar
<1>3. ASSUME NEW a \in Admins,
             \E r \in Requests, d \in {"approved", "rejected"} : Decide(a, r, d)
      PROVE  G
  BY <1>3 DEF Decide, ReadSoFar
<1>4. ASSUME NEW a \in Admins, \E r \in Requests : Apply(a, r) PROVE G
  <2>1. PICK r \in Requests : Apply(a, r)
    BY <1>4
  <2>2. Begins(a, "before", r)
    BY <2>1, Applies, Begun DEF Purposes
  <2>3. QED BY <1>0, <2>2 DEF Begins
<1>5. ASSUME NEW a \in Admins, Read(a) PROVE G
  <2>1. \A i \in Items : config[i] \in Values(i)
    BY NoneApart DEF TypeOK
  <2>2. \A i \in Items : work'[a].content[i] \in Values(i) \cup {None}
    BY <1>5, <2>1, ReadOne DEF ReadSoFar
  <2>3. ASSUME work'[a].stage = "write" PROVE work'[a].content \in Configs
    <3>1. work'[a].content \in [Items -> {"none", "off", "on", None}]
      BY <1>5, ReadOne DEF Works
    <3>2. \A i \in Items : work'[a].content[i] # None /\ work'[a].content[i] \in Values(i)
      BY <1>5, <2>2, <2>3, ReadOne
    <3>3. QED BY <3>1, <3>2 DEF Configs
  <2>4. QED BY <1>5, <2>2, <2>3, ReadOne DEF ReadSoFar
<1>6. ASSUME NEW a \in Admins, Write(a) PROVE G
  BY <1>6, Moved DEF Write, Committing, ReadSoFar
<1>7. ASSUME NEW a \in Admins, Replace(a) PROVE G
  BY <1>7, Moved DEF Replace, Committing, ReadSoFar
<1>8. ASSUME NEW a \in Admins, Add(a) PROVE G
  BY <1>8, Moved DEF Add, Committing, ReadSoFar
<1>9. ASSUME NEW a \in Admins, Diff(a) PROVE G
  BY <1>9, Compared DEF ReadSoFar
<1>10. ASSUME NEW a \in Admins, Commit(a) PROVE G
  BY <1>0, <1>10, Committed
<1>11. ASSUME NEW a \in Admins, Restore(a) PROVE G
  <2>1. work[a].request \in Requests /\ Starts(a, "after", work[a].request)
    BY <1>11, RestoredIs
  <2>2. Begins(a, "after", work[a].request)
    BY <2>1, Begun DEF Purposes
  <2>3. QED BY <1>0, <2>2 DEF Begins
<1>12. ASSUME NEW a \in Admins, Finish(a) \/ Raise(a) PROVE G
  BY <1>0, <1>12, Raised
<1>13. ASSUME NEW a \in Admins, ApiRestart(a) PROVE G
  BY <1>13, Restarted DEF ReadSoFar, Unread
<1>14. CASE UNCHANGED vars
  BY <1>14 DEF ReadSoFar, vars
<1>15. ASSUME NEW value \in {"off", "on"}, UpdateJobPolicy(value) PROVE G
  BY <1>15, RuleChanged DEF ReadSoFar
<1>16. QED
  BY <1>1, <1>2, <1>3, <1>4, <1>5, <1>6, <1>7, <1>8, <1>9, <1>10, <1>11, <1>12, <1>13, <1>14,
     <1>15
  DEF Next, CommitStep, EditStep

LEMMA Carrier ==
    ASSUME TypeOK, ReadSoFar, Carrying, [Next]_vars
    PROVE  Carrying'
<1> DEFINE G == Carrying'
<1>0. ASSUME NEW a \in Admins, NEW purpose \in Purposes, NEW r \in Requests \cup {None},
             Starts(a, purpose, r), purpose \in {"before", "after"} <=> r # None
      PROVE  G
  <2>1. Begins(a, purpose, r)
    BY <1>0, Begun
  <2>2. QED BY <1>0, <2>1 DEF Carrying, Begins
<1>1. ASSUME NEW a \in Admins, EditStep(a) \/ CreateVersion(a) PROVE G
  <2>1. PICK purpose \in {"edit", "manual"} : Starts(a, purpose, None)
    BY <1>1, Edited
  <2>2. QED BY <1>0, <2>1 DEF Purposes
<1>2. ASSUME NEW a \in Admins, \E r \in Requests, n \in DOMAIN versions : CreateRequest(a, r, n)
      PROVE  G
  BY <1>2 DEF CreateRequest, Carrying
<1>3. ASSUME NEW a \in Admins,
             \E r \in Requests, d \in {"approved", "rejected"} : Decide(a, r, d)
      PROVE  G
  BY <1>3 DEF Decide, Carrying
<1>4. ASSUME NEW a \in Admins, \E r \in Requests : Apply(a, r) PROVE G
  <2>1. PICK r \in Requests : Apply(a, r)
    BY <1>4
  <2>2. QED BY <1>0, <2>1, Applies, NoneApart DEF Purposes
<1>5. ASSUME NEW a \in Admins, Read(a) PROVE G
  <2>1. /\ work[a].stage = "read" /\ work'[a].stage \in {"read", "write"}
        /\ work'[a].purpose = work[a].purpose /\ work'[a].request = work[a].request
        /\ \A b \in Admins \ {a} : work'[b] = work[b]
    BY <1>5, ReadOne DEF Read, At
  <2>2. QED BY <2>1 DEF Carrying
<1>6. ASSUME NEW a \in Admins, Write(a) PROVE G
  BY <1>6, Moved DEF Write, At, Committing, Carrying
<1>7. ASSUME NEW a \in Admins, Replace(a) PROVE G
  BY <1>7, Moved DEF Replace, At, Committing, Carrying
<1>8. ASSUME NEW a \in Admins, Add(a) PROVE G
  BY <1>8, Moved DEF Add, At, Committing, Carrying
<1>9. ASSUME NEW a \in Admins, Diff(a) PROVE G
  <2>1. /\ work[a].stage = "diff" /\ work'[a].stage = "commit"
        /\ work'[a].purpose = work[a].purpose /\ work'[a].request = work[a].request
        /\ \A b \in Admins \ {a} : work'[b] = work[b]
    BY <1>9, Compared DEF Diff, At
  <2>2. QED BY <2>1 DEF Carrying
<1>10. ASSUME NEW a \in Admins, Commit(a) PROVE G
  <2>1. work[a].purpose \in Purposes /\ work[a].stage = "commit"
    BY <1>10 DEF TypeOK, Works, Commit, At
  <2>2. /\ work'[a].stage = "idle" <=> work[a].purpose \notin {"before", "after"}
        /\ work'[a].stage = "restore" <=> work[a].purpose = "before"
        /\ work'[a].stage = "finish" <=> work[a].purpose = "after"
    BY <1>10, <2>1, Committed DEF Purposes, Afterwards
  <2>3. QED BY <1>10, <2>1, <2>2, Committed DEF Carrying
<1>11. ASSUME NEW a \in Admins, Restore(a) PROVE G
  BY <1>0, <1>11, RestoredIs, NoneApart DEF Purposes
<1>12. ASSUME NEW a \in Admins, Finish(a) \/ Raise(a) PROVE G
  <2>1. /\ work'[a].request = None /\ work'[a].stage \in {"idle", "read"}
        /\ work'[a].stage = "read" => work'[a].purpose = "startup"
        /\ \A b \in Admins \ {a} : work'[b] = work[b]
    BY <1>12, Raised
  <2>2. QED BY <2>1 DEF Carrying
<1>13. ASSUME NEW a \in Admins, ApiRestart(a) PROVE G
  BY <1>13, Restarted DEF Carrying
<1>14. CASE UNCHANGED vars
  BY <1>14 DEF Carrying, vars
<1>15. ASSUME NEW value \in {"off", "on"}, UpdateJobPolicy(value) PROVE G
  BY <1>15, RuleChanged DEF Carrying
<1>16. QED
  BY <1>1, <1>2, <1>3, <1>4, <1>5, <1>6, <1>7, <1>8, <1>9, <1>10, <1>11, <1>12, <1>13, <1>14,
     <1>15
  DEF Next, CommitStep, EditStep

LEMMA OneCarries ==
    ASSUME TypeOK, ReadSoFar, Carrying, OneCarrier, Decided, [Next]_vars
    PROVE  OneCarrier'
<1> DEFINE G == OneCarrier'
<1>0. ASSUME request' = request, restores' = restores,
             \A b \in Admins : /\ work'[b].request = work[b].request
                               /\ work'[b].purpose = work[b].purpose
      PROVE  G
  BY <1>0 DEF OneCarrier
<1>1. ASSUME NEW a \in Admins, EditStep(a) \/ CreateVersion(a) PROVE G
  <2>1. PICK purpose \in {"edit", "manual"} : Starts(a, purpose, None)
    BY <1>1, Edited
  <2>2. Begins(a, purpose, None)
    BY <2>1, Begun DEF Purposes
  <2>3. work[a].request = None /\ UNCHANGED <<request, restores>>
    BY <1>1, Edited DEF Carrying, At
  <2>4. QED BY <2>2, <2>3 DEF OneCarrier, Begins
<1>2. ASSUME NEW a \in Admins, \E r \in Requests, n \in DOMAIN versions : CreateRequest(a, r, n)
      PROVE  G
  <2>1. PICK r \in Requests, n \in DOMAIN versions : CreateRequest(a, r, n)
    BY <1>2
  <2>2. /\ request[r].status = "none" /\ work' = work /\ restores' = restores
        /\ \A q \in Requests \ {r} : request'[q] = request[q]
    BY <2>1, AskedFor DEF CreateRequest
  <2>3. \A b \in Admins : work[b].request # None => work[b].request \in Requests \ {r}
    BY <2>2 DEF OneCarrier, TypeOK, Works
  <2>4. QED BY <2>2, <2>3 DEF OneCarrier
<1>3. ASSUME NEW a \in Admins,
             \E r \in Requests, d \in {"approved", "rejected"} : Decide(a, r, d)
      PROVE  G
  <2>1. PICK r \in Requests, d \in {"approved", "rejected"} : Decide(a, r, d)
    BY <1>3
  <2>2. /\ request[r].status = "pending" /\ work' = work /\ restores' = restores
        /\ \A q \in Requests \ {r} : request'[q] = request[q]
    BY <2>1, DecidedOn DEF Decide
  <2>3. \A b \in Admins : work[b].request # None => work[b].request \in Requests \ {r}
    BY <2>2 DEF OneCarrier, TypeOK, Works
  <2>4. QED BY <2>2, <2>3 DEF OneCarrier
<1>4. ASSUME NEW a \in Admins, \E r \in Requests : Apply(a, r) PROVE G
  <2>1. PICK r \in Requests : Apply(a, r)
    BY <1>4
  <2>2. Begins(a, "before", r)
    BY <2>1, Applies, Begun DEF Purposes
  <2>3. /\ request[r].status = "approved" /\ At(a, "idle") /\ restores' = restores
        /\ request' = [request EXCEPT ![r].status = "applying"]
    BY <2>1, Applies
  <2>4. /\ request'[r].status = "applying"
        /\ \A q \in Requests \ {r} : request'[q] = request[q]
    BY <2>3, Recorded
  <2>5. \A b \in Admins : work[b].request # None => work[b].request \in Requests \ {r}
    BY <2>3 DEF OneCarrier, TypeOK, Works
  <2>6. restores'[r] = 0
    BY <2>3 DEF Decided
  <2>7. \A b \in Admins \ {a} : /\ work'[b].request = work[b].request
                               /\ work'[b].purpose = work[b].purpose
    BY <2>2 DEF Begins
  <2>8. work'[a].request = r /\ work'[a].purpose = "before" /\ r # None
    BY <2>2, NoneApart DEF Begins
  <2>9. QED BY <2>3, <2>4, <2>5, <2>6, <2>7, <2>8 DEF OneCarrier
<1>5. ASSUME NEW a \in Admins, Read(a) PROVE G
  BY <1>0, <1>5, ReadOne DEF Read, TablesUnchanged
<1>6. ASSUME NEW a \in Admins, Write(a) PROVE G
  BY <1>0, <1>6, Moved DEF Write, Committing, TablesUnchanged
<1>7. ASSUME NEW a \in Admins, Replace(a) PROVE G
  BY <1>0, <1>7, Moved DEF Replace, Committing, TablesUnchanged
<1>8. ASSUME NEW a \in Admins, Add(a) PROVE G
  BY <1>0, <1>8, Moved DEF Add, Committing, TablesUnchanged
<1>9. ASSUME NEW a \in Admins, Diff(a) PROVE G
  BY <1>0, <1>9, Compared DEF Diff, TablesUnchanged
<1>10. ASSUME NEW a \in Admins, Commit(a) PROVE G
  BY <1>0, <1>10, Committed DEF Commit, TablesUnchanged
<1>11. ASSUME NEW a \in Admins, Restore(a) PROVE G
  <2>1. Begins(a, "after", work[a].request)
    BY <1>11, RestoredIs, Begun DEF Purposes
  <2>2. /\ work[a].request \in Requests /\ work[a].purpose = "before"
        /\ restores' = [restores EXCEPT ![work[a].request] = @ + 1] /\ request' = request
    BY <1>11, RestoredIs DEF Restore
  <2>3. restores[work[a].request] = 0 /\ request[work[a].request].status = "applying"
        /\ \A b \in Admins \ {a} : work[b].request # work[a].request
    BY <2>2, NoneApart DEF OneCarrier
  <2>4. /\ restores'[work[a].request] = 1
        /\ \A q \in Requests \ {work[a].request} : restores'[q] = restores[q]
    BY <2>2, <2>3 DEF TypeOK
  <2>5. \A b \in Admins \ {a} : work[b].request # None =>
                                 work[b].request \in Requests \ {work[a].request}
    BY <2>3 DEF TypeOK, Works
  <2>6. \A b \in Admins \ {a} : /\ work'[b].request = work[b].request
                               /\ work'[b].purpose = work[b].purpose
    BY <2>1 DEF Begins
  <2>7. work'[a].request = work[a].request /\ work'[a].purpose = "after"
    BY <2>1 DEF Begins
  <2>8. QED BY <2>2, <2>3, <2>4, <2>5, <2>6, <2>7 DEF OneCarrier
<1>12. ASSUME NEW a \in Admins, Finish(a) \/ Raise(a) PROVE G
  <2>1. work'[a].request = None /\ \A b \in Admins \ {a} : work'[b] = work[b]
    BY <1>12, Raised
  <2>2. /\ work[a].request = None => request' = request
        /\ work[a].request # None =>
             \A q \in Requests \ {work[a].request} : request'[q] = request[q]
        /\ restores' = restores
    BY <1>12, Settled
  <2>3. ASSUME NEW b \in Admins \ {a}, work[b].request # None
        PROVE  request'[work[b].request] = request[work[b].request]
    <3>1. work[b].request \in Requests
      BY <2>3 DEF TypeOK, Works
    <3>2. work[a].request # work[b].request
      BY <2>3 DEF OneCarrier
    <3>3. QED BY <2>2, <3>1, <3>2
  <2>4. QED BY <2>1, <2>2, <2>3 DEF OneCarrier
<1>13. ASSUME NEW a \in Admins, ApiRestart(a) PROVE G
  BY <1>13, Restarted DEF OneCarrier
<1>14. CASE UNCHANGED vars
  BY <1>14 DEF OneCarrier, vars
<1>15. ASSUME NEW value \in {"off", "on"}, UpdateJobPolicy(value) PROVE G
  BY <1>0, <1>15, RuleChanged
<1>16. QED
  BY <1>1, <1>2, <1>3, <1>4, <1>5, <1>6, <1>7, <1>8, <1>9, <1>10, <1>11, <1>12, <1>13, <1>14,
     <1>15
  DEF Next, CommitStep, EditStep

LEMMA Decides ==
    ASSUME TypeOK, Carrying, OneCarrier, Decided, RestoredOnceAsDecided, [Next]_vars
    PROVE  (Decided /\ RestoredOnceAsDecided)'
<1> DEFINE G == (Decided /\ RestoredOnceAsDecided)'
<1>0. ASSUME request' = request, restores' = restores PROVE G
  BY <1>0 DEF Decided, RestoredOnceAsDecided
<1>1. ASSUME NEW a \in Admins, EditStep(a) \/ CreateVersion(a) PROVE G
  BY <1>0, <1>1, Edited
<1>2. ASSUME NEW a \in Admins, \E r \in Requests, n \in DOMAIN versions : CreateRequest(a, r, n)
      PROVE  G
  <2>1. PICK r \in Requests, n \in DOMAIN versions : CreateRequest(a, r, n)
    BY <1>2
  <2>2. /\ request'[r].status = "pending" /\ restores[r] = 0 /\ restores' = restores
        /\ \A q \in Requests \ {r} : request'[q] = request[q]
    BY <2>1, AskedFor DEF Decided, CreateRequest
  <2>3. QED BY <2>2 DEF Decided, RestoredOnceAsDecided
<1>3. ASSUME NEW a \in Admins,
             \E r \in Requests, d \in {"approved", "rejected"} : Decide(a, r, d)
      PROVE  G
  <2>1. PICK r \in Requests, d \in {"approved", "rejected"} : Decide(a, r, d)
    BY <1>3
  <2>2. /\ request'[r].status \in {"approved", "rejected"} /\ request'[r].decider = a
        /\ request'[r].by = request[r].by /\ request[r].by # a /\ a # None
        /\ restores[r] = 0 /\ restores' = restores
        /\ \A q \in Requests \ {r} : request'[q] = request[q]
    BY <2>1, DecidedOn, NoneApart DEF Decided, Decide
  <2>3. QED BY <2>2 DEF Decided, RestoredOnceAsDecided
<1>4. ASSUME NEW a \in Admins, \E r \in Requests : Apply(a, r) PROVE G
  <2>1. PICK r \in Requests : Apply(a, r)
    BY <1>4
  <2>2. /\ request'[r].status = "applying" /\ request'[r].decider = request[r].decider
        /\ request'[r].by = request[r].by /\ request[r].status = "approved"
        /\ restores[r] = 0 /\ restores' = restores
        /\ \A q \in Requests \ {r} : request'[q] = request[q]
    BY <2>1, Applies, Recorded DEF Decided
  <2>3. QED BY <2>2 DEF Decided, RestoredOnceAsDecided
<1>5. ASSUME NEW a \in Admins, Read(a) PROVE G
  BY <1>0, <1>5 DEF Read, TablesUnchanged
<1>6. ASSUME NEW a \in Admins, Write(a) PROVE G
  BY <1>0, <1>6 DEF Write, TablesUnchanged
<1>7. ASSUME NEW a \in Admins, Replace(a) PROVE G
  BY <1>0, <1>7 DEF Replace, TablesUnchanged
<1>8. ASSUME NEW a \in Admins, Add(a) PROVE G
  BY <1>0, <1>8 DEF Add, TablesUnchanged
<1>9. ASSUME NEW a \in Admins, Diff(a) PROVE G
  BY <1>0, <1>9 DEF Diff, TablesUnchanged
<1>10. ASSUME NEW a \in Admins, Commit(a) PROVE G
  BY <1>0, <1>10 DEF Commit, TablesUnchanged
<1>11. ASSUME NEW a \in Admins, Restore(a) PROVE G
  <2> DEFINE r == work[a].request
  <2>1. /\ r \in Requests /\ work[a].purpose = "before" /\ request' = request
        /\ restores' = [restores EXCEPT ![r] = @ + 1]
    BY <1>11, RestoredIs DEF Restore
  <2>2. restores[r] = 0 /\ request[r].status = "applying"
    BY <2>1, NoneApart DEF OneCarrier
  <2>3. restores'[r] = 1 /\ \A q \in Requests \ {r} : restores'[q] = restores[q]
    BY <2>1, <2>2 DEF TypeOK
  <2> HIDE DEF r
  <2>4. QED BY <2>1, <2>2, <2>3 DEF Decided, RestoredOnceAsDecided
<1>12. ASSUME NEW a \in Admins, Finish(a) \/ Raise(a) PROVE G
  <2>1. CASE work[a].request = None
    BY <1>0, <1>12, <2>1, Settled
  <2>2. CASE work[a].request # None
    <3> DEFINE r == work[a].request
    <3>1. /\ r \in Requests /\ request'[r].status \in {"applied", "failed"}
          /\ Finish(a) \/ request'[r].status = "failed"
          /\ request'[r].by = request[r].by /\ request'[r].decider = request[r].decider
          /\ \A q \in Requests \ {r} : request'[q] = request[q]
          /\ restores' = restores
      BY <1>12, <2>2, Settled
    <3>2. request[r].status = "applying" /\ (Finish(a) => restores[r] = 1)
      BY <2>2 DEF OneCarrier, Carrying, Finish, At
    <3> HIDE DEF r
    <3>3. QED BY <3>1, <3>2 DEF Decided, RestoredOnceAsDecided
  <2>3. QED BY <2>1, <2>2
<1>13. ASSUME NEW a \in Admins, ApiRestart(a) PROVE G
  BY <1>0, <1>13 DEF ApiRestart
<1>14. CASE UNCHANGED vars
  BY <1>14 DEF Decided, RestoredOnceAsDecided, vars
<1>15. ASSUME NEW value \in {"off", "on"}, UpdateJobPolicy(value) PROVE G
  BY <1>0, <1>15, RuleChanged
<1>16. QED
  BY <1>1, <1>2, <1>3, <1>4, <1>5, <1>6, <1>7, <1>8, <1>9, <1>10, <1>11, <1>12, <1>13, <1>14,
     <1>15
  DEF Next, CommitStep, EditStep

LEMMA Alones ==
    ASSUME TypeOK, ReadSoFar, Carrying, Alone, LatestIsCurrent, [Next]_vars
    PROVE  (Alone /\ LatestIsCurrent)'
<1> DEFINE G == (Alone /\ LatestIsCurrent)'
<1> USE DEF InCommit
<1>a. ASSUME NEW a \in Admins, NEW purpose \in Purposes, NEW r \in Requests \cup {None},
             Starts(a, purpose, r)
      PROVE  G
  <2>1. Begins(a, purpose, r)
    BY <1>a, Begun
  <2>2. Seen(a)' /\ InCommit(a)'
    BY <2>1 DEF Begins, Seen, Unread, Committing
  <2>3. ASSUME NEW b \in Admins, InCommit(b)'
        PROVE  IF work'[b].alone THEN Seen(b)' /\ \A d \in Admins \ {b} : ~InCommit(d)' ELSE doubt'
    <3>1. CASE b = a
      BY <2>1, <2>2, <3>1 DEF Begins
    <3>2. CASE b # a
      BY <2>1, <2>3, <3>2 DEF Begins
    <3>3. QED BY <3>1, <3>2
  <2>4. QED BY <2>2, <2>3 DEF Alone, LatestIsCurrent
<1>b. ASSUME work' = work, UNCHANGED <<config, gitVars, doubt>> PROVE G
  BY <1>b DEF Alone, LatestIsCurrent, Seen, Latest, gitVars
<1>c. ASSUME NEW a \in Admins, InCommit(a), InCommit(a)',
             \A b \in Admins \ {a} : work'[b] = work[b],
             work'[a].alone = work[a].alone, doubt' = doubt,
             work[a].alone /\ Seen(a) => Seen(a)'
      PROVE  G
  <2>1. ASSUME NEW b \in Admins \ {a}, InCommit(b)' PROVE ~work'[b].alone /\ doubt'
    BY <1>c, <2>1 DEF Alone
  <2>2. ASSUME work'[a].alone PROVE Seen(a)' /\ \A b \in Admins \ {a} : ~InCommit(b)'
    BY <1>c, <2>2 DEF Alone
  <2>3. ~work'[a].alone => doubt'
    BY <1>c DEF Alone
  <2>4. QED BY <1>c, <2>1, <2>2, <2>3 DEF Alone, LatestIsCurrent
<1>1. ASSUME NEW a \in Admins, EditStep(a) \/ CreateVersion(a) PROVE G
  <2>1. PICK purpose \in {"edit", "manual"} : Starts(a, purpose, None)
    BY <1>1, Edited
  <2>2. QED BY <1>a, <2>1 DEF Purposes
<1>2. ASSUME NEW a \in Admins, \E r \in Requests, n \in DOMAIN versions : CreateRequest(a, r, n)
      PROVE  G
  BY <1>b, <1>2 DEF CreateRequest
<1>3. ASSUME NEW a \in Admins,
             \E r \in Requests, d \in {"approved", "rejected"} : Decide(a, r, d)
      PROVE  G
  BY <1>b, <1>3 DEF Decide
<1>4. ASSUME NEW a \in Admins, \E r \in Requests : Apply(a, r) PROVE G
  <2>1. PICK r \in Requests : Apply(a, r)
    BY <1>4
  <2>2. QED BY <1>a, <2>1, Applies DEF Purposes
<1>5. ASSUME NEW a \in Admins, Read(a) PROVE G
  <2>1. /\ work[a].stage = "read" /\ work'[a].stage \in {"read", "write"}
        /\ work'[a].alone = work[a].alone /\ doubt' = doubt /\ config' = config
        /\ \A i \in Items : work'[a].content[i] \in {work[a].content[i], config[i]}
        /\ work'[a].stage = "write" => \A i \in Items : work'[a].content[i] # None
        /\ work' \in [Admins -> Works] /\ \A b \in Admins \ {a} : work'[b] = work[b]
    BY <1>5, ReadOne DEF Read, At, TablesUnchanged
  <2>2. ASSUME Seen(a) PROVE Seen(a)'
    <3>1. \A i \in Items : work'[a].content[i] \in {None, config'[i]}
      BY <2>1, <2>2 DEF Seen
    <3>2. ASSUME work'[a].stage = "write" PROVE work'[a].content = config'
      <4>1. \A i \in Items : work'[a].content[i] = config'[i]
        BY <2>1, <3>1, <3>2
      <4>2. /\ work'[a].content \in [Items -> {"none", "off", "on", None}]
            /\ config' \in [Items -> {"none", "off", "on"}]
        BY <2>1 DEF Works, TypeOK, Configs
      <4>3. QED BY <4>1, <4>2
    <3>3. QED BY <2>1, <3>1, <3>2 DEF Seen
  <2>3. QED BY <1>c, <2>1, <2>2 DEF Committing
<1>6. ASSUME NEW a \in Admins, Write(a) PROVE G
  <2>1. /\ work[a].stage = "write" /\ work'[a].stage = "replace"
        /\ work'[a].content = work[a].content /\ work'[a].alone = work[a].alone
        /\ doubt' = doubt /\ config' = config
        /\ \A b \in Admins \ {a} : work'[b] = work[b]
    BY <1>6, Moved DEF Write, At, Committing, TablesUnchanged
  <2>2. Seen(a) => Seen(a)'
    BY <1>6, <2>1 DEF Seen, Write, Latest
  <2>3. QED BY <1>c, <2>1, <2>2 DEF Committing
<1>7. ASSUME NEW a \in Admins, Replace(a) PROVE G
  <2>1. /\ work[a].stage = "replace" /\ work'[a].stage = "add"
        /\ work'[a].content = work[a].content /\ work'[a].alone = work[a].alone
        /\ doubt' = doubt /\ config' = config
        /\ \A b \in Admins \ {a} : work'[b] = work[b]
    BY <1>7, Moved DEF Replace, At, Committing, TablesUnchanged
  <2>2. Seen(a) => Seen(a)'
    BY <1>7, <2>1 DEF Seen, Replace, Latest
  <2>3. QED BY <1>c, <2>1, <2>2 DEF Committing
<1>8. ASSUME NEW a \in Admins, Add(a) PROVE G
  <2>1. /\ work[a].stage = "add" /\ work'[a].stage = "diff"
        /\ work'[a].content = work[a].content /\ work'[a].alone = work[a].alone
        /\ doubt' = doubt /\ config' = config
        /\ \A b \in Admins \ {a} : work'[b] = work[b]
    BY <1>8, Moved DEF Add, At, Committing, TablesUnchanged
  <2>2. Seen(a) => Seen(a)'
    BY <1>8, <2>1 DEF Seen, Add, Latest
  <2>3. QED BY <1>c, <2>1, <2>2 DEF Committing
<1>9. ASSUME NEW a \in Admins, Diff(a) PROVE G
  <2>1. /\ work[a].stage = "diff" /\ work'[a].stage = "commit"
        /\ work'[a].content = work[a].content /\ work'[a].alone = work[a].alone
        /\ work'[a].changed = (index # Latest)
        /\ doubt' = doubt /\ config' = config /\ UNCHANGED <<file, index, versions>>
        /\ \A b \in Admins \ {a} : work'[b] = work[b]
    BY <1>9, Compared DEF Diff, At, TablesUnchanged, gitVars
  <2>2. Seen(a) => Seen(a)'
    BY <2>1 DEF Seen, Latest
  <2>3. QED BY <1>c, <2>1, <2>2 DEF Committing
<1>10. ASSUME NEW a \in Admins, Commit(a) PROVE G
  <2>1. /\ work[a].stage = "commit" /\ work'[a].stage \notin Committing
        /\ \A b \in Admins \ {a} : work'[b] = work[b]
        /\ doubt' = (doubt /\ ~work[a].alone) /\ config' = config
        /\ versions' \in {versions, Append(versions, index)}
        /\ work[a].changed => versions' = Append(versions, index)
    BY <1>10, Committed DEF Commit, At, TablesUnchanged, Committing
  <2>2. CASE work[a].alone
    <3>1. index = config /\ (work[a].changed <=> index # Latest)
          /\ \A b \in Admins \ {a} : ~InCommit(b)
      BY <2>1, <2>2 DEF Alone, Seen, Committing
    <3>2. CASE versions' = Append(versions, index)
      <4>1. versions \in Seq(Configs) /\ index \in Configs
        BY DEF TypeOK
      <4>2. versions'[Len(versions')] = index
        BY <3>2, <4>1
      <4>3. QED BY <2>1, <3>1, <4>2 DEF Alone, LatestIsCurrent
    <3>3. CASE versions' = versions /\ ~work[a].changed
      BY <2>1, <3>1, <3>3 DEF Alone, LatestIsCurrent, Latest
    <3>4. QED BY <2>1, <3>2, <3>3
  <2>3. CASE ~work[a].alone
    <3>1. doubt /\ doubt'
      BY <2>1, <2>3 DEF Alone, Committing, TypeOK
    <3>2. ASSUME NEW b \in Admins \ {a}, InCommit(b)' PROVE ~work'[b].alone
      BY <2>1, <3>2 DEF Alone, Committing
    <3>3. QED BY <2>1, <3>1, <3>2 DEF Alone, LatestIsCurrent
  <2>4. QED BY <2>2, <2>3
<1>11. ASSUME NEW a \in Admins, Restore(a) PROVE G
  BY <1>a, <1>11, RestoredIs DEF Purposes
<1>12. ASSUME NEW a \in Admins, Finish(a) \/ Raise(a) PROVE G
  <2>1. /\ work'[a].stage \in {"idle", "read"} /\ ~work'[a].alone
        /\ work'[a].stage = "read" => InCommit(a) /\ doubt'
        /\ \A b \in Admins \ {a} : work'[b] = work[b]
    BY <1>12, Raised
  <2>2. UNCHANGED <<config, tmp, file, index, versions>> /\ doubt' \in {doubt, TRUE}
    BY <1>12, Settled DEF gitVars
  <2>3. ASSUME NEW b \in Admins \ {a}, InCommit(b)'
        PROVE  /\ work'[b].alone => Seen(b)' /\ \A d \in Admins \ {b} : ~InCommit(d)'
               /\ ~work'[b].alone => doubt'
    <3>0. work'[b] = work[b] /\ InCommit(b)
      BY <2>1, <2>3
    <3>1. CASE work[b].alone
      <4>1. Seen(b) /\ \A d \in Admins \ {b} : ~InCommit(d)
        BY <2>1, <2>3, <3>1 DEF Alone
      <4>2. \A d \in Admins \ {b} : ~InCommit(d)'
        BY <2>1, <4>1 DEF Committing
      <4>3. Seen(b)'
        BY <2>1, <2>2, <4>1 DEF Seen, Latest
      <4>4. QED BY <3>0, <3>1, <4>2, <4>3
    <3>2. CASE ~work[b].alone
      <4>1. doubt
        BY <3>0, <3>2 DEF Alone
      <4>2. QED BY <2>2, <3>0, <3>2, <4>1
    <3>3. QED BY <3>1, <3>2
  <2>4. InCommit(a)' => doubt'
    BY <2>1 DEF Committing
  <2>5. ASSUME \A b \in Admins : ~InCommit(b)', ~doubt' PROVE versions'[Len(versions')] = config'
    <3>1. Finish(a)
      BY <1>12, <2>5 DEF Raise
    <3>2. \A b \in Admins : ~InCommit(b)
      BY <2>1, <2>5, <3>1 DEF Finish, At, Committing
    <3>3. QED BY <2>2, <2>5, <3>1, <3>2 DEF LatestIsCurrent, Finish
  <2>6. QED BY <2>1, <2>3, <2>4, <2>5 DEF Alone, LatestIsCurrent
<1>13. ASSUME NEW a \in Admins, ApiRestart(a) PROVE G
  <2>1. /\ doubt' /\ work'[a].stage = "read" /\ work'[a].content = Unread
        /\ \A b \in Admins \ {a} : work'[b].stage = "idle"
    BY <1>13, Restarted
  <2>2. Seen(a)'
    BY <2>1 DEF Seen, Unread
  <2>3. QED BY <2>1, <2>2 DEF Alone, LatestIsCurrent, Committing
<1>14. CASE UNCHANGED vars
  BY <1>14 DEF Alone, LatestIsCurrent, Seen, Latest, vars, gitVars
<1>15. ASSUME NEW value \in {"off", "on"}, UpdateJobPolicy(value) PROVE G
  BY <1>15, RuleChanged DEF Alone, LatestIsCurrent
<1>16. QED
  BY <1>1, <1>2, <1>3, <1>4, <1>5, <1>6, <1>7, <1>8, <1>9, <1>10, <1>11, <1>12, <1>13, <1>14,
     <1>15
  DEF Next, CommitStep, EditStep

-----------------------------------------------------------------------------
LEMMA Start == Init => Inv
<1> SUFFICES ASSUME Init PROVE Inv
  OBVIOUS
<1>1. Base \in Configs
  BY DEF Base, Configs, Values
<1>2. NoRequest \in Asked /\ NoRequest.status = "none" /\ NoRequest.version = 1
  BY DEF NoRequest, Asked
<1>3. TypeOK
  <2>1. versions \in Seq(Configs) /\ versions # <<>> /\ DOMAIN versions = {1}
    BY <1>1 DEF Init
  <2>2. edits \in 0..MaxEdits /\ faults \in 0..MaxFaults
    BY ConfigAssumption DEF Init
  <2>3. QED BY <1>1, <1>2, <2>1, <2>2, IdleIs DEF Init, TypeOK
<1>4. ReadSoFar /\ Carrying /\ OneCarrier
  BY IdleIs DEF Init, ReadSoFar, Carrying, OneCarrier, Unread
<1>5. Decided /\ RestoredOnceAsDecided
  BY <1>2 DEF Init, Decided, RestoredOnceAsDecided
<1>6. Alone /\ LatestIsCurrent
  <2>1. \A a \in Admins : ~InCommit(a)
    BY IdleIs DEF Init, InCommit, Committing
  <2>2. versions[Len(versions)] = config
    BY <1>1 DEF Init
  <2>3. QED BY <2>1, <2>2 DEF Alone, LatestIsCurrent
<1>7. QED BY <1>3, <1>4, <1>5, <1>6 DEF Inv

LEMMA Invariance == Spec => []Inv
<1>1. Inv /\ [Next]_vars => Inv'
  BY Types, Reads, Carrier, OneCarries, Decides, Alones DEF Inv
<1>2. QED BY Start, <1>1, PTL DEF Spec

\* The tables, the work tree, the versions and the requests keep their types, and a
\* request names a version there is.
THEOREM TypeCorrect == Spec => []TypeOK
BY Invariance, PTL DEF Inv

\* apply_config_restore_request carries out no request twice, none before another
\* administrator has approved it, and calls none applied that was not carried out.
THEOREM RestoredOnce == Spec => []RestoredOnceAsDecided
BY Invariance, PTL DEF Inv

\* The last commit is the configuration when no commit is under way, unless commits
\* failed or overlapped, or the policy of a job changed a rule, since the last that
\* was alone.
THEOREM Latests == Spec => []LatestIsCurrent
BY Invariance, PTL DEF Inv

-----------------------------------------------------------------------------
(* The refinement                                                           *)

Orders == [r \in Requests |-> Order(r)]

LEMMA OneOrder ==
    ASSUME NEW r \in Requests, NEW o, Order(r)' = o,
           \A q \in Requests \ {r} : Order(q)' = Order(q)
    PROVE  Orders' = [Orders EXCEPT ![r] = o]
<1>1. \A q \in Requests : Order(q)' = IF q = r THEN o ELSE Order(q)
  OBVIOUS
<1> DEFINE was(q) == Order(q)
           is(q) == Order(q)'
<1>2. \A q \in Requests : is(q) = IF q = r THEN o ELSE was(q)
  BY <1>1
<1> HIDE DEF was, is
<1>3. [q \in Requests |-> is(q)] = [[q \in Requests |-> was(q)] EXCEPT ![r] = o]
  BY <1>2
<1>4. QED BY <1>3 DEF Orders, was, is

\* A request that stays as it is and is not carried out keeps its place, for what
\* was archived stays.
LEMMA OrderStays ==
    ASSUME TypeOK, NEW q \in Requests, request'[q] = request[q], restores'[q] = restores[q],
           versions' = versions \/ versions' = Append(versions, index)
    PROVE  Order(q)' = Order(q)
<1>1. request[q].version \in 1..Len(versions) /\ versions \in Seq(Configs)
  BY DEF TypeOK
<1>2. versions'[request[q].version] = versions[request[q].version]
  BY <1>1
<1>3. QED BY <1>2 DEF Order, Outcome

LEMMA OrdersStay ==
    ASSUME TypeOK, request' = request, restores' = restores,
           versions' = versions \/ versions' = Append(versions, index)
    PROVE  Orders' = Orders
<1>1. \A q \in Requests : Order(q)' = Order(q)
  BY OrderStays
<1> DEFINE was(q) == Order(q)
           is(q) == Order(q)'
<1>2. \A q \in Requests : is(q) = was(q)
  BY <1>1
<1> HIDE DEF was, is
<1>3. [q \in Requests |-> is(q)] = [q \in Requests |-> was(q)]
  BY <1>2
<1>4. QED BY <1>3 DEF Orders, was, is

LEMMA OneSection ==
    ASSUME TypeOK, NEW a \in Admins, EditStep(a)
    PROVE  \E i \in Items : \A j \in Items \ {i} : config'[j] = config[j]
<1>1. ASSUME NEW i, NEW from, NEW to, Changes(a, i, from, to)
      PROVE  \E k \in Items : \A j \in Items \ {k} : config'[j] = config[j]
  BY <1>1 DEF Changes, TypeOK, Configs
<1>2. CASE InsertHost(a) \/ DisableHost(a)
  BY <1>1, <1>2 DEF InsertHost, DisableHost
<1>3. CASE CreateRule(a) \/ DeleteRule(a) \/ CreateGroup(a) \/ DeleteGroup(a)
  BY <1>1, <1>3 DEF CreateRule, DeleteRule, CreateGroup, DeleteGroup
<1>4. ASSUME NEW value \in {"off", "on"},
             UpdateRule(a, value) \/ UpdateGroup(a, value) \/ UpdatePolicy(a, value)
      PROVE  \E k \in Items : \A j \in Items \ {k} : config'[j] = config[j]
  BY <1>1, <1>4 DEF UpdateRule, UpdateGroup, UpdatePolicy
<1>5. QED BY <1>2, <1>3, <1>4 DEF EditStep

LEMMA AskIsAsk ==
    ASSUME Inv, NEW a \in Admins, NEW r \in Requests, NEW n \in DOMAIN versions,
           CreateRequest(a, r, n)
    PROVE  Promise!Ask(r, a, n)
<1>1. /\ TypeOK /\ request[r].status = "none" /\ restores[r] = 0
      /\ restores' = restores /\ versions' = versions /\ config' = config
  BY AskedFor DEF Inv, Decided, CreateRequest, gitVars
<1>2. /\ request'[r].status = "pending" /\ request'[r].version = n
      /\ request'[r].by = a /\ request'[r].decider = None
      /\ \A q \in Requests \ {r} : request'[q] = request[q]
  BY <1>1, AskedFor
<1>3. \A q \in Requests \ {r} : Order(q)' = Order(q)
  BY <1>1, <1>2, OrderStays
<1>4. Order(r)' = [stage |-> "asked", target |-> versions[n], by |-> a, decider |-> None]
  BY <1>1, <1>2 DEF Order, Outcome
<1>5. Orders' = [Orders EXCEPT ![r] = [stage |-> "asked", target |-> versions[n], by |-> a,
                                       decider |-> None]]
  BY <1>3, <1>4, OneOrder
<1>6. Orders[r].stage = "none"
  BY <1>1 DEF Orders, Order, Outcome
<1>7. QED BY <1>1, <1>5, <1>6 DEF Promise!Ask, Orders

LEMMA DecideIsDecide ==
    ASSUME Inv, NEW a \in Admins, NEW r \in Requests,
           NEW decision \in {"approved", "rejected"}, Decide(a, r, decision)
    PROVE  Promise!Decide(r, a, decision)
<1>1. /\ TypeOK /\ request[r].status = "pending" /\ request[r].by # a /\ restores[r] = 0
      /\ restores' = restores /\ versions' = versions /\ config' = config
  BY DecidedOn DEF Inv, Decided, Decide, gitVars
<1>2. /\ request'[r].status = decision /\ request'[r].version = request[r].version
      /\ request'[r].by = request[r].by /\ request'[r].decider = a
      /\ \A q \in Requests \ {r} : request'[q] = request[q]
  BY <1>1, DecidedOn
<1>3. \A q \in Requests \ {r} : Order(q)' = Order(q)
  BY <1>1, <1>2, OrderStays
<1>4. /\ Orders[r] = Order(r) /\ Order(r).stage = "asked" /\ Order(r).by = request[r].by
      /\ Order(r).target = versions[request[r].version]
  BY <1>1 DEF Orders, Order, Outcome
<1>5. Order(r)' = [stage |-> decision, target |-> Orders[r].target, by |-> Orders[r].by,
                   decider |-> a]
  BY <1>1, <1>2, <1>4 DEF Order, Outcome
<1>6. Orders' = [Orders EXCEPT ![r] = [stage |-> decision, target |-> @.target, by |-> @.by,
                                       decider |-> a]]
  BY <1>3, <1>5, OneOrder
<1>7. QED BY <1>1, <1>4, <1>6 DEF Promise!Decide, Orders

\* The transaction over the tables writes what was a version when it was asked for.
LEMMA RestoreIsCarryOut ==
    ASSUME Inv, NEW a \in Admins, Restore(a)
    PROVE  Promise!CarryOut(work[a].request)
<1>0. PICK r \in Requests : r = work[a].request
  BY RestoredIs DEF Inv
<1> DEFINE target == versions[request[r].version]
<1>1. /\ TypeOK /\ config' \in Configs /\ config' = Restored(target)
      /\ request' = request /\ versions' = versions
      /\ restores' = [restores EXCEPT ![r] = @ + 1] /\ work[a].purpose = "before"
  BY <1>0, RestoredIs DEF Inv, Restore, gitVars
<1>2. restores[r] = 0 /\ request[r].status = "applying"
  BY <1>0, <1>1, NoneApart DEF Inv, OneCarrier
<1>3. restores'[r] = 1 /\ \A q \in Requests \ {r} : restores'[q] = restores[q]
  BY <1>1, <1>2 DEF TypeOK
<1>4. \A q \in Requests \ {r} : Order(q)' = Order(q)
  BY <1>1, <1>3, OrderStays
<1>5. Orders[r] = Order(r) /\ Order(r).stage = "approved" /\ Order(r).target = target
  BY <1>1, <1>2 DEF Orders, Order, Outcome
<1>6. Order(r)' = [Orders[r] EXCEPT !.stage = "carried"]
  BY <1>1, <1>3, <1>5 DEF Order, Outcome
<1>7. Orders' = [Orders EXCEPT ![r].stage = "carried"]
  BY <1>1, <1>4, <1>6, OneOrder
<1>8. ASSUME NEW i \in Items
      PROVE  \/ config'[i] = target[i]
             \/ target[i] = "none" /\ config[i] # "none" /\ config'[i] \in {config[i], "off"}
  BY <1>1 DEF Restored
<1> HIDE DEF target
<1>9. QED BY <1>0, <1>1, <1>5, <1>7, <1>8 DEF Promise!CarryOut, Orders

\* A restore that fails is given up if it had not restored; if it had, and when it
\* succeeds, the request is carried out already.
LEMMA SettlingIsDrop ==
    ASSUME Inv, NEW a \in Admins, Finish(a) \/ Raise(a)
    PROVE  Promise!Next \/ UNCHANGED Promise!vars
<1>1. TypeOK /\ Carrying /\ UNCHANGED <<config, versions, restores>>
  BY Settled DEF Inv, gitVars
<1>2. CASE work[a].request = None
  BY <1>1, <1>2, Settled, OrdersStay DEF Promise!vars, Orders
<1>3. CASE work[a].request # None
  <2>0. PICK r \in Requests : r = work[a].request
    BY <1>1, <1>3, Settled
  <2>1. /\ request'[r].status \in {"applied", "failed"}
        /\ Finish(a) \/ request'[r].status = "failed"
        /\ request'[r].version = request[r].version
        /\ request'[r].by = request[r].by /\ request'[r].decider = request[r].decider
        /\ \A q \in Requests \ {r} : request'[q] = request[q]
    BY <1>1, <1>3, <2>0, Settled
  <2>2. /\ request[r].status = "applying" /\ restores[r] \in {0, 1}
        /\ restores[r] = IF work[a].purpose = "after" THEN 1 ELSE 0
    BY <1>3, <2>0 DEF Inv, OneCarrier
  <2>3. \A q \in Requests \ {r} : Order(q)' = Order(q)
    BY <1>1, <2>1, OrderStays
  <2>4. Orders[r] = Order(r) /\ Order(r).target = versions[request[r].version]
    BY <2>1 DEF Orders, Order
  <2>5. CASE restores[r] = 1
    <3>1. Order(r)' = Orders[r]
      BY <1>1, <2>1, <2>4, <2>5 DEF Order, Outcome
    <3>2. Orders' = [Orders EXCEPT ![r] = Orders[r]]
      BY <2>1, <2>3, <3>1, OneOrder
    <3>3. Orders' = Orders
      BY <2>1, <3>2 DEF Orders
    <3>4. QED BY <1>1, <3>3 DEF Promise!vars, Orders
  <2>6. CASE restores[r] = 0
    <3>1. ~Finish(a)
      BY <2>2, <2>6 DEF Finish, Inv, Carrying, At
    <3>2. Order(r).stage = "approved"
      BY <2>2, <2>6 DEF Order, Outcome
    <3>3. Order(r)' = [Orders[r] EXCEPT !.stage = "dropped"]
      BY <1>1, <2>1, <2>4, <2>6, <3>1, <3>2 DEF Order, Outcome
    <3>4. Orders' = [Orders EXCEPT ![r].stage = "dropped"]
      BY <2>1, <2>3, <3>3, OneOrder
    <3>5. Promise!Drop(r)
      BY <1>1, <2>4, <3>2, <3>4 DEF Promise!Drop, Orders
    <3>6. QED BY <2>1, <3>5 DEF Promise!Next
  <2>7. QED BY <2>2, <2>5, <2>6
<1>4. QED BY <1>2, <1>3

LEMMA PromiseStep ==
    ASSUME Inv, [Next]_vars
    PROVE  [Promise!Next]_(Promise!vars)
<1> DEFINE G == Promise!Next \/ UNCHANGED Promise!vars
<1>0. /\ TypeOK /\ Carrying
      /\ UNCHANGED <<config, versions, request, restores>> => UNCHANGED Promise!vars
  BY OrdersStay DEF Inv, Promise!vars, Orders
<1>1. ASSUME NEW a \in Admins, EditStep(a) PROVE G
  <2>1. config' \in Configs /\ UNCHANGED <<versions, request, restores>>
    BY <1>0, <1>1, Edited DEF gitVars
  <2>2. PICK i \in Items : \A j \in Items \ {i} : config'[j] = config[j]
    BY <1>0, <1>1, OneSection
  <2>3. Orders' = Orders
    BY <1>0, <2>1, OrdersStay
  <2>4. Promise!Change(i)
    BY <2>1, <2>2, <2>3 DEF Promise!Change, Orders
  <2>5. QED BY <2>4 DEF Promise!Next
<1>2. ASSUME NEW a \in Admins, \E r \in Requests, n \in DOMAIN versions : CreateRequest(a, r, n)
      PROVE  G
  BY <1>2, AskIsAsk DEF Promise!Next
<1>3. ASSUME NEW a \in Admins,
             \E r \in Requests, d \in {"approved", "rejected"} : Decide(a, r, d)
      PROVE  G
  BY <1>3, DecideIsDecide DEF Promise!Next
<1>4. ASSUME NEW a \in Admins, NEW r \in Requests, Apply(a, r) PROVE G
  <2>1. /\ request[r].status = "approved" /\ restores[r] = 0
        /\ request' = [request EXCEPT ![r].status = "applying"]
        /\ UNCHANGED <<config, versions, restores>>
    BY <1>0, <1>4, Applies DEF Inv, Decided, gitVars
  <2>2. /\ request'[r].status = "applying" /\ request'[r].version = request[r].version
        /\ request'[r].by = request[r].by /\ request'[r].decider = request[r].decider
        /\ \A q \in Requests \ {r} : request'[q] = request[q]
    BY <1>0, <1>4, <2>1, Recorded
  <2>3. \A q \in Requests \ {r} : Order(q)' = Order(q)
    BY <1>0, <2>1, <2>2, OrderStays
  <2>4. Order(r)' = Orders[r]
    BY <2>1, <2>2 DEF Order, Outcome, Orders
  <2>5. Orders' = [Orders EXCEPT ![r] = Orders[r]]
    BY <2>3, <2>4, OneOrder
  <2>6. Orders' = Orders
    BY <2>5 DEF Orders
  <2>7. QED BY <2>1, <2>6 DEF Promise!vars, Orders
<1>5. ASSUME NEW a \in Admins, Read(a) \/ Write(a) \/ Replace(a) \/ Add(a) \/ Diff(a) PROVE G
  BY <1>0, <1>5 DEF Read, Write, Replace, Add, Diff, TablesUnchanged, gitVars
<1>6. ASSUME NEW a \in Admins, Commit(a) PROVE G
  <2>1. UNCHANGED <<config, request, restores>> /\ index \in Configs
    BY <1>0, <1>6 DEF Commit, TablesUnchanged, TypeOK
  <2>2. CASE versions' = versions
    BY <1>0, <2>1, <2>2
  <2>3. CASE versions' = Append(versions, index)
    <3>1. Orders' = Orders
      BY <1>0, <2>1, <2>3, OrdersStay
    <3>2. Promise!Keep(index)
      BY <2>1, <2>3, <3>1 DEF Promise!Keep, Orders
    <3>3. QED BY <2>1, <3>2 DEF Promise!Next
  <2>4. QED BY <1>6, <2>2, <2>3 DEF Commit
<1>7. ASSUME NEW a \in Admins, Restore(a) PROVE G
  BY <1>0, <1>7, RestoredIs, RestoreIsCarryOut DEF Promise!Next
<1>8. ASSUME NEW a \in Admins, Finish(a) \/ Raise(a) PROVE G
  BY <1>8, SettlingIsDrop
<1>9. ASSUME NEW a \in Admins, CreateVersion(a) PROVE G
  BY <1>0, <1>9 DEF CreateVersion, gitVars
<1>10. CASE UNCHANGED vars
  BY <1>0, <1>10 DEF vars, gitVars
<1>11. ASSUME NEW a \in Admins, ApiRestart(a) PROVE G
  <2>1. /\ config' \in Configs
        /\ \A i \in Items : config[i] # "none" => config'[i] = config[i]
        /\ UNCHANGED <<versions, request, restores>>
    BY <1>0, <1>11, Completed DEF gitVars
  <2>2. Orders' = Orders
    BY <1>0, <2>1, OrdersStay
  <2>3. Promise!Complete
    BY <2>1, <2>2 DEF Promise!Complete, Orders
  <2>4. QED BY <2>3 DEF Promise!Next
<1>12. ASSUME NEW value \in {"off", "on"}, UpdateJobPolicy(value) PROVE G
  <2>1. /\ "rule" \in Items /\ config' \in Configs
        /\ \A i \in Items \ {"rule"} : config'[i] = config[i]
        /\ UNCHANGED <<versions, request, restores>>
    BY <1>0, <1>12, RuleChanged DEF gitVars
  <2>2. Orders' = Orders
    BY <1>0, <2>1, OrdersStay
  <2>3. Promise!Change("rule")
    BY <2>1, <2>2 DEF Promise!Change, Orders
  <2>4. QED BY <2>1, <2>3 DEF Promise!Next
<1> HIDE DEF G
<1>13. ASSUME Next PROVE G
  BY <1>1, <1>2, <1>3, <1>4, <1>5, <1>6, <1>7, <1>8, <1>9, <1>11, <1>12, <1>13
  DEF Next, CommitStep, EditStep
<1>14. QED BY <1>10, <1>13 DEF G

\* The calls, commits and restarts implement RestorePromise: the archive is only
\* added to, and but for changes of one section and what a start completes the
\* configuration becomes only what somebody else has approved, once, as it was
\* archived when it was asked for.
THEOREM Refinement == Spec => ImplementsRestorePromise
<1>1. Init => Promise!Init
  <2> SUFFICES ASSUME Init PROVE Promise!Init
    OBVIOUS
  <2>1. TypeOK /\ config = Base /\ versions = <<Base>>
    BY Start DEF Inv, Init
  <2>2. \A r \in Requests : Order(r) = [stage |-> "none", target |-> config, by |-> None,
                                        decider |-> None]
    BY <2>1 DEF Init, Order, Outcome, NoRequest
  <2>3. QED BY <2>1, <2>2 DEF Promise!Init, TypeOK
<1>2. QED BY <1>1, Invariance, PromiseStep, PTL DEF Spec, ImplementsRestorePromise, Promise!Spec
=============================================================================
