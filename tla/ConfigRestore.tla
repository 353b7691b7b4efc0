---------------------------- MODULE ConfigRestore ----------------------------
(***************************************************************************)
(* Versions of the configuration and their restore (backend/app/main.py).   *)
(* A successful change of hosts, rules, groups and password policy on a      *)
(* versioned route is followed by a commit to one Git work tree, in a        *)
(* thread, with no lock: the tables are read one after the other, a file is  *)
(* written under a fixed temporary name, renamed, staged, compared and       *)
(* committed.  The policies of three jobs write to a rule on other routes.   *)
(* A restore that another administrator has approved commits, writes the     *)
(* tables in one transaction, and commits again.                             *)
(*                                                                           *)
(* A section of the configuration is one host, rule, group or the policy.    *)
(* The ids a commit returns, timestamps and messages are left out.           *)
(***************************************************************************)
EXTENDS Naturals, Sequences

CONSTANTS
    Admins, Requests,
    Sections,   \* in the order configuration_snapshot reads them
    MaxEdits,   \* bound on changes, manual snapshots and starts that add something
    MaxFaults,  \* bound on failing commands or statements and restarts
    None

Items == {Sections[n] : n \in DOMAIN Sections}

ASSUME ConfigAssumption ==
    /\ Sections \in Seq({"host", "rule", "group", "policy"})
    /\ None \notin Requests \cup Admins \cup {"none", "off", "on"}
    /\ MaxEdits \in Nat /\ MaxFaults \in Nat

VARIABLES
    config,    \* the tables: "none" is no row, "off" and "on" what it says
    tmp, file, \* config.json.tmp and config.json in the work tree
    index,     \* config.json as staged
    versions,  \* config.json of each commit
    work,      \* what each administrator's call is doing
    request,   \* config_restore_requests
    restores,  \* history: how often each request was carried out
    doubt,     \* history: a commit failed or overlapped, or a change had none, and no
               \* commit was clean since
    edits, faults  \* how many of the bounds are used

gitVars == <<tmp, file, index, versions>>
vars == <<config, gitVars, work, request, restores, doubt, edits, faults>>

-----------------------------------------------------------------------------
Values(i) == IF i = "policy" THEN {"off", "on"} ELSE {"none", "off", "on"}
Configs   == {c \in [Items -> {"none", "off", "on"}] : \A i \in Items : c[i] \in Values(i)}
Unread    == [i \in Items |-> None]

Committing == {"read", "write", "replace", "add", "diff", "commit"}
Purposes   == {"edit", "manual", "startup", "before", "after"}
Forced     == {"manual", "before", "after"}

Idle == [stage |-> "idle", purpose |-> "edit", content |-> Unread, changed |-> FALSE,
         alone |-> FALSE, request |-> None]
NoRequest == [status |-> "none", version |-> 1, by |-> None, decider |-> None]

Works ==
    [stage : Committing \cup {"idle", "restore", "finish"}, purpose : Purposes,
     content : [Items -> {"none", "off", "on", None}], changed : BOOLEAN, alone : BOOLEAN,
     request : Requests \cup {None}]

Asked ==
    [status : {"none", "pending", "approved", "rejected", "applying", "applied", "failed"},
     version : Nat, by : Admins \cup {None}, decider : Admins \cup {None}]

TypeOK ==
    /\ config \in Configs
    /\ tmp \in Configs \cup {None} /\ file \in Configs /\ index \in Configs
    /\ versions \in Seq(Configs) /\ versions # <<>>
    /\ work \in [Admins -> Works]
    /\ request \in [Requests -> Asked]
    /\ \A r \in Requests : request[r].version \in DOMAIN versions
    /\ restores \in [Requests -> Nat]
    /\ doubt \in BOOLEAN
    /\ edits \in 0..MaxEdits /\ faults \in 0..MaxFaults

Base == [i \in Items |-> IF i = "policy" THEN "off" ELSE "none"]

\* After the commit of the first start.
Init ==
    /\ config = Base /\ tmp = None /\ file = Base /\ index = Base
    /\ versions = <<Base>>
    /\ work = [a \in Admins |-> Idle]
    /\ request = [r \in Requests |-> NoRequest]
    /\ restores = [r \in Requests |-> 0]
    /\ doubt = FALSE
    /\ edits = 0 /\ faults = 0

Fault == faults < MaxFaults /\ faults' = faults + 1
Serving == \A a \in Admins : work[a].stage # "idle" => work[a].purpose # "startup"
InCommit(a) == work[a].stage \in Committing
At(a, stage) == work[a].stage = stage

\* A commit begins; one that is under way is no longer alone.
Starts(a, purpose, r) ==
    LET others == {b \in Admins \ {a} : InCommit(b)} IN
    /\ work' = [b \in Admins |->
                  IF b = a THEN [Idle EXCEPT !.stage = "read", !.purpose = purpose,
                                             !.alone = (others = {}), !.request = r]
                  ELSE [work[b] EXCEPT !.alone = FALSE]]
    /\ doubt' = (doubt \/ others # {})

-----------------------------------------------------------------------------
(* Changes and requests                                                     *)

\* version_control_changes: a change is committed after its answer is ready.
Changes(a, i, from, to) ==
    /\ Serving /\ At(a, "idle") /\ edits < MaxEdits
    /\ i \in Items /\ config[i] \in from
    /\ config' = [config EXCEPT ![i] = to]
    /\ Starts(a, "edit", None)
    /\ edits' = edits + 1
    /\ UNCHANGED <<gitVars, request, restores, faults>>

\* A disabled host is enabled again by adding it; it is never deleted.
InsertHost(a) == Changes(a, "host", {"none", "off"}, "on")
DisableHost(a) == Changes(a, "host", {"on"}, "off")

CreateRule(a) == Changes(a, "rule", {"none"}, "on")
UpdateRule(a, value) == Changes(a, "rule", {"off", "on"} \ {value}, value)
DeleteRule(a) == Changes(a, "rule", {"off", "on"}, "none")

\* A group is "off" with fewer permissions; one with members is not deleted.
CreateGroup(a) == Changes(a, "group", {"none"}, "on")
UpdateGroup(a, value) == Changes(a, "group", {"off", "on"} \ {value}, value)
DeleteGroup(a) == Changes(a, "group", {"off", "on"}, "none")

UpdatePolicy(a, value) == Changes(a, "policy", {"off", "on"} \ {value}, value)

\* The policy of the updates, the security baseline or the log collection brings its
\* rule along, and VERSIONED_CONFIG_ROUTE does not match: no commit begins.  One that
\* is under way has perhaps read the rule already.
UpdateJobPolicy(value) ==
    /\ Serving /\ edits < MaxEdits
    /\ "rule" \in Items /\ config["rule"] \in {"off", "on"} \ {value}
    /\ config' = [config EXCEPT !["rule"] = value]
    /\ work' = [b \in Admins |-> [work[b] EXCEPT !.alone = FALSE]]
    /\ doubt' = TRUE
    /\ edits' = edits + 1
    /\ UNCHANGED <<gitVars, request, restores, faults>>

CreateVersion(a) ==
    /\ Serving /\ At(a, "idle") /\ edits < MaxEdits
    /\ Starts(a, "manual", None)
    /\ edits' = edits + 1
    /\ UNCHANGED <<config, gitVars, request, restores, faults>>

CreateRequest(a, r, n) ==
    /\ Serving /\ request[r].status = "none"
    /\ request' = [request EXCEPT ![r] = [NoRequest EXCEPT !.status = "pending", !.version = n,
                                                           !.by = a]]
    /\ UNCHANGED <<config, gitVars, work, restores, doubt, edits, faults>>

Decide(a, r, decision) ==
    /\ Serving /\ request[r].status = "pending" /\ request[r].by # a
    /\ request' = [request EXCEPT ![r].status = decision, ![r].decider = a]
    /\ UNCHANGED <<config, gitVars, work, restores, doubt, edits, faults>>

\* Fault: looks whether the request was approved, not whether it is under way.
ApplyAgain(a, r) ==
    /\ Serving /\ At(a, "idle") /\ request[r].status \in {"approved", "applying"}
    /\ request' = [request EXCEPT ![r].status = "applying"]
    /\ Starts(a, "before", r)
    /\ UNCHANGED <<config, gitVars, restores, edits, faults>>

Apply(a, r) ==
    /\ Serving /\ At(a, "idle") /\ request[r].status = "approved"
    /\ request' = [request EXCEPT ![r].status = "applying"]
    /\ Starts(a, "before", r)
    /\ UNCHANGED <<config, gitVars, restores, edits, faults>>

-----------------------------------------------------------------------------
(* commit_configuration                                                     *)

Moves(a, stage) == work' = [work EXCEPT ![a].stage = stage]
TablesUnchanged == UNCHANGED <<config, request, restores, edits, faults>>

\* One SELECT per section: a change may come between two of them.
Read(a) ==
    /\ At(a, "read")
    /\ \E n \in DOMAIN Sections :
         /\ work[a].content[Sections[n]] = None
         /\ \A m \in 1..(n - 1) : work[a].content[Sections[m]] # None
         /\ work' = [work EXCEPT ![a].content[Sections[n]] = config[Sections[n]],
                                 ![a].stage = IF n = Len(Sections) THEN "write" ELSE "read"]
    /\ UNCHANGED <<gitVars, doubt>> /\ TablesUnchanged

Write(a) ==
    /\ At(a, "write") /\ Moves(a, "replace")
    /\ tmp' = work[a].content
    /\ UNCHANGED <<file, index, versions, doubt>> /\ TablesUnchanged

\* Fault: a temporary file that is gone is not noticed.
ReplaceBlindly(a) ==
    /\ At(a, "replace") /\ Moves(a, "add")
    /\ file' = tmp /\ tmp' = None
    /\ UNCHANGED <<index, versions, doubt>> /\ TablesUnchanged

Replace(a) ==
    /\ At(a, "replace") /\ tmp # None /\ Moves(a, "add")
    /\ file' = tmp /\ tmp' = None
    /\ UNCHANGED <<index, versions, doubt>> /\ TablesUnchanged

Add(a) ==
    /\ At(a, "add") /\ Moves(a, "diff")
    /\ index' = file
    /\ UNCHANGED <<tmp, file, versions, doubt>> /\ TablesUnchanged

\* Fault: git diff without --cached.
DiffWorkTree(a) ==
    /\ At(a, "diff")
    /\ work' = [work EXCEPT ![a].stage = "commit", ![a].changed = (file # index)]
    /\ UNCHANGED <<gitVars, doubt>> /\ TablesUnchanged

Diff(a) ==
    /\ At(a, "diff")
    /\ work' = [work EXCEPT ![a].stage = "commit",
                            ![a].changed = (index # versions[Len(versions)])]
    /\ UNCHANGED <<gitVars, doubt>> /\ TablesUnchanged

\* What follows the commit: the call is over, or the restore goes on.
Afterwards == [edit |-> "idle", manual |-> "idle", startup |-> "idle",
          before |-> "restore", after |-> "finish"]

\* git commit of what is staged by then; without --allow-empty there must be something.
Commit(a) ==
    LET staged == index # versions[Len(versions)]
        forced == work[a].purpose \in Forced
    IN
    /\ At(a, "commit") /\ (work[a].changed => staged)
    /\ versions' = IF work[a].changed \/ forced THEN Append(versions, index) ELSE versions
    /\ doubt' = (doubt /\ ~work[a].alone)
    /\ work' = [work EXCEPT ![a] = [Idle EXCEPT !.stage = Afterwards[work[a].purpose],
                                                !.purpose = work[a].purpose,
                                                !.request = work[a].request]]
    /\ UNCHANGED <<tmp, file, index>> /\ TablesUnchanged

-----------------------------------------------------------------------------
(* apply_config_restore_request                                             *)

\* restore_configuration_snapshot disables all hosts and rules first and then
\* writes those of the version; groups of later stay as they are.
Restored(target) ==
    [i \in Items |-> IF target[i] # "none" THEN target[i]
                     ELSE IF i \in {"host", "rule"} /\ config[i] # "none" THEN "off"
                     ELSE config[i]]

Restore(a) ==
    LET r == work[a].request IN
    /\ At(a, "restore")
    /\ config' = Restored(versions[request[r].version])
    /\ Starts(a, "after", r)
    /\ restores' = [restores EXCEPT ![r] = @ + 1]
    /\ UNCHANGED <<gitVars, request, edits, faults>>

Finish(a) ==
    /\ At(a, "finish")
    /\ request' = [request EXCEPT ![work[a].request].status = "applied"]
    /\ work' = [work EXCEPT ![a] = Idle]
    /\ UNCHANGED <<config, gitVars, restores, doubt, edits, faults>>

\* Another call has renamed the temporary file, or committed what was staged.
Collides(a) ==
    \/ At(a, "replace") /\ tmp = None
    \/ At(a, "commit") /\ work[a].changed /\ index = versions[Len(versions)]

\* A failed restore is recorded; the commit after a change is only logged; a
\* failed start is another start.
Raise(a) ==
    LET r == work[a].request IN
    /\ ~At(a, "idle")
    /\ \/ Collides(a) /\ UNCHANGED faults
       \/ Fault
    /\ request' = IF r = None THEN request ELSE [request EXCEPT ![r].status = "failed"]
    /\ work' = [work EXCEPT ![a] = IF @.purpose = "startup"
                                   THEN [Idle EXCEPT !.stage = "read", !.purpose = "startup"]
                                   ELSE Idle]
    /\ doubt' = TRUE
    /\ UNCHANGED <<config, gitVars, restores, edits>>

\* What initialize_db may add: hosts of the seed inventory and default rules that are
\* not there.  (The groups it sets are not those that a restore writes.)
Seeded ==
    LET missing == {i \in Items \cap {"host", "rule"} : config[i] = "none" /\ edits < MaxEdits}
    IN  {[i \in Items |-> IF i \in added THEN "on" ELSE config[i]] : added \in SUBSET missing}

\* The start commits once before it serves; requests that were applying stay so.
ApiRestart(a) ==
    /\ Fault
    /\ config' \in Seeded
    /\ edits' = IF config' = config THEN edits ELSE edits + 1
    /\ work' = [b \in Admins |-> IF b # a THEN Idle
                  ELSE [Idle EXCEPT !.stage = "read", !.purpose = "startup", !.alone = TRUE]]
    /\ doubt' = TRUE
    /\ UNCHANGED <<gitVars, request, restores>>

CommitStep(a) == Read(a) \/ Write(a) \/ Replace(a) \/ Add(a) \/ Diff(a) \/ Commit(a)

Next ==
    \/ \E value \in {"off", "on"} : UpdateJobPolicy(value)
    \/ \E a \in Admins :
        \/ InsertHost(a) \/ DisableHost(a)
        \/ CreateRule(a) \/ DeleteRule(a) \/ CreateGroup(a) \/ DeleteGroup(a)
        \/ \E value \in {"off", "on"} :
               UpdateRule(a, value) \/ UpdateGroup(a, value) \/ UpdatePolicy(a, value)
        \/ CreateVersion(a)
        \/ \E r \in Requests, n \in DOMAIN versions : CreateRequest(a, r, n)
        \/ \E r \in Requests, decision \in {"approved", "rejected"} : Decide(a, r, decision)
        \/ \E r \in Requests : Apply(a, r)
        \/ CommitStep(a) \/ Restore(a) \/ Finish(a)
        \/ Raise(a) \/ ApiRestart(a)

Spec == Init /\ [][Next]_vars

-----------------------------------------------------------------------------
(* Properties                                                               *)

\* However often it is clicked, a request is carried out at most once, by the
\* decision of someone other than who asked; it is applied only if it was.
RestoredOnceAsDecided ==
    \A r \in Requests :
        /\ restores[r] <= 1
        /\ restores[r] = 1 => /\ request[r].decider \notin {None, request[r].by}
                              /\ request[r].status \in {"applying", "applied", "failed"}
        /\ request[r].status = "applied" => restores[r] = 1

\* What has become of a request, with no call under way in sight; a request carried
\* out twice, or called applied and not carried out, would have no place here.
Outcome(r) ==
    CASE restores[r] = 1 -> "carried"
      [] restores[r] = 0 /\ request[r].status = "none" -> "none"
      [] restores[r] = 0 /\ request[r].status = "pending" -> "asked"
      [] restores[r] = 0 /\ request[r].status \in {"approved", "applying"} -> "approved"
      [] restores[r] = 0 /\ request[r].status = "rejected" -> "rejected"
      [] restores[r] = 0 /\ request[r].status = "failed" -> "dropped"
      [] OTHER -> "broken"

Order(r) == [stage   |-> Outcome(r),
             target  |-> versions[request[r].version],
             by      |-> request[r].by,
             decider |-> request[r].decider]

Promise == INSTANCE RestorePromise
    WITH archive <- versions, ask <- [r \in Requests |-> Order(r)]

\* However calls interleave, fail and restart, the configuration changes section by
\* section, by what a start adds to it, or by one approved restore, of what was a
\* version when it was asked for.
ImplementsRestorePromise == Promise!Spec

\* When no commit is under way the last version is the configuration, unless commits
\* failed or overlapped or the policy of a job has changed a rule, which no commit
\* follows; one clean commit makes it true again.
LatestIsCurrent ==
    (\A a \in Admins : ~InCommit(a)) /\ ~doubt => versions[Len(versions)] = config

\* What the README and the answer say: a restore that failed has changed nothing.
FailedMeansRolledBack ==
    \A r \in Requests : request[r].status = "failed" => restores[r] = 0
=============================================================================
