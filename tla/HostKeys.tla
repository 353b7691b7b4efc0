------------------------------ MODULE HostKeys ------------------------------
(***************************************************************************)
(* The keys with which the control plane reaches its hosts                  *)
(* (backend/app/main.py): hosts are added, switched off and restored, while *)
(* key rotations are deployed host by host, promoted, and the key before    *)
(* them retired.  Every remote command is an await; a command that timed    *)
(* out may still take effect on its host.                                   *)
(***************************************************************************)
EXTENDS Naturals, Sequences

CONSTANTS
    Hosts,
    Rotations,  \* rows of ssh_key_rotations, each with a key pair of its own
    FileKey,    \* the key in SSH_KEY_PATH
    Users,      \* who asks for a retirement and who decides
    MaxFaults,  \* bound on the commands that fail and on restarts
    None

Keys == Rotations \cup {FileKey}

ASSUME KeysAssumption ==
    FileKey \notin Rotations /\ MaxFaults \in Nat /\ None \notin Users \cup Keys

VARIABLES
    enabled,     \* managed_hosts that are enabled
    known,       \* managed_hosts
    adding,      \* hosts that create_host has reached and not yet inserted
    keys,        \* external: authorized_keys of each host
    rewriting,   \* external: authorized_keys.linux-ai-tmp of each host
    moving,      \* external: removals that have written it and not yet moved it
    rotation,    \* ssh_key_rotations.status
    promoted,    \* rotations in the order of promoted_at
    deploy,      \* how far runs of deploy_ssh_rotation have come with each host
    verified,    \* ssh_key_rotation_hosts that are verified
    retirement,  \* the open row of ssh_key_retirement_requests
    todo,        \* hosts that execute_ssh_key_retirement still has to do
    dropped,     \* history: a refused promotion has left no active key, none came since
    raced,       \* history: lines that a file being moved into place may lack, as they came
                 \* after it was written or two removals wrote it at once
    untested,    \* history: hosts enabled without a test of the key now in use
    faults       \* how many of MaxFaults have happened

hostVars   == <<enabled, known, adding, untested>>
fileVars   == <<keys, rewriting, moving, raced>>
rotateVars == <<rotation, promoted, deploy, verified, dropped>>
retireVars == <<retirement, todo>>
vars == <<hostVars, fileVars, rotateVars, retireVars, faults>>

-----------------------------------------------------------------------------
(* A removal is "own" while execute_ssh_key_retirement waits for it, and    *)
(* "late" after that.  Any number of runs may be deploying a rotation, so a  *)
(* stage that one of them has left is one where another may be.              *)

RotationStatuses == {"none", "staged", "active", "superseded", "retired"}

\* "orphaned" is running in the table with nobody behind it.
Retirements == [status : {"none", "pending", "approved", "running", "orphaned"},
                key : Keys \cup {None}, by : Users \cup {None}, failed : BOOLEAN]

NoRetirement == [status |-> "none", key |-> None, by |-> None, failed |-> FALSE]

TypeOK ==
    /\ enabled \subseteq Hosts /\ known \subseteq Hosts /\ adding \subseteq Hosts
    /\ keys \in [Hosts -> SUBSET Keys]
    /\ rewriting \in [Hosts -> SUBSET Keys]
    /\ rotation \in [Rotations -> RotationStatuses]
    /\ promoted \in Seq(Rotations)
    /\ moving \in [Hosts -> SUBSET {"own", "late"}]
    /\ deploy \in [Rotations \X Hosts -> {"no", "todo", "appended"}]
    /\ verified \subseteq Rotations \X Hosts
    /\ retirement \in Retirements
    /\ todo \subseteq Hosts
    /\ dropped \in BOOLEAN /\ raced \subseteq Hosts \X Keys /\ untested \subseteq Hosts
    /\ faults \in 0..MaxFaults

\* No rotation yet; the hosts of the seed inventory have the key of ssh-copy-id.
Init ==
    /\ enabled \in SUBSET Hosts /\ known = enabled /\ adding = {}
    /\ keys = [h \in Hosts |-> IF h \in enabled THEN {FileKey} ELSE {}]
    /\ rewriting = [h \in Hosts |-> {}] /\ moving = [h \in Hosts |-> {}]
    /\ rotation = [r \in Rotations |-> "none"]
    /\ promoted = <<>>
    /\ deploy = [p \in Rotations \X Hosts |-> "no"]
    /\ verified = {}
    /\ retirement = NoRetirement /\ todo = {}
    /\ dropped = FALSE /\ raced = {} /\ untested = {}
    /\ faults = 0

Having(status) == {r \in Rotations : rotation[r] = status}

\* run_ssh takes the active rotation's key, and the file's when there is none.
InUse == IF Having("active") = {} THEN FileKey ELSE CHOOSE r \in Having("active") : TRUE

Reachable(h) == InUse \in keys[h]

Fault == faults < MaxFaults /\ faults' = faults + 1

\* A line is appended to authorized_keys; one written while the file is being
\* replaced is lost with the old file.
Appends(h, k) ==
    /\ keys' = [keys EXCEPT ![h] = @ \cup {k}]
    /\ raced' = IF moving[h] = {} THEN raced \ {<<h, k>>}
                ELSE IF k \in rewriting[h] THEN raced ELSE raced \cup {<<h, k>>}
    /\ UNCHANGED <<rewriting, moving>>

-----------------------------------------------------------------------------
(* Hosts                                                                    *)

\* ssh-copy-id, or bootstrap_host with a password: the key of the file, whatever
\* the active rotation is.
Bootstrap(h) ==
    /\ FileKey \notin keys[h]
    /\ Appends(h, FileKey)
    /\ UNCHANGED <<hostVars, rotateVars, retireVars, faults>>

CreateHostConnects(h) ==
    /\ Reachable(h)
    /\ adding' = adding \cup {h}
    /\ untested' = untested \ {h}
    /\ UNCHANGED <<enabled, known, fileVars, rotateVars, retireVars, faults>>

\* insert_managed_host adds the host, enables it again, or refuses.
CreateHostInserts(h) ==
    /\ h \in adding
    /\ adding' = adding \ {h}
    /\ enabled' = enabled \cup {h}
    /\ known' = known \cup {h}
    /\ UNCHANGED <<untested, fileVars, rotateVars, retireVars, faults>>

DeleteHost(h) ==
    /\ h \in enabled
    /\ enabled' = enabled \ {h}
    /\ UNCHANGED <<known, adding, untested, fileVars, rotateVars, retireVars, faults>>

\* restore_configuration_snapshot enables the hosts of an older version, no test.
RestoreHosts(restored) ==
    /\ restored \subseteq known
    /\ enabled' = restored
    /\ untested' = untested \cup (restored \ enabled)
    /\ UNCHANGED <<known, adding, fileVars, rotateVars, retireVars, faults>>

-----------------------------------------------------------------------------
(* Rotations                                                                *)

CreateRotation(r) ==
    /\ rotation[r] = "none"
    /\ rotation' = [rotation EXCEPT ![r] = "staged"]
    /\ UNCHANGED <<hostVars, fileVars, promoted, deploy, verified, dropped, retireVars, faults>>

DeployStart(r) ==
    /\ rotation[r] = "staged"
    /\ deploy' = [p \in DOMAIN deploy |->
                    IF p[1] = r /\ p[2] \in enabled /\ deploy[p] = "no" THEN "todo" ELSE deploy[p]]
    /\ UNCHANGED <<hostVars, fileVars, rotation, promoted, verified, dropped, retireVars, faults>>

DeployAppends(r, h) ==
    /\ deploy[<<r, h>>] # "no" /\ Reachable(h)
    /\ Appends(h, r)
    /\ deploy' = [deploy EXCEPT ![<<r, h>>] = "appended"]
    /\ UNCHANGED <<hostVars, rotation, promoted, verified, dropped, retireVars, faults>>

\* Fault: whatever the connections have given.
DeployVerifiesUntested(r, h) ==
    /\ deploy[<<r, h>>] # "no"
    /\ verified' = verified \cup {<<r, h>>}
    /\ UNCHANGED <<hostVars, fileVars, rotation, promoted, deploy, dropped, retireVars, faults>>

\* The host accepts the new key.
DeployVerifies(r, h) ==
    /\ deploy[<<r, h>>] = "appended" /\ r \in keys[h]
    /\ verified' = verified \cup {<<r, h>>}
    /\ UNCHANGED <<hostVars, fileVars, rotation, promoted, deploy, dropped, retireVars, faults>>

\* Either connection fails; the row says so, also where it said verified.
DeployFails(r, h) ==
    /\ deploy[<<r, h>>] # "no"
    /\ \/ ~Reachable(h) /\ UNCHANGED faults
       \/ deploy[<<r, h>>] = "appended" /\ r \notin keys[h] /\ UNCHANGED faults
       \/ Fault
    /\ verified' = verified \ {<<r, h>>}
    /\ UNCHANGED <<hostVars, fileVars, rotation, promoted, deploy, dropped, retireVars>>

Superseded(r) == [x \in Rotations |-> IF x # r /\ rotation[x] = "active" THEN "superseded"
                                      ELSE rotation[x]]

\* Fault: the hosts are not asked for.
PromoteUnverified(r) ==
    /\ rotation[r] = "staged"
    /\ rotation' = [Superseded(r) EXCEPT ![r] = "active"]
    /\ promoted' = Append(promoted, r)
    /\ untested' = (untested \ enabled) \cup adding
    /\ dropped' = FALSE
    /\ UNCHANGED <<enabled, known, adding, fileVars, deploy, verified, retireVars, faults>>

\* Every enabled host has been verified; hosts being added are not asked for.
Promote(r) ==
    /\ rotation[r] = "staged"
    /\ \A h \in enabled : <<r, h>> \in verified
    /\ rotation' = [Superseded(r) EXCEPT ![r] = "active"]
    /\ promoted' = Append(promoted, r)
    /\ untested' = (untested \ enabled) \cup adding
    /\ dropped' = FALSE
    /\ UNCHANGED <<enabled, known, adding, fileVars, deploy, verified, retireVars, faults>>

\* The answer is 409, outside the transaction: the active key is superseded all the same.
PromoteRefused(r) ==
    /\ rotation[r] \in {"superseded", "retired"} /\ Having("active") # {}
    /\ \A h \in enabled : <<r, h>> \in verified
    /\ rotation' = Superseded(r)
    /\ dropped' = TRUE
    /\ UNCHANGED <<hostVars, fileVars, promoted, deploy, verified, retireVars, faults>>

-----------------------------------------------------------------------------
(* Retiring the key before the active one                                   *)

\* The superseded rotation promoted last, or the file's key.
OldKey(k) ==
    LET old == {i \in 1..Len(promoted) : rotation[promoted[i]] = "superseded"} IN
    IF old = {} THEN k = FileKey
    ELSE \E i \in old : k = promoted[i] /\ \A j \in old : j <= i

RequestRetirement(u) ==
    /\ retirement.status = "none" /\ Having("active") # {}
    /\ \E k \in Keys :
         /\ OldKey(k)
         /\ retirement' = [status |-> "pending", key |-> k, by |-> u, failed |-> FALSE]
    /\ UNCHANGED <<hostVars, fileVars, rotateVars, todo, faults>>

\* Approved or rejected by somebody else.
DecideRetirement(u) ==
    /\ retirement.status = "pending" /\ u # retirement.by
    /\ retirement' \in {[retirement EXCEPT !.status = "approved"], NoRetirement}
    /\ UNCHANGED <<hostVars, fileVars, rotateVars, todo, faults>>

\* Fault: a status that nothing ends.
ExecuteRetirementMisnamed ==
    /\ retirement.status = "approved"
    /\ retirement' = [retirement EXCEPT !.status = "executing"]
    /\ todo' = enabled
    /\ UNCHANGED <<hostVars, fileVars, rotateVars, faults>>

\* The inventory is read in the next await; a host that comes in between has the
\* key in use and is only spared the removal.
ExecuteRetirement ==
    /\ retirement.status = "approved"
    /\ retirement' = [retirement EXCEPT !.status = "running"]
    /\ todo' = enabled
    /\ UNCHANGED <<hostVars, fileVars, rotateVars, faults>>

\* grep writes the file without the key, for one host at a time; it fails, and &&
\* with it, when nothing is left.  A second removal empties the file that an earlier
\* one is about to move, and any part of it may be back when it is moved.
RemoveBegins(h) ==
    LET kept == keys[h] \ {retirement.key} IN
    /\ h \in todo /\ Reachable(h)
    /\ \A x \in todo : "own" \notin moving[x]
    /\ kept # {}
    /\ \E part \in SUBSET kept :
         /\ moving[h] = {} => part = kept
         /\ rewriting' = [rewriting EXCEPT ![h] = part]
         /\ raced' = raced \cup {<<h, k>> : k \in kept \ part}
    /\ moving' = [moving EXCEPT ![h] = @ \cup {"own"}]
    /\ UNCHANGED <<hostVars, keys, rotateVars, retireVars, faults>>

\* The mv of one removal; any other has nothing to move after it.
Moves(h) ==
    /\ keys' = [keys EXCEPT ![h] = rewriting[h]]
    /\ rewriting' = [rewriting EXCEPT ![h] = {}]
    /\ moving' = [moving EXCEPT ![h] = {}]

RemoveLands(h) ==
    /\ "own" \in moving[h] /\ Moves(h)
    /\ todo' = todo \ {h}
    /\ UNCHANGED <<hostVars, raced, rotateVars, retirement, faults>>

\* mv takes effect though nobody waits for it; the removal that somebody waits for fails.
LateRemoveLands(h) ==
    /\ "late" \in moving[h] /\ Moves(h)
    /\ IF "own" \in moving[h]
       THEN todo' = todo \ {h} /\ retirement' = [retirement EXCEPT !.failed = TRUE]
       ELSE UNCHANGED <<todo, retirement>>
    /\ UNCHANGED <<hostVars, raced, rotateVars, faults>>

LateRemoveDies(h) ==
    /\ "late" \in moving[h]
    /\ moving' = [moving EXCEPT ![h] = @ \ {"late"}]
    /\ rewriting' = IF moving'[h] = {} THEN [rewriting EXCEPT ![h] = {}] ELSE rewriting
    /\ UNCHANGED <<hostVars, keys, raced, rotateVars, retireVars, faults>>

Abandoned(h) == IF "own" \in moving[h] THEN {"late"} ELSE moving[h]

\* No connection, nothing left, or no answer in time.
RemoveFails(h) ==
    /\ h \in todo
    /\ IF Reachable(h) /\ keys[h] # {retirement.key} THEN Fault ELSE UNCHANGED faults
    /\ todo' = todo \ {h}
    /\ retirement' = [retirement EXCEPT !.failed = TRUE]
    /\ moving' = [moving EXCEPT ![h] = Abandoned(h)]
    /\ UNCHANGED <<hostVars, keys, rewriting, raced, rotateVars>>

RetirementEnds ==
    /\ retirement.status = "running" /\ todo = {}
    /\ rotation' = [r \in Rotations |->
                      IF r = retirement.key /\ rotation[r] = "superseded" /\ ~retirement.failed
                      THEN "retired" ELSE rotation[r]]
    /\ retirement' = NoRetirement
    /\ UNCHANGED <<hostVars, fileVars, promoted, deploy, verified, dropped, todo, faults>>

-----------------------------------------------------------------------------
\* Requests end where they are; a running retirement stays running.  Hosts that are
\* new in the seed inventory are enabled, no test.
ApiRestart ==
    /\ Fault
    /\ \E new \in SUBSET (Hosts \ known) :
         /\ enabled' = enabled \cup new /\ known' = known \cup new
         /\ untested' = untested \cup new
    /\ adding' = {}
    /\ deploy' = [p \in DOMAIN deploy |-> "no"]
    /\ moving' = [h \in Hosts |-> Abandoned(h)]
    /\ todo' = {}
    /\ retirement' = IF retirement.status = "running"
                     THEN [retirement EXCEPT !.status = "orphaned"] ELSE retirement
    /\ UNCHANGED <<keys, rewriting, raced, rotation, promoted, verified, dropped>>

HostStep(h) ==
    \/ Bootstrap(h) \/ CreateHostConnects(h) \/ CreateHostInserts(h) \/ DeleteHost(h)

RotationStep(r) ==
    \/ CreateRotation(r) \/ DeployStart(r) \/ Promote(r) \/ PromoteRefused(r)
    \/ \E h \in Hosts : DeployAppends(r, h) \/ DeployVerifies(r, h) \/ DeployFails(r, h)

RetirementStep ==
    \/ \E u \in Users : RequestRetirement(u) \/ DecideRetirement(u)
    \/ ExecuteRetirement \/ RetirementEnds
    \/ \E h \in Hosts : \/ RemoveBegins(h) \/ RemoveLands(h) \/ RemoveFails(h)
                       \/ LateRemoveLands(h) \/ LateRemoveDies(h)

Next ==
    \/ \E h \in Hosts : HostStep(h)
    \/ \E restored \in SUBSET Hosts : RestoreHosts(restored)
    \/ \E r \in Rotations : RotationStep(r)
    \/ RetirementStep
    \/ ApiRestart

Spec == Init /\ [][Next]_vars

-----------------------------------------------------------------------------
(* Properties                                                               *)

\* A host is marked as verified for a rotation only while it accepts its key,
\* until the key is superseded or a removal, of some other key, has taken the line
\* along: it came while the file was replaced, or two removals wrote one file.
VerifiedIsInstalled ==
    \A r \in Having("staged") \cup Having("active"), h \in Hosts :
        <<r, h>> \in verified => r \in keys[h] \/ <<h, r>> \in raced

\* Rotating and retiring keys never cuts off an enabled host, but for these gaps:
\* a refused promotion until the next one, a removal that has taken along the line
\* of the very key in use, and a host enabled without a test, by a restored version
\* or by a start that finds it new in the seed inventory.
EnabledHostsReachable ==
    \A h \in enabled : Reachable(h) \/ dropped \/ <<h, InUse>> \in raced \/ h \in untested
=============================================================================
