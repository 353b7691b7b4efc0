--------------------------- MODULE HostKeysProofs ---------------------------
(***************************************************************************)
(* Proofs for HostKeys: for any number of hosts and rotations, and any      *)
(* number of faults.  The inductive invariant says which keys a removal may  *)
(* take: only old ones, which are not in use and never will be, unless a     *)
(* refused promotion brings the file's key back.                             *)
(***************************************************************************)
EXTENDS HostKeys, TLAPS

USE KeysAssumption

\* A key that no promotion can make the key in use again.
Old(k) ==
    /\ k \in Rotations => rotation[k] \in {"superseded", "retired"}
    /\ k = FileKey => Having("active") # {} \/ dropped

\* A rotation that does not exist has been deployed nowhere.
NewIsNowhere ==
    \A r \in Rotations, h \in Hosts :
        rotation[r] = "none" => deploy[<<r, h>>] = "no" /\ <<r, h>> \notin verified

\* A retirement removes an old key, and only a running one has hosts to do.
RetiresOld ==
    /\ retirement.status # "none" => retirement.key \in Keys /\ Old(retirement.key)
    /\ todo # {} => retirement.status = "running"

\* The file that will be moved into place lacks only old keys and raced lines.
RewritesKeep ==
    \A h \in Hosts : moving[h] # {} =>
        \A k \in keys[h] \ rewriting[h] : Old(k) \/ <<h, k>> \in raced

\* run_ssh has no choice between active rotations.
OneActive == \A r, x \in Having("active") : r = x

\* What EnabledHostsReachable says, of the hosts being added as well.
NoneCutOff ==
    \A h \in enabled \cup adding :
        Reachable(h) \/ dropped \/ <<h, InUse>> \in raced \/ h \in untested

Inv ==
    /\ TypeOK
    /\ OneActive
    /\ NewIsNowhere
    /\ RetiresOld
    /\ RewritesKeep
    /\ VerifiedIsInstalled
    /\ NoneCutOff

-----------------------------------------------------------------------------
(* The key in use                                                           *)

LEMMA InUseKey ==
    /\ InUse \in Keys
    /\ Having("active") = {} => InUse = FileKey
    /\ Having("active") # {} => InUse \in Having("active")
BY DEF InUse, Having, Keys

LEMMA OldNotInUse == ASSUME NEW k \in Keys, Old(k), ~dropped PROVE k # InUse
BY InUseKey DEF Old, Having, Keys

LEMMA PromotedInUse ==
    ASSUME TypeOK, NEW r \in Rotations, Promote(r)
    PROVE  /\ Having("active")' = {r}
           /\ InUse' = r
<1>1. /\ rotation' = [Superseded(r) EXCEPT ![r] = "active"]
      /\ rotation \in [Rotations -> RotationStatuses]
  BY DEF Promote, TypeOK
<1>2. Having("active")' = {x \in Rotations : rotation'[x] = "active"}
  BY DEF Having
<1>3. \A x \in Rotations : rotation'[x] = "active" <=> x = r
  BY <1>1 DEF Superseded
<1>4. Having("active")' = {r}
  BY <1>2, <1>3
<1>5. QED BY <1>4 DEF InUse

\* Only four actions write to ssh_key_rotations.status.
LEMMA RotationChanges ==
    ASSUME [Next]_vars
    PROVE  \/ rotation' = rotation /\ dropped' = dropped
           \/ \E r \in Rotations : CreateRotation(r) \/ Promote(r) \/ PromoteRefused(r)
           \/ RetirementEnds
<1>1. CASE UNCHANGED vars
  BY <1>1 DEF vars, rotateVars
<1>2. CASE \E h \in Hosts : HostStep(h)
  BY <1>2 DEF HostStep, Bootstrap, CreateHostConnects, CreateHostInserts, DeleteHost, rotateVars
<1>3. CASE \E restored \in SUBSET Hosts : RestoreHosts(restored)
  BY <1>3 DEF RestoreHosts, rotateVars
<1>4. CASE \E r \in Rotations : RotationStep(r)
  BY <1>4 DEF RotationStep, DeployStart, DeployAppends, DeployVerifies, DeployFails
<1>5. CASE RetirementStep
  BY <1>5 DEF RetirementStep, RequestRetirement, DecideRetirement, ExecuteRetirement,
              RemoveBegins, RemoveLands, LateRemoveLands, LateRemoveDies, RemoveFails, rotateVars
<1>6. CASE ApiRestart
  BY <1>6 DEF ApiRestart
<1>7. QED BY <1>1, <1>2, <1>3, <1>4, <1>5, <1>6 DEF Next

\* The statuses go forward: none, staged, active, superseded, retired.
LEMMA StatusesMove ==
    ASSUME TypeOK, [Next]_vars, NEW x \in Rotations
    PROVE  /\ rotation[x] \in {"superseded", "retired"} =>
                  rotation'[x] \in {"superseded", "retired"}
           /\ rotation'[x] = "none" => rotation[x] = "none"
           /\ rotation'[x] \in {"staged", "active"} => rotation[x] \in {"none", "staged", "active"}
<1>0. rotation \in [Rotations -> RotationStatuses]
  BY DEF TypeOK
<1>1. CASE rotation' = rotation
  BY <1>0, <1>1 DEF RotationStatuses
<1>2. CASE \E r \in Rotations : CreateRotation(r)
  BY <1>0, <1>2 DEF CreateRotation, RotationStatuses
<1>3. CASE \E r \in Rotations : Promote(r)
  BY <1>0, <1>3 DEF Promote, Superseded, RotationStatuses
<1>4. CASE \E r \in Rotations : PromoteRefused(r)
  BY <1>0, <1>4 DEF PromoteRefused, Superseded, RotationStatuses
<1>5. CASE RetirementEnds
  BY <1>0, <1>5 DEF RetirementEnds, RotationStatuses
<1>6. QED BY <1>1, <1>2, <1>3, <1>4, <1>5, RotationChanges

\* Only a promotion changes which key is in use, unless one is refused.
LEMMA InUseStays ==
    ASSUME TypeOK, [Next]_vars, ~ \E r \in Rotations : Promote(r) \/ PromoteRefused(r)
    PROVE  Having("active")' = Having("active") /\ InUse' = InUse /\ dropped' = dropped
<1>0. rotation \in [Rotations -> RotationStatuses]
  BY DEF TypeOK
<1>1. dropped' = dropped /\ \A x \in Rotations : rotation'[x] = "active" <=> rotation[x] = "active"
  <2>1. CASE rotation' = rotation /\ dropped' = dropped
    BY <2>1
  <2>2. CASE \E r \in Rotations : CreateRotation(r)
    BY <1>0, <2>2 DEF CreateRotation
  <2>3. CASE RetirementEnds
    BY <1>0, <2>3 DEF RetirementEnds
  <2>4. QED BY <2>1, <2>2, <2>3, RotationChanges
<1>2. Having("active")' = {x \in Rotations : rotation'[x] = "active"}
  BY DEF Having
<1>3. Having("active")' = Having("active")
  BY <1>1, <1>2 DEF Having
<1>4. InUse' = InUse
  <2> DEFINE Used(S) == IF S = {} THEN FileKey ELSE CHOOSE r \in S : TRUE
  <2>1. InUse = Used(Having("active")) /\ InUse' = Used(Having("active")')
    BY DEF InUse
  <2> HIDE DEF Used
  <2>2. QED BY <2>1, <1>3
<1>5. QED BY <1>1, <1>3, <1>4

\* An old key stays old.
LEMMA OldStays ==
    ASSUME TypeOK, [Next]_vars, NEW k \in Keys, Old(k)
    PROVE  Old(k)'
<1>1. k \in Rotations => rotation'[k] \in {"superseded", "retired"}
  BY StatusesMove DEF Old
<1>2. k = FileKey => Having("active")' # {} \/ dropped'
  <2>1. CASE \E r \in Rotations : Promote(r)
    BY <2>1, PromotedInUse
  <2>2. CASE \E r \in Rotations : PromoteRefused(r)
    BY <2>2 DEF PromoteRefused
  <2>3. CASE ~ \E r \in Rotations : Promote(r) \/ PromoteRefused(r)
    BY <2>3, InUseStays DEF Old
  <2>4. QED BY <2>1, <2>2, <2>3
<1>3. QED BY <1>1, <1>2 DEF Old

-----------------------------------------------------------------------------
(* The files on the hosts                                                   *)

\* A step leaves a host's file alone, whatever becomes of removals under way, or
\* appends a line to it, writes the file that is to replace it, or moves that one.
Untouched(h) ==
    /\ keys'[h] = keys[h]
    /\ moving'[h] # {} => moving[h] # {} /\ rewriting'[h] = rewriting[h]
    /\ \A k \in Keys : <<h, k>> \in raced <=> <<h, k>> \in raced'

Gains(h, x) ==
    /\ keys'[h] = keys[h] \cup {x}
    /\ rewriting'[h] = rewriting[h] /\ moving'[h] = moving[h]
    /\ moving[h] # {} /\ x \notin rewriting[h] => <<h, x>> \in raced'
    /\ \A k \in Keys : <<h, k>> \in raced => <<h, k>> \in raced' \/ k = x

Rewritten(h) ==
    /\ todo # {} /\ keys'[h] = keys[h]
    /\ \A k \in keys[h] \ rewriting'[h] : k = retirement.key \/ <<h, k>> \in raced'
    /\ \A k \in Keys : <<h, k>> \in raced => <<h, k>> \in raced'

Replaced(h) ==
    /\ moving[h] # {} /\ moving'[h] = {}
    /\ keys'[h] = rewriting[h] /\ raced' = raced

LEMMA FileChanges ==
    ASSUME TypeOK, [Next]_vars, NEW h \in Hosts
    PROVE  \/ Untouched(h)
           \/ \E k \in Keys : Gains(h, k)
           \/ Rewritten(h)
           \/ Replaced(h)
<1>0. /\ keys \in [Hosts -> SUBSET Keys] /\ rewriting \in [Hosts -> SUBSET Keys]
      /\ moving \in [Hosts -> SUBSET {"own", "late"}]
  BY DEF TypeOK
<1>1. CASE UNCHANGED fileVars
  BY <1>1 DEF fileVars, Untouched
<1>2. ASSUME NEW x \in Hosts, NEW k \in Keys, Appends(x, k)
      PROVE  Untouched(h) \/ Gains(h, k)
  <2>1. CASE x = h
    BY <1>0, <1>2, <2>1 DEF Appends, Gains
  <2>2. CASE x # h
    BY <1>0, <1>2, <2>2 DEF Appends, Untouched
  <2>3. QED BY <2>1, <2>2
<1>3. CASE \E x \in Hosts : RemoveBegins(x)
  <2>1. PICK x \in Hosts : RemoveBegins(x)
    BY <1>3
  <2>2. PICK part \in SUBSET (keys[x] \ {retirement.key}) :
          /\ rewriting' = [rewriting EXCEPT ![x] = part]
          /\ raced' = raced \cup {<<x, k>> : k \in (keys[x] \ {retirement.key}) \ part}
    BY <2>1 DEF RemoveBegins
  <2>3. todo # {} /\ keys' = keys
    BY <2>1 DEF RemoveBegins
  <2>4. CASE x = h
    BY <1>0, <2>2, <2>3, <2>4 DEF Rewritten
  <2>5. CASE x # h
    <3>1. moving'[h] = moving[h]
      BY <1>0, <2>1, <2>5 DEF RemoveBegins
    <3>2. QED BY <1>0, <2>2, <2>3, <2>5, <3>1 DEF Untouched
  <2>6. QED BY <2>4, <2>5
<1>4. CASE \E x \in Hosts : RemoveLands(x) \/ LateRemoveLands(x)
  <2>1. PICK x \in Hosts : RemoveLands(x) \/ LateRemoveLands(x)
    BY <1>4
  <2>2. Moves(x) /\ moving[x] # {} /\ raced' = raced
    BY <2>1 DEF RemoveLands, LateRemoveLands
  <2>3. CASE x = h
    BY <1>0, <2>2, <2>3 DEF Moves, Replaced
  <2>4. CASE x # h
    BY <1>0, <2>2, <2>4 DEF Moves, Untouched
  <2>5. QED BY <2>3, <2>4
<1>a. CASE \E x \in Hosts : LateRemoveDies(x) \/ RemoveFails(x)
  <2>1. PICK x \in Hosts : LateRemoveDies(x) \/ RemoveFails(x)
    BY <1>a
  <2>2. keys' = keys /\ raced' = raced
    BY <2>1 DEF LateRemoveDies, RemoveFails
  <2>3. CASE x = h
    <3>1. CASE LateRemoveDies(h)
      BY <1>0, <2>2, <3>1 DEF LateRemoveDies, Untouched
    <3>2. CASE RemoveFails(h)
      BY <1>0, <2>2, <3>2 DEF RemoveFails, Abandoned, Untouched
    <3>3. QED BY <2>1, <2>3, <3>1, <3>2
  <2>4. CASE x # h
    BY <1>0, <2>1, <2>2, <2>4 DEF LateRemoveDies, RemoveFails, Untouched
  <2>5. QED BY <2>3, <2>4
<1>5. CASE UNCHANGED vars
  BY <1>1, <1>5 DEF vars
<1>6. CASE \E x \in Hosts : HostStep(x)
  BY <1>1, <1>2, <1>6 DEF HostStep, Bootstrap, CreateHostConnects, CreateHostInserts,
                          DeleteHost, Keys
<1>7. CASE \E restored \in SUBSET Hosts : RestoreHosts(restored)
  BY <1>1, <1>7 DEF RestoreHosts
<1>8. CASE \E r \in Rotations : RotationStep(r)
  <2>1. PICK r \in Rotations : RotationStep(r)
    BY <1>8
  <2>2. CASE \E x \in Hosts : DeployAppends(r, x)
    BY <1>2, <2>2 DEF DeployAppends, Keys
  <2>3. CASE ~ \E x \in Hosts : DeployAppends(r, x)
    BY <1>1, <2>1, <2>3 DEF RotationStep, CreateRotation, DeployStart, Promote,
                            PromoteRefused, DeployVerifies, DeployFails
  <2>4. QED BY <2>2, <2>3
<1>9. CASE RetirementStep
  BY <1>1, <1>3, <1>4, <1>a, <1>9 DEF RetirementStep, RequestRetirement, DecideRetirement,
                                      ExecuteRetirement, RetirementEnds
<1>10. CASE ApiRestart
  BY <1>0, <1>10 DEF ApiRestart, Abandoned, Untouched
<1>11. QED BY <1>5, <1>6, <1>7, <1>8, <1>9, <1>10 DEF Next

\* A host never loses a key that is not old, unless its line is raced.
LEMMA KeysStay ==
    ASSUME TypeOK, RewritesKeep, [Next]_vars, NEW h \in Hosts,
           NEW k \in keys[h], ~Old(k), <<h, k>> \notin raced
    PROVE  k \in keys'[h]
<1>1. CASE Replaced(h)
  BY <1>1 DEF RewritesKeep, Replaced
<1>2. QED BY <1>1, FileChanges DEF Untouched, Gains, Rewritten

\* A raced line is forgotten only when it is there again.
LEMMA RacesStay ==
    ASSUME TypeOK, [Next]_vars, NEW h \in Hosts, NEW k \in Keys, <<h, k>> \in raced
    PROVE  <<h, k>> \in raced' \/ k \in keys'[h]
BY FileChanges DEF Untouched, Gains, Rewritten, Replaced

\* A line that is there or came late stays there or late, unless its key is old.
LEMMA LineStays ==
    ASSUME TypeOK, RewritesKeep, [Next]_vars, NEW h \in Hosts, NEW k \in Keys, ~Old(k),
           k \in keys[h] \/ <<h, k>> \in raced
    PROVE  k \in keys'[h] \/ <<h, k>> \in raced'
BY KeysStay, RacesStay

-----------------------------------------------------------------------------
(* The conjuncts of the invariant                                           *)

LEMMA Types == ASSUME TypeOK, RetiresOld, [Next]_vars PROVE TypeOK'
<1> USE DEF TypeOK, Retirements, NoRetirement, RotationStatuses, Keys
<1>1. CASE UNCHANGED vars
  BY <1>1 DEF vars, hostVars, fileVars, rotateVars, retireVars
<1>2. ASSUME NEW h \in Hosts, HostStep(h) PROVE TypeOK'
  <2>1. CASE Bootstrap(h)
    BY <2>1 DEF Bootstrap, Appends, hostVars, rotateVars, retireVars
  <2>2. CASE CreateHostConnects(h) \/ CreateHostInserts(h) \/ DeleteHost(h)
    BY <2>2 DEF CreateHostConnects, CreateHostInserts, DeleteHost,
                fileVars, rotateVars, retireVars
  <2>3. QED BY <1>2, <2>1, <2>2 DEF HostStep
<1>3. ASSUME NEW restored \in SUBSET Hosts, RestoreHosts(restored) PROVE TypeOK'
  BY <1>3 DEF RestoreHosts, fileVars, rotateVars, retireVars
<1>4. ASSUME NEW r \in Rotations, RotationStep(r) PROVE TypeOK'
  <2>1. CASE CreateRotation(r)
    BY <2>1 DEF CreateRotation, hostVars, fileVars, retireVars
  <2>2. CASE DeployStart(r)
    BY <2>2 DEF DeployStart, hostVars, fileVars, retireVars
  <2>3. CASE Promote(r)
    <3>1. rotation' \in [Rotations -> RotationStatuses]
      BY <2>3 DEF Promote, Superseded
    <3>2. promoted' \in Seq(Rotations)
      BY <2>3 DEF Promote
    <3>3. QED BY <2>3, <3>1, <3>2 DEF Promote, fileVars, retireVars
  <2>4. CASE PromoteRefused(r)
    BY <2>4 DEF PromoteRefused, Superseded, hostVars, fileVars, retireVars
  <2>5. ASSUME NEW h \in Hosts, DeployAppends(r, h) PROVE TypeOK'
    BY <2>5 DEF DeployAppends, Appends, hostVars, retireVars
  <2>6. ASSUME NEW h \in Hosts, DeployVerifies(r, h) \/ DeployFails(r, h) PROVE TypeOK'
    <3>1. deploy' \in [Rotations \X Hosts -> {"no", "todo", "appended"}]
      BY <2>6 DEF DeployVerifies, DeployFails
    <3>2. verified' \subseteq Rotations \X Hosts
      BY <2>6 DEF DeployVerifies, DeployFails
    <3>3. faults' \in 0..MaxFaults
      BY <2>6 DEF DeployVerifies, DeployFails, Fault
    <3>4. QED BY <2>6, <3>1, <3>2, <3>3
              DEF DeployVerifies, DeployFails, hostVars, fileVars, retireVars
  <2>7. QED BY <1>4, <2>1, <2>2, <2>3, <2>4, <2>5, <2>6 DEF RotationStep
<1>5. CASE RetirementStep
  <2>1. ASSUME NEW u \in Users, RequestRetirement(u) PROVE TypeOK'
    BY <2>1 DEF RequestRetirement, hostVars, fileVars, rotateVars
  <2>2. ASSUME NEW u \in Users, DecideRetirement(u) PROVE TypeOK'
    <3>1. retirement' \in Retirements
      <4>1. /\ [retirement EXCEPT !.status = "approved"] \in Retirements
            /\ NoRetirement \in Retirements
        OBVIOUS
      <4>2. QED BY <2>2, <4>1 DEF DecideRetirement
    <3>2. QED BY <2>2, <3>1 DEF DecideRetirement, hostVars, fileVars, rotateVars
  <2>3. CASE ExecuteRetirement
    BY <2>3 DEF ExecuteRetirement, hostVars, fileVars, rotateVars
  <2>4. CASE RetirementEnds
    BY <2>4 DEF RetirementEnds, hostVars, fileVars
  <2>5. ASSUME NEW h \in Hosts, RemoveBegins(h) PROVE TypeOK'
    <3>1. /\ rewriting' \in [Hosts -> SUBSET Keys] /\ raced' \subseteq Hosts \X Keys
          /\ moving' \in [Hosts -> SUBSET {"own", "late"}]
      <4>1. PICK part \in SUBSET (keys[h] \ {retirement.key}) :
              /\ rewriting' = [rewriting EXCEPT ![h] = part]
              /\ raced' = raced \cup {<<h, k>> : k \in (keys[h] \ {retirement.key}) \ part}
        BY <2>5 DEF RemoveBegins
      <4>2. QED BY <2>5, <4>1 DEF RemoveBegins
    <3>2. QED BY <2>5, <3>1 DEF RemoveBegins, hostVars, rotateVars, retireVars
  <2>6. ASSUME NEW h \in Hosts, RemoveLands(h) \/ LateRemoveLands(h) PROVE TypeOK'
    <3>1. /\ keys' \in [Hosts -> SUBSET Keys] /\ rewriting' \in [Hosts -> SUBSET Keys]
          /\ moving' \in [Hosts -> SUBSET {"own", "late"}]
      BY <2>6 DEF RemoveLands, LateRemoveLands, Moves
    <3>2. retirement' \in Retirements /\ todo' \subseteq Hosts
      <4>1. [retirement EXCEPT !.failed = TRUE] \in Retirements
        OBVIOUS
      <4>2. CASE RemoveLands(h)
        BY <4>2 DEF RemoveLands
      <4>3. CASE LateRemoveLands(h)
        BY <4>1, <4>3 DEF LateRemoveLands
      <4>4. QED BY <2>6, <4>2, <4>3
    <3>3. QED BY <2>6, <3>1, <3>2 DEF RemoveLands, LateRemoveLands, hostVars, rotateVars
  <2>9. ASSUME NEW h \in Hosts, LateRemoveDies(h) PROVE TypeOK'
    BY <2>9 DEF LateRemoveDies, hostVars, rotateVars, retireVars
  <2>7. ASSUME NEW h \in Hosts, RemoveFails(h) PROVE TypeOK'
    <3>1. retirement' \in Retirements /\ todo' \subseteq Hosts
      BY <2>7 DEF RemoveFails
    <3>2. faults' \in 0..MaxFaults
      BY <2>7 DEF RemoveFails, Fault
    <3>3. moving' \in [Hosts -> SUBSET {"own", "late"}]
      BY <2>7 DEF RemoveFails, Abandoned
    <3>4. QED BY <2>7, <3>1, <3>2, <3>3 DEF RemoveFails, hostVars, rotateVars
  <2>8. QED BY <1>5, <2>1, <2>2, <2>3, <2>4, <2>5, <2>6, <2>7, <2>9 DEF RetirementStep
<1>6. CASE ApiRestart
  <2>1. retirement' \in Retirements
    BY <1>6 DEF ApiRestart
  <2>2. faults' \in 0..MaxFaults
    BY <1>6 DEF ApiRestart, Fault
  <2>3. deploy' \in [Rotations \X Hosts -> {"no", "todo", "appended"}]
    BY <1>6 DEF ApiRestart
  <2>4. moving' \in [Hosts -> SUBSET {"own", "late"}]
    BY <1>6 DEF ApiRestart, Abandoned
  <2>5. QED BY <1>6, <2>1, <2>2, <2>3, <2>4 DEF ApiRestart
<1>7. QED BY <1>1, <1>2, <1>3, <1>4, <1>5, <1>6 DEF Next

\* What a step does to where deployments are and what they have verified.
LEMMA DeployChanges ==
    ASSUME TypeOK, [Next]_vars, NEW r \in Rotations, NEW h \in Hosts
    PROVE  \/ deploy'[<<r, h>>] \in {deploy[<<r, h>>], "no"}
              /\ (<<r, h>> \in verified' => <<r, h>> \in verified)
           \/ rotation[r] = "staged" /\ verified' = verified
           \/ deploy[<<r, h>>] # "no"
              /\ (<<r, h>> \in verified' => <<r, h>> \in verified \/ r \in keys'[h])
<1>0. deploy \in [Rotations \X Hosts -> {"no", "todo", "appended"}]
  BY DEF TypeOK
<1>1. CASE deploy' = deploy /\ verified' = verified
  BY <1>1
<1>2. CASE \E x \in Rotations : RotationStep(x)
  <2>1. PICK x \in Rotations : RotationStep(x)
    BY <1>2
  <2>2. CASE DeployStart(x)
    BY <1>0, <2>2 DEF DeployStart
  <2>3. ASSUME NEW y \in Hosts, DeployAppends(x, y) PROVE
           \/ deploy'[<<r, h>>] = deploy[<<r, h>>] /\ verified' = verified
           \/ deploy[<<r, h>>] # "no" /\ verified' = verified
    <3>1. CASE x = r /\ y = h
      BY <2>3, <3>1 DEF DeployAppends
    <3>2. CASE ~ (x = r /\ y = h)
      <4>1. <<x, y>> # <<r, h>>
        BY <3>2
      <4>2. QED BY <1>0, <2>3, <4>1 DEF DeployAppends
    <3>3. QED BY <3>1, <3>2
  <2>4. ASSUME NEW y \in Hosts, DeployVerifies(x, y) \/ DeployFails(x, y) PROVE
           \/ /\ deploy'[<<r, h>>] = deploy[<<r, h>>]
              /\ <<r, h>> \in verified' => <<r, h>> \in verified
           \/ /\ deploy[<<r, h>>] # "no"
              /\ <<r, h>> \in verified' => <<r, h>> \in verified \/ r \in keys'[h]
    <3>1. CASE x = r /\ y = h
      BY <2>4, <3>1 DEF DeployVerifies, DeployFails, fileVars
    <3>2. CASE ~ (x = r /\ y = h)
      <4>1. <<x, y>> # <<r, h>>
        BY <3>2
      <4>2. QED BY <1>0, <2>4, <4>1 DEF DeployVerifies, DeployFails
    <3>3. QED BY <3>1, <3>2
  <2>5. CASE CreateRotation(x) \/ Promote(x) \/ PromoteRefused(x)
    BY <1>1, <2>5 DEF CreateRotation, Promote, PromoteRefused
  <2>6. QED BY <2>1, <2>2, <2>3, <2>4, <2>5 DEF RotationStep
<1>3. CASE UNCHANGED vars
  BY <1>1, <1>3 DEF vars, rotateVars
<1>4. CASE \E x \in Hosts : HostStep(x)
  BY <1>1, <1>4 DEF HostStep, Bootstrap, CreateHostConnects, CreateHostInserts,
                    DeleteHost, rotateVars
<1>5. CASE \E restored \in SUBSET Hosts : RestoreHosts(restored)
  BY <1>1, <1>5 DEF RestoreHosts, rotateVars
<1>6. CASE RetirementStep
  BY <1>1, <1>6 DEF RetirementStep, RequestRetirement, DecideRetirement, ExecuteRetirement,
                    RemoveBegins, RemoveLands, LateRemoveLands, LateRemoveDies, RemoveFails,
                    RetirementEnds, rotateVars
<1>7. CASE ApiRestart
  BY <1>0, <1>7 DEF ApiRestart
<1>8. QED BY <1>2, <1>3, <1>4, <1>5, <1>6, <1>7 DEF Next

LEMMA Nowhere == ASSUME TypeOK, NewIsNowhere, [Next]_vars PROVE NewIsNowhere'
<1>1. SUFFICES ASSUME NEW r \in Rotations, NEW h \in Hosts, rotation'[r] = "none"
               PROVE  deploy'[<<r, h>>] = "no" /\ <<r, h>> \notin verified'
  BY DEF NewIsNowhere
<1>2. rotation[r] = "none"
  BY <1>1, StatusesMove
<1>3. deploy[<<r, h>>] = "no" /\ <<r, h>> \notin verified
  BY <1>2 DEF NewIsNowhere
<1>4. QED BY <1>2, <1>3, DeployChanges

\* What a retirement is asked for is the key before the active one.
LEMMA OldKeyIsOld ==
    ASSUME TypeOK, NEW k \in Keys, OldKey(k), Having("active") # {}
    PROVE  Old(k)
<1> DEFINE old == {i \in 1..Len(promoted) : rotation[promoted[i]] = "superseded"}
<1>1. CASE old = {}
  BY <1>1 DEF OldKey, Old
<1>2. CASE old # {}
  <2>1. PICK i \in old : k = promoted[i]
    BY <1>2 DEF OldKey
  <2>2. k \in Rotations /\ rotation[k] = "superseded"
    BY <2>1 DEF TypeOK
  <2>3. QED BY <2>2 DEF Old
<1>3. QED BY <1>1, <1>2

LEMMA Retires == ASSUME TypeOK, RetiresOld, [Next]_vars PROVE RetiresOld'
<1>0. retirement \in Retirements
  BY DEF TypeOK
<1>1. \A k \in Keys : Old(k) => Old(k)'
  BY OldStays
<1>2. ASSUME retirement'.status # "none" =>
                 retirement.status # "none" /\ retirement'.key = retirement.key,
             todo' # {} => retirement'.status = "running"
      PROVE  RetiresOld'
  BY <1>1, <1>2 DEF RetiresOld, Old
<1>3. CASE UNCHANGED retireVars
  BY <1>2, <1>3 DEF retireVars, RetiresOld
<1>4. CASE UNCHANGED vars
  BY <1>3, <1>4 DEF vars
<1>5. CASE \E h \in Hosts : HostStep(h)
  BY <1>3, <1>5 DEF HostStep, Bootstrap, CreateHostConnects, CreateHostInserts, DeleteHost
<1>6. CASE \E restored \in SUBSET Hosts : RestoreHosts(restored)
  BY <1>3, <1>6 DEF RestoreHosts
<1>7. CASE \E r \in Rotations : RotationStep(r)
  BY <1>3, <1>7 DEF RotationStep, CreateRotation, DeployStart, Promote, PromoteRefused,
                    DeployAppends, DeployVerifies, DeployFails
<1>8. CASE RetirementStep
  <2>1. ASSUME NEW u \in Users, RequestRetirement(u) PROVE RetiresOld'
    <3>1. PICK k \in Keys :
            /\ OldKey(k)
            /\ retirement' = [status |-> "pending", key |-> k, by |-> u, failed |-> FALSE]
      BY <2>1 DEF RequestRetirement
    <3>2. Old(k)'
      BY <1>1, <2>1, <3>1, OldKeyIsOld DEF RequestRetirement
    <3>3. todo' = {}
      BY <2>1 DEF RequestRetirement, RetiresOld
    <3>4. retirement'.key = k
      BY <3>1
    <3>5. QED BY <3>2, <3>3, <3>4 DEF RetiresOld, Old
  <2>2. ASSUME NEW u \in Users, DecideRetirement(u) PROVE RetiresOld'
    BY <1>0, <1>2, <2>2 DEF DecideRetirement, RetiresOld, Retirements, NoRetirement
  <2>3. CASE ExecuteRetirement
    BY <1>0, <1>2, <2>3 DEF ExecuteRetirement, Retirements
  <2>4. CASE RetirementEnds
    BY <1>2, <2>4 DEF RetirementEnds, NoRetirement
  <2>5. ASSUME NEW h \in Hosts, RemoveBegins(h) PROVE RetiresOld'
    BY <1>3, <2>5 DEF RemoveBegins
  <2>6. ASSUME NEW h \in Hosts, RemoveLands(h) \/ LateRemoveLands(h) PROVE RetiresOld'
    BY <1>0, <1>2, <2>6 DEF RemoveLands, LateRemoveLands, RetiresOld, Retirements
  <2>9. ASSUME NEW h \in Hosts, LateRemoveDies(h) PROVE RetiresOld'
    BY <1>3, <2>9 DEF LateRemoveDies
  <2>7. ASSUME NEW h \in Hosts, RemoveFails(h) PROVE RetiresOld'
    BY <1>0, <1>2, <2>7 DEF RemoveFails, RetiresOld, Retirements
  <2>8. QED BY <1>8, <2>1, <2>2, <2>3, <2>4, <2>5, <2>6, <2>7, <2>9 DEF RetirementStep
<1>9. CASE ApiRestart
  BY <1>0, <1>2, <1>9 DEF ApiRestart, Retirements
<1>10. QED BY <1>4, <1>5, <1>6, <1>7, <1>8, <1>9 DEF Next

LEMMA Rewrites == ASSUME TypeOK, RetiresOld, RewritesKeep, [Next]_vars PROVE RewritesKeep'
<1>1. SUFFICES ASSUME NEW h \in Hosts, moving'[h] # {}, NEW k \in keys'[h],
                      k \notin rewriting'[h], <<h, k>> \notin raced'
               PROVE  Old(k)'
  BY DEF RewritesKeep, Old, Having
<1>2. keys[h] \subseteq Keys
  BY DEF TypeOK
<1>3. /\ k \in keys[h]
      /\ \/ k \notin rewriting[h] /\ moving[h] # {} /\ <<h, k>> \notin raced
         \/ todo # {} /\ k = retirement.key
  <2>1. CASE Rewritten(h)
    BY <1>1, <2>1 DEF Rewritten
  <2>2. CASE Untouched(h)
    BY <1>1, <1>2, <2>2 DEF Untouched
  <2>3. ASSUME NEW x \in Keys, Gains(h, x)
        PROVE  k \in keys[h] /\ k \notin rewriting[h] /\ moving[h] # {} /\ <<h, k>> \notin raced
    BY <1>1, <1>2, <2>3 DEF Gains
  <2>4. QED BY <1>1, <2>1, <2>2, <2>3, FileChanges DEF Replaced
<1>4. k \in Keys
  BY <1>2, <1>3
<1>5. CASE k \notin rewriting[h] /\ moving[h] # {} /\ <<h, k>> \notin raced
  BY <1>3, <1>4, <1>5, OldStays DEF RewritesKeep
<1>6. CASE todo # {} /\ k = retirement.key
  BY <1>4, <1>6, OldStays DEF RetiresOld
<1>7. QED BY <1>3, <1>5, <1>6

LEMMA Verifications ==
    ASSUME TypeOK, NewIsNowhere, RewritesKeep, VerifiedIsInstalled, [Next]_vars
    PROVE  VerifiedIsInstalled'
<1>1. SUFFICES ASSUME NEW r \in Rotations, rotation'[r] \in {"staged", "active"},
                      NEW h \in Hosts, <<r, h>> \in verified'
               PROVE  r \in keys'[h] \/ <<h, r>> \in raced'
  BY DEF VerifiedIsInstalled, Having
<1>2. rotation[r] \in {"none", "staged", "active"} /\ r \in Keys
  BY <1>1, StatusesMove DEF Keys
<1>3. CASE <<r, h>> \in verified
  <2>1. rotation[r] \in {"staged", "active"}
    BY <1>2, <1>3 DEF NewIsNowhere
  <2>2. r \in keys[h] \/ <<h, r>> \in raced
    BY <1>3, <2>1 DEF VerifiedIsInstalled, Having
  <2>3. ~Old(r)
    BY <2>1 DEF Old
  <2>4. QED BY <1>2, <2>2, <2>3, LineStays
<1>4. CASE <<r, h>> \notin verified
  BY <1>1, <1>4, DeployChanges
<1>5. QED BY <1>3, <1>4

\* A promotion supersedes the active rotation first.
LEMMA Actives == ASSUME TypeOK, OneActive, [Next]_vars PROVE OneActive'
<1>1. CASE \E r \in Rotations : Promote(r)
  BY <1>1, PromotedInUse DEF OneActive
<1>2. CASE \E r \in Rotations : PromoteRefused(r)
  <2>1. Having("active")' = {}
    BY <1>2 DEF PromoteRefused, Superseded, Having
  <2>2. QED BY <2>1 DEF OneActive
<1>3. CASE ~ \E r \in Rotations : Promote(r) \/ PromoteRefused(r)
  BY <1>3, InUseStays DEF OneActive
<1>4. QED BY <1>1, <1>2, <1>3

\* The hosts in the inventory after a step were there before it, were reached in
\* it, or are enabled without a test.
LEMMA HostChanges ==
    ASSUME TypeOK, [Next]_vars, NEW h \in (enabled \cup adding)'
    PROVE  \/ h \in enabled \cup adding /\ (h \in untested => h \in untested')
           \/ h \in untested'
           \/ CreateHostConnects(h) /\ UNCHANGED <<fileVars, rotateVars>>
           \/ \E r \in Rotations : Promote(r) /\ h \in enabled
<1>1. CASE UNCHANGED hostVars
  BY <1>1 DEF hostVars
<1>2. CASE UNCHANGED vars
  BY <1>1, <1>2 DEF vars
<1>3. ASSUME NEW x \in Hosts, HostStep(x)
      PROVE  \/ h \in enabled \cup adding /\ (h \in untested => h \in untested')
             \/ CreateHostConnects(h) /\ UNCHANGED <<fileVars, rotateVars>>
  <2>1. CASE Bootstrap(x)
    BY <1>1, <2>1 DEF Bootstrap, hostVars
  <2>2. CASE CreateHostConnects(x)
    BY <2>2 DEF CreateHostConnects, fileVars, rotateVars
  <2>3. CASE CreateHostInserts(x) \/ DeleteHost(x)
    BY <2>3 DEF CreateHostInserts, DeleteHost
  <2>4. QED BY <1>3, <2>1, <2>2, <2>3 DEF HostStep
<1>4. CASE \E restored \in SUBSET Hosts : RestoreHosts(restored)
  BY <1>4 DEF RestoreHosts
<1>5. ASSUME NEW r \in Rotations, RotationStep(r) PROVE
             \/ h \in enabled \cup adding /\ (h \in untested => h \in untested')
             \/ h \in untested'
             \/ Promote(r) /\ h \in enabled
  <2>1. CASE Promote(r)
    BY <2>1 DEF Promote
  <2>2. CASE ~Promote(r)
    <3>1. UNCHANGED hostVars
      BY <1>5, <2>2 DEF RotationStep, CreateRotation, DeployStart, PromoteRefused,
                        DeployAppends, DeployVerifies, DeployFails
    <3>2. QED BY <3>1 DEF hostVars
  <2>3. QED BY <2>1, <2>2
<1>6. CASE RetirementStep
  BY <1>1, <1>6 DEF RetirementStep, RequestRetirement, DecideRetirement, ExecuteRetirement,
                    RemoveBegins, RemoveLands, LateRemoveLands, LateRemoveDies, RemoveFails,
                    RetirementEnds
<1>7. CASE ApiRestart
  BY <1>7 DEF ApiRestart
<1>8. QED BY <1>2, <1>3, <1>4, <1>5, <1>6, <1>7 DEF Next

LEMMA CutOffs ==
    ASSUME TypeOK, RetiresOld, RewritesKeep, VerifiedIsInstalled, NoneCutOff, [Next]_vars
    PROVE  NoneCutOff'
<1>1. SUFFICES ASSUME NEW h \in (enabled \cup adding)', ~dropped', h \notin untested'
               PROVE  InUse' \in keys'[h] \/ <<h, InUse'>> \in raced'
  BY DEF NoneCutOff, Reachable
<1>2. h \in Hosts
  BY Types DEF TypeOK
<1>3. CASE \E r \in Rotations : Promote(r)
  <2>1. PICK r \in Rotations : Promote(r)
    BY <1>3
  <2>2. h \in enabled /\ <<r, h>> \in verified /\ rotation[r] = "staged"
    BY <1>1, <2>1 DEF Promote
  <2>3. r \in keys[h] \/ <<h, r>> \in raced
    BY <1>2, <2>2 DEF VerifiedIsInstalled, Having
  <2>4. QED BY <2>1, <2>3, PromotedInUse DEF Promote, fileVars
<1>4. CASE ~ \E r \in Rotations : Promote(r)
  <2>1. InUse' = InUse /\ dropped' = dropped
    BY <1>1, <1>4, InUseStays DEF PromoteRefused
  <2>2. CASE CreateHostConnects(h) /\ UNCHANGED <<fileVars, rotateVars>>
    BY <2>1, <2>2 DEF CreateHostConnects, Reachable, fileVars
  <2>3. CASE h \in enabled \cup adding /\ (h \in untested => h \in untested')
    <3>1. InUse \in keys[h] \/ <<h, InUse>> \in raced
      BY <1>1, <2>1, <2>3 DEF NoneCutOff, Reachable
    <3>2. InUse \in Keys /\ ~Old(InUse)
      BY <1>1, <2>1, InUseKey, OldNotInUse
    <3>3. QED BY <1>2, <2>1, <3>1, <3>2, LineStays
  <2>4. QED BY <1>1, <1>4, <2>2, <2>3, HostChanges
<1>5. QED BY <1>3, <1>4

-----------------------------------------------------------------------------
LEMMA Start == Init => Inv
<1> SUFFICES ASSUME Init PROVE Inv
  OBVIOUS
<1>1. TypeOK
  <2>1. keys \in [Hosts -> SUBSET Keys] /\ rewriting \in [Hosts -> SUBSET Keys]
    BY DEF Init, Keys
  <2>8. moving \in [Hosts -> SUBSET {"own", "late"}]
    BY DEF Init
  <2>2. /\ rotation \in [Rotations -> RotationStatuses] /\ promoted \in Seq(Rotations)
        /\ deploy \in [Rotations \X Hosts -> {"no", "todo", "appended"}]
    BY DEF Init, RotationStatuses
  <2>3. retirement \in Retirements
    BY DEF Init, Retirements, NoRetirement
  <2>4. faults \in 0..MaxFaults
    BY DEF Init
  <2>5. enabled \subseteq Hosts /\ known \subseteq Hosts /\ adding \subseteq Hosts
    BY DEF Init
  <2>6. /\ verified \subseteq Rotations \X Hosts /\ todo \subseteq Hosts
        /\ dropped \in BOOLEAN /\ raced \subseteq Hosts \X Keys /\ untested \subseteq Hosts
    BY DEF Init
  <2>7. QED BY <2>1, <2>2, <2>3, <2>4, <2>5, <2>6, <2>8 DEF TypeOK
<1>2. Having("active") = {} /\ InUse = FileKey
  BY DEF Init, Having, InUse
<1>3. OneActive /\ NewIsNowhere /\ RetiresOld /\ RewritesKeep /\ VerifiedIsInstalled
  BY <1>2 DEF Init, OneActive, NewIsNowhere, RetiresOld, RewritesKeep, VerifiedIsInstalled,
              Having, NoRetirement
<1>4. NoneCutOff
  BY <1>1, <1>2 DEF Init, NoneCutOff, Reachable, TypeOK
<1>5. QED BY <1>1, <1>3, <1>4 DEF Inv

LEMMA Step == Inv /\ [Next]_vars => Inv'
BY Types, Actives, Nowhere, Retires, Rewrites, Verifications, CutOffs DEF Inv

LEMMA Invariance == Spec => []Inv
BY Start, Step, PTL DEF Spec

\* Every variable keeps its type, whatever keys are rotated and retired.
THEOREM TypeCorrect == Spec => []TypeOK
BY Invariance, PTL DEF Inv

\* A host marked verified for a rotation (main.py 2775) accepts its key as long as
\* the rotation is staged or active, unless a removal took that very line along: it
\* came while the file was replaced, or two removals wrote one file.
THEOREM Verified == Spec => []VerifiedIsInstalled
BY Invariance, PTL DEF Inv

\* promote_ssh_rotation and execute_ssh_key_retirement cut no enabled host off, but
\* for a refused promotion until the next, a removal that took the line of the key
\* in use along, and a host enabled untested, by a restored version or at a start.
THEOREM HostsStay == Spec => []EnabledHostsReachable
<1>1. Inv => EnabledHostsReachable
  BY DEF Inv, NoneCutOff, EnabledHostsReachable
<1>2. QED BY <1>1, Invariance, PTL

\* At most one rotation is active, so that the ORDER BY and LIMIT of the SELECT in
\* _run_ssh_unlimited (main.py 3299) never choose.
THEOREM ActiveAlone == Spec => []OneActive
BY Invariance, PTL DEF Inv

\* A file loses only keys that no promotion brings back, and raced lines: while one
\* removal at a time is under way on a host and no line comes meanwhile, never the key
\* in use, nor that of a rotation on its way, however long the removal takes.
THEOREM OnlyOldKeysGo ==
    Spec => [][\A h \in Hosts : \A k \in keys[h] \ keys'[h] : Old(k) \/ <<h, k>> \in raced]_vars
<1>1. ASSUME Inv, [Next]_vars, NEW h \in Hosts, NEW k \in keys[h] \ keys'[h]
      PROVE  Old(k) \/ <<h, k>> \in raced
  BY <1>1, KeysStay DEF Inv
<1>2. Inv /\ [Next]_vars =>
        [\A h \in Hosts : \A k \in keys[h] \ keys'[h] : Old(k) \/ <<h, k>> \in raced]_vars
  BY <1>1
<1>3. QED BY <1>2, Invariance, PTL DEF Spec

\* A rotation that was superseded or retired stays so: promote_ssh_rotation never
\* makes an old key the key in use again.
THEOREM OldIsOld ==
    Spec => [][\A r \in Rotations : rotation[r] \in {"superseded", "retired"} =>
                    rotation'[r] \in {"superseded", "retired"}]_vars
<1>1. Inv /\ [Next]_vars =>
        [\A r \in Rotations : rotation[r] \in {"superseded", "retired"} =>
             rotation'[r] \in {"superseded", "retired"}]_vars
  BY StatusesMove DEF Inv
<1>2. QED BY <1>1, Invariance, PTL DEF Spec
=============================================================================
