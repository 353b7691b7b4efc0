---------------------------- MODULE RestorePromise ----------------------------
(***************************************************************************)
(* What an administrator relies on when configurations are restored, with   *)
(* no threads, files or Git in sight: the archive is only added to, the      *)
(* configuration changes in one section at a time, is completed, or becomes  *)
(* what an archived version says, and the last happens once for each         *)
(* request, with the content that was archived when it was asked for, and    *)
(* only when somebody else has approved it.  ConfigRestore implements this.  *)
(***************************************************************************)
EXTENDS Naturals, Sequences

CONSTANTS
    Admins, Requests,
    Items,    \* sections of the configuration
    Configs,  \* [Items -> {"none", "off", "on"}], as far as they exist
    None

VARIABLES
    config,   \* the configuration in force
    archive,  \* the versions kept of it
    ask       \* what has become of each request

vars == <<config, archive, ask>>

Init ==
    /\ config \in Configs
    /\ archive = <<config>>
    /\ ask = [r \in Requests |-> [stage |-> "none", target |-> config, by |-> None,
                                  decider |-> None]]

\* One section changes, in whatever way.
Change(i) ==
    /\ config' \in Configs
    /\ \A j \in Items \ {i} : config'[j] = config[j]
    /\ UNCHANGED <<archive, ask>>

\* Sections that are not there are added.
Complete ==
    /\ config' \in Configs
    /\ \A i \in Items : config[i] # "none" => config'[i] = config[i]
    /\ UNCHANGED <<archive, ask>>

Keep(version) ==
    /\ archive' = Append(archive, version)
    /\ UNCHANGED <<config, ask>>

Ask(r, a, n) ==
    /\ ask[r].stage = "none"
    /\ ask' = [ask EXCEPT ![r] = [stage |-> "asked", target |-> archive[n], by |-> a,
                                  decider |-> None]]
    /\ UNCHANGED <<config, archive>>

Decide(r, a, decision) ==
    /\ ask[r].stage = "asked" /\ a # ask[r].by
    /\ ask' = [ask EXCEPT ![r] = [stage |-> decision, target |-> @.target, by |-> @.by,
                                  decider |-> a]]
    /\ UNCHANGED <<config, archive>>

\* Sections that the version has become what it says, others stay or are switched off.
CarryOut(r) ==
    LET target == ask[r].target IN
    /\ ask[r].stage = "approved"
    /\ ask' = [ask EXCEPT ![r].stage = "carried"]
    /\ config' \in Configs
    /\ \A i \in Items :
          \/ config'[i] = target[i]
          \/ target[i] = "none" /\ config[i] # "none" /\ config'[i] \in {config[i], "off"}
    /\ UNCHANGED archive

\* Given up before anything was restored.
Drop(r) ==
    /\ ask[r].stage = "approved"
    /\ ask' = [ask EXCEPT ![r].stage = "dropped"]
    /\ UNCHANGED <<config, archive>>

Next ==
    \/ \E i \in Items : Change(i)
    \/ Complete
    \/ \E version \in Configs : Keep(version)
    \/ \E r \in Requests, a \in Admins :
          \/ \E n \in DOMAIN archive : Ask(r, a, n)
          \/ \E decision \in {"approved", "rejected"} : Decide(r, a, decision)
    \/ \E r \in Requests : CarryOut(r) \/ Drop(r)

Spec == Init /\ [][Next]_vars
=============================================================================
