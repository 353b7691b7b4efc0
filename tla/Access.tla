------------------------------- MODULE Access -------------------------------
(***************************************************************************)
(* Logging in, sessions, MFA, accounts and groups (backend/app/main.py).    *)
(* The server answers HTTP requests one await at a time: a client is at one *)
(* of the awaits of login or of verify_mfa_code, which runs in a thread, or *)
(* between authenticate_api, which looks its session up in a thread, and    *)
(* the handler, whose statements run without a break.                       *)
(***************************************************************************)
EXTENDS Naturals, FiniteSets

CONSTANTS
    Users,           \* account ids, never given twice
    Seed,            \* the administrator that the first start creates
    Groups,
    OwnGroups,       \* the groups that every start puts back
    Administrators,  \* the one of them that nobody may change
    Clients,         \* requests the server has under way
    Slots,           \* rows of platform_sessions
    Codes,           \* the recovery codes of one generation
    Watched,         \* accounts whose failed logins are followed
    Limits,          \* values of auth_security_policy.max_failed_attempts
    Windows,         \* values of auth_security_policy.lockout_minutes
    Limit, Window,   \* those of a new database
    MaxChanges,      \* bound on the changes of accounts, groups and policy
    MaxAged,         \* bound on the failures of an account outside the window
    None

ASSUME AccessAssumption ==
    /\ Seed \in Users /\ OwnGroups \subseteq Groups /\ Administrators \in OwnGroups
    /\ Watched \subseteq Users /\ IsFiniteSet(Clients)
    /\ Limits \subseteq Nat \ {0} /\ Limit \in Limits
    /\ Windows \subseteq Nat /\ Window \in Windows
    /\ MaxChanges \in Nat /\ MaxAged \in Nat
    /\ None \notin Users \cup Groups \cup Slots

VARIABLES
    account,    \* platform_users, platform_user_groups and user_mfa
    group,      \* platform_groups: does the group have access.manage?
    seed,       \* the account of the name ADMIN_USERNAME, if there is one
    failures,   \* auth_login_events: failed logins since the last success, in the window
    aged,       \* those that are older than the window
    carried,    \* those of failures that are older than the last change of the policy
    policy,     \* auth_security_policy
    session,    \* platform_sessions
    client,     \* where each request is and what it has read
    changes,    \* how many of MaxChanges have been made; versions passwords and codes
    accepted,   \* history: recovery codes that were accepted
    reused,     \* history: accounts with a code that was accepted again
    contested   \* history: accounts whose codes were written over a stale reading

vars == <<account, group, seed, failures, aged, carried, policy, session, client,
          changes, accepted, reused, contested>>

-----------------------------------------------------------------------------
Versions == 0..MaxChanges
CodeSet  == Versions \X Codes

Accounts ==
    [state : {"never", "enabled", "locked", "deleted"}, group : Groups \cup {None},
     pw : Versions, mfa : {"none", "setup", "on"}, codes : SUBSET CodeSet]

NoAccount(s) == [state |-> s, group |-> None, pw |-> 0, mfa |-> "none", codes |-> {}]

Sessions == [user : Users, pw : Versions, late : BOOLEAN]

Policies == [strict : BOOLEAN, limit : Limits, window : Windows]

\* "asked" to "entered" are the awaits of login; "coding" and "spending" are
\* those of verify_mfa_code; "granted" is past authenticate_api.
Stages == {"idle", "asked", "counted", "refused", "known", "coding", "spending",
           "verified", "entered", "granted"}

Requests ==
    [at : Stages, for : {"none", "login", "regenerate", "disable"},
     user : Users \cup {None}, session : Slots \cup {None}, manage : BOOLEAN,
     policy : Policies \cup {None}, pw : Versions, left : SUBSET CodeSet,
     code : CodeSet \cup {None}]

Idle == [at |-> "idle", for |-> "none", user |-> None, session |-> None, manage |-> FALSE,
         policy |-> None, pw |-> 0, left |-> {}, code |-> None]

TypeOK ==
    /\ account \in [Users -> Accounts]
    /\ group \in [Groups -> {"absent", "plain", "manage"}]
    /\ seed \in Users \cup {None}
    /\ failures \in [Watched -> Nat] /\ aged \in [Watched -> Nat]
    /\ carried \in [Watched -> Nat]
    /\ policy \in Policies
    /\ session \in [Slots -> Sessions \cup {None}]
    /\ client \in [Clients -> Requests]
    /\ changes \in Versions
    /\ accepted \subseteq CodeSet /\ reused \subseteq Users /\ contested \subseteq Users

\* What the program's own groups permit.
Shipped(g) == IF g = Administrators THEN "manage" ELSE "plain"

Created(g, v) == [NoAccount("enabled") EXCEPT !.group = g, !.pw = v]

Init ==
    /\ account = [u \in Users |-> IF u = Seed THEN Created(Administrators, 0)
                                  ELSE NoAccount("never")]
    /\ group = [g \in Groups |-> IF g \in OwnGroups THEN Shipped(g) ELSE "absent"]
    /\ seed = Seed
    /\ failures = [u \in Watched |-> 0]
    /\ aged = [u \in Watched |-> 0] /\ carried = [u \in Watched |-> 0]
    /\ policy = [strict |-> FALSE, limit |-> Limit, window |-> Window]
    /\ session = [s \in Slots |-> None]
    /\ client = [c \in Clients |-> Idle]
    /\ changes = 0
    /\ accepted = {} /\ reused = {} /\ contested = {}

Exists(u)  == account[u].state \in {"enabled", "locked"}
Enabled(u) == account[u].state = "enabled"
Admins     == {u \in Users : Exists(u) /\ account[u].group = Administrators}
Manages(u) == Enabled(u) /\ group[account[u].group] = "manage"
Live(s)    == session[s] # None /\ Enabled(session[s].user)

-----------------------------------------------------------------------------
(* Logging in                                                               *)

At(c, stage) == client[c].at = stage
\* Past the check of MFA the policy that was read does not matter any more.
Moves(c, stage) == client' = [client EXCEPT ![c].at = stage, ![c].policy = None]
Leaves(c) == client' = [client EXCEPT ![c] = Idle]

tables  == <<account, group, seed, policy, changes>>
logins  == <<failures, aged, carried>>
history == <<accepted, reused, contested>>

LoginStart(c, u) ==
    /\ At(c, "idle") /\ account[u].state # "never"
    /\ client' = [client EXCEPT ![c] = [Idle EXCEPT !.at = "asked", !.for = "login",
                                                    !.user = u, !.policy = policy]]
    /\ UNCHANGED <<tables, logins, session, history>>

\* How many of the failures a window of w minutes holds: those in the window in force
\* and some that are out of it, if it is wider, and not all of them if it is narrower.
Within(u, w) ==
    {n \in 0..(failures[u] + aged[u]) :
        /\ w >= policy.window => n >= failures[u]
        /\ w <= policy.window => n <= failures[u]}

\* What recent_failed_login_count returns, by the window that was read; any number
\* for the accounts that are not followed.
CountedBy(c) ==
    LET u == client[c].user
    IN  IF u \in Watched THEN Within(u, client[c].policy.window) ELSE {0} \cup Limits

\* Fault: the number of failures is not compared with the limit.
LoginCountsOnly(c) ==
    /\ At(c, "asked")
    /\ client' = [client EXCEPT ![c].at = "counted"]
    /\ UNCHANGED <<tables, logins, session, history>>

LoginCounts(c) ==
    /\ At(c, "asked")
    /\ \E n \in CountedBy(c) : n < client[c].policy.limit
    /\ client' = [client EXCEPT ![c].at = "counted"]
    /\ UNCHANGED <<tables, logins, session, history>>

\* A refusal for too many failures does not count as one.
LoginLimited(c) ==
    /\ At(c, "asked") /\ Leaves(c)
    /\ \E n \in CountedBy(c) : n >= client[c].policy.limit
    /\ UNCHANGED <<tables, logins, session, history>>

\* The password is wrong, or the account is locked or gone.
LoginFails(c) ==
    /\ At(c, "counted") /\ Moves(c, "refused")
    /\ UNCHANGED <<tables, logins, session, history>>

\* record_login_event swallows a database error.
RecordFailure(c) ==
    /\ At(c, "refused") /\ Leaves(c)
    /\ \/ UNCHANGED failures
       \/ /\ client[c].user \in Watched
          /\ failures' = [failures EXCEPT ![client[c].user] = @ + 1]
    /\ UNCHANGED <<tables, aged, carried, session, history>>

LoginAuthenticates(c) ==
    /\ At(c, "counted") /\ Enabled(client[c].user)
    /\ client' = [client EXCEPT ![c].at = "known", ![c].pw = account[client[c].user].pw]
    /\ UNCHANGED <<tables, logins, session, history>>

\* user_mfa and the membership are read; strictness is that of the first await.
LoginReadsMfa(c) ==
    LET a == account[client[c].user] IN
    /\ At(c, "known")
    /\ IF a.mfa = "on" THEN Moves(c, "coding")
       ELSE IF client[c].policy.strict /\ a.group = Administrators THEN Leaves(c)
       ELSE Moves(c, "verified")
    /\ UNCHANGED <<tables, logins, session, history>>

-----------------------------------------------------------------------------
(* verify_mfa_code, in a thread of its own                                  *)

\* Without MFA, or with the current TOTP code, there is nothing to spend.
VerifyPasses(c) ==
    /\ At(c, "coding") /\ Moves(c, "verified")
    /\ UNCHANGED <<tables, logins, session, history>>

VerifyRefuses(c) ==
    /\ At(c, "coding") /\ account[client[c].user].mfa = "on"
    /\ Leaves(c)
    /\ UNCHANGED <<tables, logins, session, history>>

VerifyReads(c, code) ==
    LET a == account[client[c].user] IN
    /\ At(c, "coding") /\ a.mfa = "on" /\ code \in a.codes
    /\ client' = [client EXCEPT ![c].at = "spending", ![c].code = code,
                                ![c].left = a.codes \ {code}]
    /\ UNCHANGED <<tables, logins, session, history>>

Accept(c) ==
    /\ accepted' = accepted \cup {client[c].code}
    /\ reused' = IF client[c].code \in accepted THEN reused \cup {client[c].user} ELSE reused
    /\ client' = [client EXCEPT ![c].at = "verified", ![c].left = {}, ![c].code = None]

\* Fault: the code stays in the list.
VerifyKeepsCode(c) ==
    /\ At(c, "spending") /\ Accept(c)
    /\ UNCHANGED <<tables, logins, session, contested>>

\* The whole list is written, as it was read: what another request did to the
\* codes in between is undone.  Without a row the UPDATE finds nothing.
VerifyWrites(c) ==
    LET u == client[c].user
        a == account[u]
    IN
    /\ At(c, "spending") /\ Accept(c)
    /\ account' = IF a.mfa = "none" THEN account
                  ELSE [account EXCEPT ![u].codes = client[c].left]
    /\ contested' = IF a.codes = client[c].left \cup {client[c].code} THEN contested
                    ELSE contested \cup {u}
    /\ UNCHANGED <<group, seed, policy, changes, logins, session>>

-----------------------------------------------------------------------------
(* Sessions                                                                 *)

Unused(s) == session[s] = None /\ \A c \in Clients : client[c].session # s

\* The foreign key refuses a deleted account; nothing else is read again.
CreateSession(c, s) ==
    LET u == client[c].user IN
    /\ At(c, "verified") /\ client[c].for = "login" /\ Exists(u) /\ Unused(s)
    /\ session' = [session EXCEPT ![s] =
                     [user |-> u, pw |-> client[c].pw,
                      late |-> ~Enabled(u) \/ client[c].pw # account[u].pw]]
    /\ Moves(c, "entered")
    /\ UNCHANGED <<tables, logins, history>>

CreateSessionRaises(c) ==
    /\ At(c, "verified") /\ client[c].for = "login" /\ ~Exists(client[c].user)
    /\ Leaves(c)
    /\ UNCHANGED <<tables, logins, session, history>>

RecordSuccess(c) ==
    /\ At(c, "entered") /\ Leaves(c)
    /\ \/ UNCHANGED logins
       \/ /\ client[c].user \in Watched
          /\ failures' = [failures EXCEPT ![client[c].user] = 0]
          /\ aged' = [aged EXCEPT ![client[c].user] = 0]
          /\ carried' = [carried EXCEPT ![client[c].user] = 0]
    /\ UNCHANGED <<tables, session, history>>

\* The oldest failure that counts becomes older than lockout_minutes.
FailureAges(u) ==
    /\ failures[u] > 0 /\ aged[u] < MaxAged
    /\ failures' = [failures EXCEPT ![u] = @ - 1]
    /\ aged' = [aged EXCEPT ![u] = @ + 1]
    /\ carried' = [carried EXCEPT ![u] = IF @ > 0 THEN @ - 1 ELSE 0]
    /\ UNCHANGED <<tables, session, client, history>>

\* ... and older than the widest window there can be.
FailureExpires(u) ==
    /\ aged[u] > 0
    /\ aged' = [aged EXCEPT ![u] = @ - 1]
    /\ UNCHANGED <<tables, failures, carried, session, client, history>>

SessionExpires(s) ==
    /\ session[s] # None
    /\ session' = [session EXCEPT ![s] = None]
    /\ UNCHANGED <<tables, logins, client, history>>

\* authenticate_api: who the session belongs to and what the groups permit now.
Grant(c, s) ==
    /\ At(c, "idle") /\ Live(s)
    /\ client' = [client EXCEPT ![c] = [Idle EXCEPT !.at = "granted",
                     !.user = session[s].user, !.session = s,
                     !.manage = Manages(session[s].user)]]
    /\ UNCHANGED <<tables, logins, session, history>>

\* The handler reads only, or refuses.
RequestEnds(c) ==
    /\ At(c, "granted") /\ Leaves(c)
    /\ UNCHANGED <<tables, logins, session, history>>

Logout(c) ==
    /\ At(c, "granted") /\ Leaves(c)
    /\ session' = [session EXCEPT ![client[c].session] = None]
    /\ UNCHANGED <<tables, logins, history>>

\* require_permission goes by what authenticate_api has read.
Managing(c) == At(c, "granted") /\ client[c].manage /\ Leaves(c)

RevokeSession(c, s) ==
    /\ Managing(c) /\ session[s] # None /\ s # client[c].session
    /\ session' = [session EXCEPT ![s] = None]
    /\ UNCHANGED <<tables, logins, history>>

Of(u) == {s \in Slots : session[s] # None /\ session[s].user = u}
Revoked(gone) == session' = [s \in Slots |-> IF s \in gone THEN None ELSE session[s]]

RevokeOthers(c) ==
    /\ Managing(c)
    /\ Revoked(Of(client[c].user) \ {client[c].session})
    /\ UNCHANGED <<tables, logins, history>>

-----------------------------------------------------------------------------
(* MFA of one's own account                                                 *)

Change == changes < MaxChanges /\ changes' = changes + 1
Issued == {changes'} \X Codes

\* A row that is set up but not enabled is replaced; the foreign key needs the account.
SetupMfa(c) ==
    LET u == client[c].user IN
    /\ At(c, "granted") /\ Leaves(c) /\ Change
    /\ Exists(u) /\ account[u].mfa # "on"
    /\ account' = [account EXCEPT ![u].mfa = "setup", ![u].codes = Issued]
    /\ UNCHANGED <<group, seed, policy, logins, session, history>>

EnableMfa(c) ==
    LET u == client[c].user IN
    /\ At(c, "granted") /\ Leaves(c)
    /\ account[u].mfa # "none"
    /\ account' = [account EXCEPT ![u].mfa = "on"]
    /\ UNCHANGED <<group, seed, policy, changes, logins, session, history>>

StartVerify(c, purpose) ==
    /\ At(c, "granted")
    /\ client' = [client EXCEPT ![c].at = "coding", ![c].for = purpose,
                                ![c].session = None, ![c].manage = FALSE]
    /\ UNCHANGED <<tables, logins, session, history>>

RegenerateCodes(c) ==
    LET u == client[c].user IN
    /\ At(c, "verified") /\ client[c].for = "regenerate" /\ Leaves(c) /\ Change
    /\ account' = IF account[u].mfa = "on" THEN [account EXCEPT ![u].codes = Issued]
                  ELSE account
    /\ UNCHANGED <<group, seed, policy, logins, session, history>>

DisableMfa(c) ==
    /\ At(c, "verified") /\ client[c].for = "disable" /\ Leaves(c)
    /\ account' = [account EXCEPT ![client[c].user].mfa = "none",
                                  ![client[c].user].codes = {}]
    /\ UNCHANGED <<group, seed, policy, changes, logins, session, history>>

-----------------------------------------------------------------------------
(* Accounts, groups and the policy                                          *)

CreateUser(c, u, g) ==
    /\ Managing(c) /\ Change
    /\ account[u].state = "never" /\ group[g] # "absent"
    /\ account' = [account EXCEPT ![u] = Created(g, changes')]
    /\ seed' \in IF seed = None THEN {None, u} ELSE {seed}
    /\ UNCHANGED <<group, policy, logins, session, history>>

\* Fault: any administrator may be moved to another group.
UpdateUserUnchecked(c, u, g) ==
    /\ Managing(c) /\ Change
    /\ Exists(u) /\ group[g] # "absent"
    /\ account' = [account EXCEPT ![u].group = g]
    /\ UNCHANGED <<group, seed, policy, logins, session, history>>

UpdateUser(c, u, g) ==
    /\ Managing(c) /\ Change
    /\ Exists(u) /\ group[g] # "absent"
    /\ u \in Admins /\ g # Administrators => Cardinality(Admins) > 1
    /\ account' = [account EXCEPT ![u].group = g]
    /\ UNCHANGED <<group, seed, policy, logins, session, history>>

\* Fault: the sessions go on.
LockUserOnly(c, u) ==
    /\ Managing(c) /\ Change
    /\ u # client[c].user /\ Exists(u)
    /\ account' = [account EXCEPT ![u].state = "locked"]
    /\ UNCHANGED <<group, seed, policy, logins, session, history>>

LockUser(c, u) ==
    /\ Managing(c) /\ Change
    /\ u # client[c].user /\ Exists(u)
    /\ u \in Admins => Cardinality({a \in Admins : Enabled(a)}) > 1
    /\ account' = [account EXCEPT ![u].state = "locked"]
    /\ Revoked(Of(u))
    /\ UNCHANGED <<group, seed, policy, logins, history>>

\* Bounded by the locks, so it does not count as a change.
UnlockUser(c, u) ==
    /\ Managing(c)
    /\ account[u].state = "locked"
    /\ account' = [account EXCEPT ![u].state = "enabled"]
    /\ UNCHANGED <<group, seed, policy, changes, logins, session, history>>

\* One's own session goes on under the new password.
ResetPassword(c, u) ==
    LET own == IF u = client[c].user THEN {client[c].session} \cap Of(u) ELSE {} IN
    /\ Managing(c) /\ Change
    /\ Exists(u)
    /\ account' = [account EXCEPT ![u].pw = changes']
    /\ session' = [s \in Slots |-> IF s \in own THEN [session[s] EXCEPT !.pw = changes']
                                   ELSE IF s \in Of(u) THEN None ELSE session[s]]
    /\ UNCHANGED <<group, seed, policy, logins, history>>

\* Memberships, MFA and sessions go with the account.
DeleteUser(c, u) ==
    /\ Managing(c) /\ Change
    /\ u # client[c].user /\ Exists(u)
    /\ u \in Admins => Cardinality(Admins) > 1
    /\ account' = [account EXCEPT ![u] = NoAccount("deleted")]
    /\ seed' = IF u = seed THEN None ELSE seed
    /\ Revoked(Of(u))
    /\ UNCHANGED <<group, policy, logins, history>>

\* create_group and update_group; only an unused group can be deleted.
SetGroup(c, g, permits) ==
    /\ Managing(c) /\ Change
    /\ g # Administrators
    /\ permits = "absent" => \A u \in Users : account[u].group # g
    /\ group' = [group EXCEPT ![g] = permits]
    /\ UNCHANGED <<account, seed, policy, logins, session, history>>

Recounted(w) ==
    /\ failures' \in {f \in [Watched -> UNION {0..(failures[u] + aged[u]) : u \in Watched}] :
                         \A u \in Watched : f[u] \in Within(u, w)}
    /\ aged' = [u \in Watched |-> (failures[u] + aged[u]) - failures'[u]]

\* Fault: a limit one below the range is let in.
UpdatePolicyUnchecked(c, demand, limit, window) ==
    /\ Managing(c) /\ Change
    /\ demand => \A a \in Admins : Enabled(a) => account[a].mfa = "on"
    /\ Exists(client[c].user)
    /\ policy' = [strict |-> demand, limit |-> limit - 1, window |-> window]
    /\ Recounted(window)
    /\ carried' = failures'
    /\ UNCHANGED <<account, group, seed, session, history>>

\* MFA can be demanded once every enabled administrator has it; updated_by is
\* a foreign key.
UpdatePolicy(c, demand, limit, window) ==
    /\ Managing(c) /\ Change
    /\ demand => \A a \in Admins : Enabled(a) => account[a].mfa = "on"
    /\ Exists(client[c].user)
    /\ policy' = [strict |-> demand, limit |-> limit, window |-> window]
    /\ Recounted(window)
    /\ carried' = failures'
    /\ UNCHANGED <<account, group, seed, session, history>>

-----------------------------------------------------------------------------
\* Requests under way are lost; the permissions of the groups the program comes
\* with are reset, and the administrator is created if the name is free.
ApiRestart ==
    /\ client' = [c \in Clients |-> Idle]
    /\ group' = [g \in Groups |-> IF g \in OwnGroups THEN Shipped(g) ELSE group[g]]
    /\ IF seed # None THEN UNCHANGED <<account, seed>>
       ELSE \E u \in Users :
               /\ account[u].state = "never"
               /\ account' = [account EXCEPT ![u] = Created(Administrators, 0)]
               /\ seed' = u
    /\ UNCHANGED <<logins, policy, session, changes, history>>

LoginStep(c) ==
    \/ \E u \in Users : LoginStart(c, u)
    \/ LoginCounts(c) \/ LoginLimited(c) \/ LoginFails(c) \/ RecordFailure(c)
    \/ LoginAuthenticates(c) \/ LoginReadsMfa(c)
    \/ VerifyPasses(c) \/ VerifyRefuses(c) \/ VerifyWrites(c)
    \/ \E code \in CodeSet : VerifyReads(c, code)
    \/ \E s \in Slots : CreateSession(c, s)
    \/ CreateSessionRaises(c) \/ RecordSuccess(c)

OwnStep(c) ==
    \/ \E s \in Slots : Grant(c, s)
    \/ RequestEnds(c) \/ Logout(c) \/ SetupMfa(c) \/ EnableMfa(c)
    \/ \E purpose \in {"regenerate", "disable"} : StartVerify(c, purpose)
    \/ RegenerateCodes(c) \/ DisableMfa(c)

AccountStep(c) ==
    \/ \E u \in Users : LockUser(c, u) \/ UnlockUser(c, u) \/ ResetPassword(c, u)
                          \/ DeleteUser(c, u)
    \/ \E u \in Users, g \in Groups : CreateUser(c, u, g) \/ UpdateUser(c, u, g)

ManagerStep(c) ==
    \/ \E s \in Slots : RevokeSession(c, s)
    \/ RevokeOthers(c)
    \/ \E g \in Groups, permits \in {"absent", "plain", "manage"} : SetGroup(c, g, permits)
    \/ \E demand \in BOOLEAN, limit \in Limits, window \in Windows :
          UpdatePolicy(c, demand, limit, window)

Next ==
    \/ \E c \in Clients : LoginStep(c) \/ OwnStep(c) \/ AccountStep(c) \/ ManagerStep(c)
    \/ \E u \in Watched : FailureAges(u) \/ FailureExpires(u)
    \/ \E s \in Slots : SessionExpires(s)
    \/ ApiRestart

Spec == Init /\ [][Next]_vars

-----------------------------------------------------------------------------
(* Properties                                                               *)

\* A lock or a new password ends the sessions there are; what is left over is a
\* login that had already been authenticated when it came (late).
SessionsEndWithCredentials ==
    \A s \in Slots :
        session[s] # None /\ ~session[s].late =>
            Enabled(session[s].user) /\ session[s].pw = account[session[s].user].pw

\* No order of moves, locks and deletions leaves the program without an administrator.
AdministratorsRemain == Admins # {}

\* Logins that were counted before the others' failures were recorded, or by an
\* earlier policy, add at most one each to what the policy lets through: its limit,
\* or the failures it found when it came into force and that still count.
FailuresBounded ==
    \A u \in Watched :
        \/ failures[u] < policy.limit + Cardinality(Clients)
        \/ failures[u] <= carried[u] + Cardinality(Clients)

\* A recovery code is accepted once, unless two requests have spent codes of the
\* account at a time, or renewed them while one was spent.
CodesSpentOnce == reused \subseteq contested
=============================================================================
