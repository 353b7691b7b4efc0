---------------------------- MODULE AccessProofs ----------------------------
(***************************************************************************)
(* Proofs for Access: for any number of accounts, groups, sessions and      *)
(* requests under way (finitely many), any policies and number of changes.  *)
(***************************************************************************)
EXTENDS Access, FiniteSetTheorems, TLAPS

USE AccessAssumption

\* What a request carries at each stage.
Carrying ==
    \A c \in Clients :
        /\ client[c].at # "idle" => client[c].user \in Users
        /\ client[c].at = "spending" =>
              client[c].code \in CodeSet /\ client[c].code \notin client[c].left

\* The codes an account has, in its row or in a request that is spending one.
Held(u) ==
    account[u].codes \cup
    UNION {client[c].left \cup {client[c].code} :
             c \in {d \in Clients : client[d].at = "spending" /\ client[d].user = u}}

\* Codes are new when they are issued, no two accounts have the same one, and
\* without MFA there are none.
CodesApart ==
    /\ \A u \in Users : account[u].mfa = "none" => account[u].codes = {}
    /\ \A u \in Users : \A k \in Held(u) : k[1] <= changes
    /\ \A k \in accepted : k[1] <= changes
    /\ \A u, v \in Users : Held(u) \cap Held(v) # {} => u = v

\* A code that was accepted is not in the row any more.
SpentIsGone == \A u \in Users \ contested : accepted \cap account[u].codes = {}

\* Requests that may still record a failure of the account without having found
\* fewer failures, by the policy in force, than its limit now.
Counting(u) ==
    {c \in Clients : /\ client[c].user = u
                     /\ \/ client[c].at \in {"counted", "refused"}
                        \/ client[c].at = "asked" /\ client[c].policy # policy}

\* Each adds at most one to what the policy lets through.
Counted ==
    \A u \in Watched :
        \/ failures[u] + Cardinality(Counting(u)) < policy.limit + Cardinality(Clients)
        \/ failures[u] + Cardinality(Counting(u)) <= carried[u] + Cardinality(Clients)

Inv ==
    /\ TypeOK
    /\ Carrying
    /\ SessionsEndWithCredentials
    /\ AdministratorsRemain
    /\ CodesApart
    /\ SpentIsGone
    /\ CodesSpentOnce
    /\ Counted

-----------------------------------------------------------------------------
(* What a step does to each table                                           *)

\* Where the requests go.
LEMMA ClientShapes ==
    ASSUME [Next]_vars
    PROVE  \/ client' = client \/ ApiRestart
           \/ \E c \in Clients : \/ Leaves(c)
                                 \/ LoginAuthenticates(c) \/ VerifyWrites(c) \/ LoginCounts(c)
           \/ \E c \in Clients : Moves(c, "refused") /\ At(c, "counted")
           \/ \E c \in Clients, stage \in {"coding", "verified", "entered"} :
                 Moves(c, stage) /\ ~At(c, "idle")
           \/ \E c \in Clients, u \in Users : LoginStart(c, u)
           \/ \E c \in Clients, code \in CodeSet : VerifyReads(c, code)
           \/ \E c \in Clients, s \in Slots : Grant(c, s)
           \/ \E c \in Clients, purpose \in {"regenerate", "disable"} : StartVerify(c, purpose)
<1>1. CASE \E c \in Clients : LoginStep(c)
  BY <1>1 DEF LoginStep, LoginLimited, LoginFails, RecordFailure, LoginReadsMfa, VerifyPasses,
              VerifyRefuses,
              CreateSession, CreateSessionRaises, RecordSuccess, At
<1>2. CASE \E c \in Clients : OwnStep(c)
  BY <1>2 DEF OwnStep, RequestEnds, Logout, SetupMfa, EnableMfa, RegenerateCodes, DisableMfa
<1>3. CASE \E c \in Clients : AccountStep(c)
  BY <1>3 DEF AccountStep, LockUser, UnlockUser, ResetPassword, DeleteUser, CreateUser,
              UpdateUser, Managing
<1>4. CASE \E c \in Clients : ManagerStep(c)
  BY <1>4 DEF ManagerStep, RevokeSession, RevokeOthers, SetGroup, UpdatePolicy, Managing
<1>5. CASE UNCHANGED vars
  BY <1>5 DEF vars
<1>6. CASE (\E u \in Watched : FailureAges(u) \/ FailureExpires(u))
         \/ (\E s \in Slots : SessionExpires(s)) \/ ApiRestart
  BY <1>6 DEF FailureAges, FailureExpires, SessionExpires
<1>7. QED BY <1>1, <1>2, <1>3, <1>4, <1>5, <1>6 DEF Next

\* Who writes to platform_users, platform_user_groups and user_mfa.
LEMMA AccountShapes ==
    ASSUME [Next]_vars
    PROVE  \/ account' = account /\ changes' \in {changes, changes + 1}
              /\ (changes' # changes => changes < MaxChanges)
           \/ \E c \in Clients : VerifyWrites(c) \/ SetupMfa(c) \/ EnableMfa(c)
                                 \/ RegenerateCodes(c) \/ DisableMfa(c)
           \/ \E c \in Clients, u \in Users : LockUser(c, u) \/ UnlockUser(c, u)
                                              \/ ResetPassword(c, u) \/ DeleteUser(c, u)
           \/ \E c \in Clients, u \in Users, g \in Groups :
                  CreateUser(c, u, g) \/ UpdateUser(c, u, g)
           \/ ApiRestart
<1>1. CASE \E c \in Clients : LoginStep(c)
  BY <1>1 DEF LoginStep, LoginStart, LoginCounts, LoginLimited, LoginFails, RecordFailure,
              LoginAuthenticates, LoginReadsMfa,
              VerifyPasses, VerifyRefuses, VerifyReads, CreateSession, CreateSessionRaises,
              RecordSuccess, tables
<1>2. CASE \E c \in Clients : OwnStep(c)
  BY <1>2 DEF OwnStep, Grant, RequestEnds, Logout, StartVerify, tables
<1>3. CASE \E c \in Clients : AccountStep(c)
  BY <1>3 DEF AccountStep
<1>4. CASE \E c \in Clients : ManagerStep(c)
  BY <1>4 DEF ManagerStep, RevokeSession, RevokeOthers, SetGroup, UpdatePolicy, Change, tables
<1>5. CASE UNCHANGED vars
  BY <1>5 DEF vars
<1>6. CASE (\E u \in Watched : FailureAges(u) \/ FailureExpires(u))
         \/ (\E s \in Slots : SessionExpires(s)) \/ ApiRestart
  BY <1>6 DEF FailureAges, FailureExpires, SessionExpires, tables
<1>7. QED BY <1>1, <1>2, <1>3, <1>4, <1>5, <1>6 DEF Next

\* Who writes to platform_sessions.
LEMMA SessionShapes ==
    ASSUME [Next]_vars
    PROVE  \/ session' = session
           \/ \E s \in Slots : session' = [session EXCEPT ![s] = None]
           \/ \E gone \in SUBSET Slots : Revoked(gone)
           \/ \E c \in Clients : session' = [session EXCEPT ![client[c].session] = None]
           \/ \E c \in Clients, s \in Slots : CreateSession(c, s)
           \/ \E c \in Clients, u \in Users : ResetPassword(c, u)
<1>1. CASE \E c \in Clients : LoginStep(c)
  BY <1>1 DEF LoginStep, LoginStart, LoginCounts, LoginLimited, LoginFails, RecordFailure,
              LoginAuthenticates, LoginReadsMfa,
              VerifyPasses, VerifyRefuses, VerifyReads, VerifyWrites, CreateSessionRaises,
              RecordSuccess
<1>2. CASE \E c \in Clients : OwnStep(c)
  BY <1>2 DEF OwnStep, Grant, RequestEnds, Logout, StartVerify, SetupMfa, EnableMfa,
              RegenerateCodes, DisableMfa
<1>3. CASE \E c \in Clients : AccountStep(c)
  BY <1>3 DEF AccountStep, LockUser, UnlockUser, DeleteUser, CreateUser, UpdateUser, Of
<1>4. CASE \E c \in Clients : ManagerStep(c)
  <2>1. \A c \in Clients : RevokeOthers(c) => \E gone \in SUBSET Slots : Revoked(gone)
    BY DEF RevokeOthers, Of
  <2>2. QED BY <1>4, <2>1 DEF ManagerStep, RevokeSession, SetGroup, UpdatePolicy
<1>5. CASE UNCHANGED vars
  BY <1>5 DEF vars
<1>6. CASE (\E u \in Watched : FailureAges(u) \/ FailureExpires(u))
         \/ (\E s \in Slots : SessionExpires(s)) \/ ApiRestart
  BY <1>6 DEF FailureAges, FailureExpires, SessionExpires, ApiRestart
<1>7. QED BY <1>1, <1>2, <1>3, <1>4, <1>5, <1>6 DEF Next

\* Who accepts codes.
LEMMA HistoryShapes ==
    ASSUME [Next]_vars
    PROVE  UNCHANGED history \/ \E c \in Clients : VerifyWrites(c)
<1>1. CASE \E c \in Clients : LoginStep(c)
  BY <1>1 DEF LoginStep, LoginStart, LoginCounts, LoginLimited, LoginFails, RecordFailure,
              LoginAuthenticates, LoginReadsMfa,
              VerifyPasses, VerifyRefuses, VerifyReads, VerifyWrites, CreateSession,
              CreateSessionRaises, RecordSuccess
<1>2. CASE \E c \in Clients : OwnStep(c)
  BY <1>2 DEF OwnStep, Grant, RequestEnds, Logout, StartVerify, SetupMfa, EnableMfa,
              RegenerateCodes, DisableMfa
<1>3. CASE \E c \in Clients : AccountStep(c)
  BY <1>3 DEF AccountStep, LockUser, UnlockUser, ResetPassword, DeleteUser, CreateUser, UpdateUser
<1>4. CASE \E c \in Clients : ManagerStep(c)
  BY <1>4 DEF ManagerStep, RevokeSession, RevokeOthers, SetGroup, UpdatePolicy
<1>5. CASE UNCHANGED vars
  BY <1>5 DEF vars, history
<1>6. CASE (\E u \in Watched : FailureAges(u) \/ FailureExpires(u))
         \/ (\E s \in Slots : SessionExpires(s)) \/ ApiRestart
  BY <1>6 DEF FailureAges, FailureExpires, SessionExpires, ApiRestart
<1>7. QED BY <1>1, <1>2, <1>3, <1>4, <1>5, <1>6 DEF Next

\* Who counts failures and who changes the policy.
LEMMA LoginShapes ==
    ASSUME [Next]_vars
    PROVE  \/ UNCHANGED <<logins, policy>>
           \/ /\ policy' = policy
              /\ \/ \E c \in Clients : RecordFailure(c) \/ RecordSuccess(c)
                 \/ \E u \in Watched : FailureAges(u) \/ FailureExpires(u)
           \/ \E c \in Clients, demand \in BOOLEAN, limit \in Limits, window \in Windows :
                 UpdatePolicy(c, demand, limit, window)
<1>1. CASE \E c \in Clients : LoginStep(c)
  BY <1>1 DEF LoginStep, LoginStart, LoginCounts, LoginLimited, LoginFails, RecordFailure,
              LoginAuthenticates, LoginReadsMfa,
              VerifyPasses, VerifyRefuses, VerifyReads, VerifyWrites, CreateSession,
              CreateSessionRaises, RecordSuccess, tables
<1>2. CASE \E c \in Clients : OwnStep(c)
  BY <1>2 DEF OwnStep, Grant, RequestEnds, Logout, StartVerify, SetupMfa, EnableMfa,
              RegenerateCodes, DisableMfa, tables
<1>3. CASE \E c \in Clients : AccountStep(c)
  BY <1>3 DEF AccountStep, LockUser, UnlockUser, ResetPassword, DeleteUser, CreateUser, UpdateUser
<1>4. CASE \E c \in Clients : ManagerStep(c)
  BY <1>4 DEF ManagerStep, RevokeSession, RevokeOthers, SetGroup, tables
<1>5. CASE UNCHANGED vars
  BY <1>5 DEF vars, logins
<1>6. CASE (\E u \in Watched : FailureAges(u) \/ FailureExpires(u))
         \/ (\E s \in Slots : SessionExpires(s)) \/ ApiRestart
  BY <1>6 DEF FailureAges, FailureExpires, SessionExpires, ApiRestart, tables
<1>7. QED BY <1>1, <1>2, <1>3, <1>4, <1>5, <1>6 DEF Next

-----------------------------------------------------------------------------
(* Requests                                                                 *)

\* A request on its way keeps what it carries.
LEMMA Moving ==
    ASSUME TypeOK, NEW c \in Clients, NEW stage \in Stages, Moves(c, stage)
    PROVE  /\ client' \in [Clients -> Requests]
           /\ client'[c].at = stage /\ client'[c].user = client[c].user
           /\ client'[c].left = client[c].left /\ client'[c].code = client[c].code
           /\ \A d \in Clients \ {c} : client'[d] = client[d]
<1>1. client[c] \in Requests
  BY DEF TypeOK
<1>2. QED BY <1>1 DEF TypeOK, Moves, Requests

LEMMA Leaving ==
    ASSUME TypeOK, NEW c \in Clients, Leaves(c)
    PROVE  /\ client' \in [Clients -> Requests] /\ client'[c] = Idle
           /\ \A d \in Clients \ {c} : client'[d] = client[d]
<1>1. Idle \in Requests
  BY DEF Idle, Requests, Stages, Versions
<1>2. QED BY <1>1 DEF TypeOK, Leaves

LEMMA Starting ==
    ASSUME TypeOK, NEW c \in Clients, NEW u \in Users, LoginStart(c, u)
    PROVE  /\ client' \in [Clients -> Requests]
           /\ client'[c].at = "asked" /\ client'[c].user = u /\ client'[c].policy = policy
           /\ \A d \in Clients \ {c} : client'[d] = client[d]
<1>1. Idle \in Requests
  BY DEF Idle, Requests, Stages, Versions
<1>2. QED BY <1>1 DEF TypeOK, LoginStart, Requests, Stages

LEMMA LetThrough ==
    ASSUME TypeOK, NEW c \in Clients, LoginCounts(c)
    PROVE  /\ client' \in [Clients -> Requests]
           /\ client'[c].at = "counted" /\ client'[c].user = client[c].user
           /\ \A d \in Clients \ {c} : client'[d] = client[d]
BY DEF TypeOK, LoginCounts, Requests, Stages

LEMMA Authenticating ==
    ASSUME TypeOK, NEW c \in Clients, LoginAuthenticates(c), client[c].user \in Users
    PROVE  /\ client' \in [Clients -> Requests]
           /\ client'[c].at = "known" /\ client'[c].user = client[c].user
           /\ \A d \in Clients \ {c} : client'[d] = client[d]
<1>1. client[c] \in Requests /\ account[client[c].user].pw \in Versions
  BY DEF TypeOK, Accounts
<1>2. QED BY <1>1 DEF TypeOK, LoginAuthenticates, Requests, Stages

LEMMA Reading ==
    ASSUME TypeOK, NEW c \in Clients, NEW code \in CodeSet, VerifyReads(c, code),
           client[c].user \in Users
    PROVE  /\ client' \in [Clients -> Requests]
           /\ client'[c].at = "spending" /\ client'[c].user = client[c].user
           /\ client'[c].code = code /\ client'[c].left = account[client[c].user].codes \ {code}
           /\ \A d \in Clients \ {c} : client'[d] = client[d]
<1>1. client[c] \in Requests /\ account[client[c].user].codes \in SUBSET CodeSet
  BY DEF TypeOK, Accounts
<1>2. QED BY <1>1 DEF TypeOK, VerifyReads, Requests, Stages

LEMMA Accepting ==
    ASSUME TypeOK, NEW c \in Clients, Accept(c)
    PROVE  /\ client' \in [Clients -> Requests]
           /\ client'[c].at = "verified" /\ client'[c].user = client[c].user
           /\ \A d \in Clients \ {c} : client'[d] = client[d]
<1>1. client[c] \in Requests
  BY DEF TypeOK
<1>2. QED BY <1>1 DEF TypeOK, Accept, Requests, Stages

LEMMA Granting ==
    ASSUME TypeOK, NEW c \in Clients, NEW s \in Slots, Grant(c, s)
    PROVE  /\ client' \in [Clients -> Requests]
           /\ client'[c].at = "granted" /\ client'[c].user \in Users
           /\ \A d \in Clients \ {c} : client'[d] = client[d]
<1>1. session[s].user \in Users
  BY DEF TypeOK, Grant, Live, Sessions
<1>2. Idle \in Requests
  BY DEF Idle, Requests, Stages, Versions
<1>3. Manages(session[s].user) \in BOOLEAN
  BY DEF Manages, Enabled
<1>4. QED BY <1>1, <1>2, <1>3 DEF TypeOK, Grant, Requests, Stages

LEMMA Purposing ==
    ASSUME TypeOK, NEW c \in Clients, NEW purpose \in {"regenerate", "disable"},
           StartVerify(c, purpose)
    PROVE  /\ client' \in [Clients -> Requests]
           /\ client'[c].at = "coding" /\ client'[c].user = client[c].user
           /\ \A d \in Clients \ {c} : client'[d] = client[d]
<1>1. client[c] \in Requests
  BY DEF TypeOK
<1>2. QED BY <1>1 DEF TypeOK, StartVerify, Requests, Stages

\* What becomes of a request in a step, whoever's step it is.
LEMMA Requesting ==
    ASSUME TypeOK, Carrying, [Next]_vars, NEW d \in Clients
    PROVE  /\ client' \in [Clients -> Requests]
           /\ client'[d].at # "idle" => client'[d].user \in Users
           /\ client'[d].at = "asked" =>
                 client'[d] = client[d] \/ (client'[d].policy = policy /\ policy' = policy)
           /\ client'[d].at \in {"counted", "refused"} =>
                 /\ client'[d].user = client[d].user
                 /\ LoginCounts(d) \/ client[d].at \in {"counted", "refused"}
           /\ client'[d].at = "spending" =>
                 \/ client'[d] = client[d]
                 \/ /\ client'[d].user = client[d].user
                    /\ client'[d].code \in account[client[d].user].codes
                    /\ client'[d].left = account[client[d].user].codes \ {client'[d].code}
<1> DEFINE G == /\ client' \in [Clients -> Requests]
                /\ client'[d].at # "idle" => client'[d].user \in Users
                /\ client'[d].at = "asked" =>
                      client'[d] = client[d] \/ (client'[d].policy = policy /\ policy' = policy)
                /\ client'[d].at \in {"counted", "refused"} =>
                      /\ client'[d].user = client[d].user
                      /\ LoginCounts(d) \/ client[d].at \in {"counted", "refused"}
                /\ client'[d].at = "spending" =>
                      \/ client'[d] = client[d]
                      \/ /\ client'[d].user = client[d].user
                         /\ client'[d].code \in account[client[d].user].codes
                         /\ client'[d].left = account[client[d].user].codes \ {client'[d].code}
<1>0. /\ client \in [Clients -> Requests]
      /\ \A c \in Clients : client[c].at # "idle" => client[c].user \in Users
  BY DEF TypeOK, Carrying
<1>1. ASSUME client'[d] = client[d], client' \in [Clients -> Requests] PROVE G
  BY <1>0, <1>1
<1>2. ASSUME client' = client PROVE G
  BY <1>0, <1>1, <1>2
<1>3. ASSUME ApiRestart PROVE G
  <2>1. Idle \in Requests /\ Idle.at = "idle"
    BY DEF Idle, Requests, Stages, Versions
  <2>2. QED BY <1>3, <2>1 DEF ApiRestart
<1>4. ASSUME NEW c \in Clients, Leaves(c) PROVE G
  <2>1. Idle.at = "idle"
    BY DEF Idle
  <2>2. QED BY <1>1, <1>4, <2>1, Leaving
<1>5. ASSUME NEW c \in Clients, LoginAuthenticates(c) PROVE G
  <2>1. client[c].user \in Users
    BY <1>0, <1>5 DEF LoginAuthenticates, At
  <2>2. QED BY <1>1, <1>5, <2>1, Authenticating
<1>6. ASSUME NEW c \in Clients, VerifyWrites(c) PROVE G
  <2>1. client[c].user \in Users /\ Accept(c)
    BY <1>0, <1>6 DEF VerifyWrites, At
  <2>2. QED BY <1>1, <2>1, Accepting
<1>7. ASSUME NEW c \in Clients, Moves(c, "refused"), At(c, "counted") PROVE G
  <2>1. client[c].user \in Users /\ client[c].at = "counted"
    BY <1>0, <1>7 DEF At
  <2>2. "refused" \in Stages
    BY DEF Stages
  <2>3. QED BY <1>1, <1>7, <2>1, <2>2, Moving
<1>8. ASSUME NEW c \in Clients, NEW stage \in {"coding", "verified", "entered"},
             Moves(c, stage), ~At(c, "idle") PROVE G
  <2>1. client[c].user \in Users
    BY <1>0, <1>8 DEF At
  <2>2. stage \in Stages
    BY DEF Stages
  <2>3. QED BY <1>1, <1>8, <2>1, <2>2, Moving
<1>9. ASSUME NEW c \in Clients, NEW u \in Users, LoginStart(c, u) PROVE G
  <2>1. policy' = policy
    BY <1>9 DEF LoginStart, tables
  <2>2. QED BY <1>1, <1>9, <2>1, Starting
<1>10. ASSUME NEW c \in Clients, NEW code \in CodeSet, VerifyReads(c, code) PROVE G
  <2>1. client[c].user \in Users /\ code \in account[client[c].user].codes
    BY <1>0, <1>10 DEF VerifyReads, At
  <2>2. QED BY <1>1, <1>10, <2>1, Reading
<1>11. ASSUME NEW c \in Clients, NEW s \in Slots, Grant(c, s) PROVE G
  BY <1>1, <1>11, Granting
<1>12. ASSUME NEW c \in Clients, NEW purpose \in {"regenerate", "disable"},
              StartVerify(c, purpose) PROVE G
  <2>1. client[c].user \in Users
    BY <1>0, <1>12 DEF StartVerify, At
  <2>2. QED BY <1>1, <1>12, <2>1, Purposing
<1>a. ASSUME NEW c \in Clients, LoginCounts(c) PROVE G
  <2>1. client[c].user \in Users
    BY <1>0, <1>a DEF LoginCounts, At
  <2>2. QED BY <1>1, <1>a, <2>1, LetThrough
<1> HIDE DEF G
<1>13. G
  <2>1. CASE \E c \in Clients : \/ Leaves(c)
                                \/ LoginAuthenticates(c) \/ VerifyWrites(c) \/ LoginCounts(c)
    BY <1>4, <1>5, <1>6, <1>a, <2>1
  <2>2. CASE \E c \in Clients : Moves(c, "refused") /\ At(c, "counted")
    BY <1>7, <2>2
  <2>3. CASE \E c \in Clients, stage \in {"coding", "verified", "entered"} :
                Moves(c, stage) /\ ~At(c, "idle")
    BY <1>8, <2>3
  <2>4. CASE \E c \in Clients, u \in Users : LoginStart(c, u)
    BY <1>9, <2>4
  <2>5. CASE \E c \in Clients, code \in CodeSet : VerifyReads(c, code)
    BY <1>10, <2>5
  <2>6. CASE \E c \in Clients, s \in Slots : Grant(c, s)
    BY <1>11, <2>6
  <2>7. CASE \E c \in Clients, purpose \in {"regenerate", "disable"} : StartVerify(c, purpose)
    BY <1>12, <2>7
  <2>8. QED BY <1>2, <1>3, <2>1, <2>2, <2>3, <2>4, <2>5, <2>6, <2>7, ClientShapes
<1>14. QED BY <1>13 DEF G

LEMMA Carries == ASSUME TypeOK, Carrying, [Next]_vars PROVE Carrying'
<1>1. SUFFICES ASSUME NEW d \in Clients
               PROVE  /\ client'[d].at # "idle" => client'[d].user \in Users
                      /\ client'[d].at = "spending" =>
                            client'[d].code \in CodeSet /\ client'[d].code \notin client'[d].left
  BY DEF Carrying
<1>2. ASSUME client'[d].at = "spending", client'[d] # client[d],
             client'[d].user = client[d].user
      PROVE  account[client[d].user].codes \subseteq CodeSet
  <2>1. client[d].user \in Users
    BY <1>2, Requesting
  <2>2. QED BY <2>1 DEF TypeOK, Accounts
<1>3. QED BY <1>2, Requesting DEF Carrying

-----------------------------------------------------------------------------
(* Accounts                                                                 *)

\* The actions of one's own MFA touch codes and mfa of one account.
MfaStep(c) == VerifyWrites(c) \/ SetupMfa(c) \/ EnableMfa(c) \/ RegenerateCodes(c) \/ DisableMfa(c)

LEMMA Mfa ==
    ASSUME TypeOK, Carrying, NEW c \in Clients, MfaStep(c)
    PROVE  LET u == client[c].user IN
           /\ u \in Users
           /\ account' \in [Users -> Accounts] /\ changes' \in Versions
           /\ \A x \in Users : /\ account'[x].state = account[x].state
                               /\ account'[x].group = account[x].group
                               /\ account'[x].pw = account[x].pw
                               /\ x # u => account'[x] = account[x]
           /\ \/ changes' = changes + 1 /\ account'[u].codes \in {Issued, account[u].codes}
              \/ changes' = changes /\ account'[u].codes \subseteq account[u].codes
              \/ changes' = changes /\ VerifyWrites(c) /\ account'[u].codes = client[c].left
           /\ (account[u].mfa = "none" => account[u].codes = {}) =>
                 (account'[u].mfa = "none" => account'[u].codes = {})
<1> DEFINE u == client[c].user
<1>1. u \in Users
  BY DEF Carrying, MfaStep, VerifyWrites, SetupMfa, EnableMfa, RegenerateCodes, DisableMfa, At
<1>2. account \in [Users -> Accounts] /\ account[u] \in Accounts /\ changes \in Versions
  BY <1>1 DEF TypeOK
<1>3. Change => changes' = changes + 1 /\ changes' \in Versions /\ Issued \subseteq CodeSet
  BY <1>2 DEF Change, Versions, Issued, CodeSet
<1> HIDE DEF u
<1>4. CASE SetupMfa(c)
  BY <1>1, <1>2, <1>3, <1>4 DEF SetupMfa, Accounts, u
<1>5. CASE EnableMfa(c)
  BY <1>1, <1>2, <1>5 DEF EnableMfa, Accounts, u
<1>6. CASE DisableMfa(c)
  BY <1>1, <1>2, <1>6 DEF DisableMfa, Accounts, u
<1>7. CASE RegenerateCodes(c)
  BY <1>1, <1>2, <1>3, <1>7 DEF RegenerateCodes, Accounts, u
<1>8. CASE VerifyWrites(c)
  <2>1. client[c].left \in SUBSET CodeSet
    BY DEF TypeOK, Requests
  <2>2. QED BY <1>1, <1>2, <1>8, <2>1 DEF VerifyWrites, Accounts, u
<1>9. QED BY <1>4, <1>5, <1>6, <1>7, <1>8 DEF MfaStep, u

LEMMA CreatedIs ==
    ASSUME NEW g \in Groups, NEW v \in Versions
    PROVE  /\ Created(g, v) \in Accounts
           /\ Created(g, v).state = "enabled" /\ Created(g, v).group = g
           /\ Created(g, v).pw = v /\ Created(g, v).mfa = "none" /\ Created(g, v).codes = {}
<1>1. /\ NoAccount("enabled") \in Accounts
      /\ NoAccount("enabled").state = "enabled" /\ NoAccount("enabled").mfa = "none"
      /\ NoAccount("enabled").codes = {}
  BY DEF NoAccount, Accounts, Versions
<1>2. QED BY <1>1 DEF Created, Accounts

\* What managers do to accounts never issues codes.
LEMMA Managed ==
    ASSUME TypeOK, NEW c \in Clients, NEW u \in Users,
           \/ LockUser(c, u) \/ UnlockUser(c, u) \/ ResetPassword(c, u) \/ DeleteUser(c, u)
           \/ \E g \in Groups : CreateUser(c, u, g) \/ UpdateUser(c, u, g)
    PROVE  /\ account' \in [Users -> Accounts]
           /\ changes' \in Versions /\ changes <= changes'
           /\ \A x \in Users \ {u} : account'[x] = account[x]
           /\ \/ account'[u].codes = account[u].codes /\ account'[u].mfa = account[u].mfa
              \/ account'[u].codes = {}
<1>1. account \in [Users -> Accounts] /\ account[u] \in Accounts /\ changes \in Versions
  BY DEF TypeOK
<1>2. Change => changes' \in Versions /\ changes <= changes'
  BY <1>1 DEF Change, Versions
<1>3. CASE LockUser(c, u)
  BY <1>1, <1>2, <1>3 DEF LockUser, Accounts
<1>4. CASE UnlockUser(c, u)
  BY <1>1, <1>4 DEF UnlockUser, Accounts, Versions
<1>5. CASE ResetPassword(c, u)
  BY <1>1, <1>2, <1>5 DEF ResetPassword, Accounts
<1>6. CASE DeleteUser(c, u)
  BY <1>1, <1>2, <1>6 DEF DeleteUser, Accounts, NoAccount, Versions
<1>7. CASE \E g \in Groups : CreateUser(c, u, g)
  BY <1>1, <1>2, <1>7, CreatedIs DEF CreateUser
<1>8. CASE \E g \in Groups : UpdateUser(c, u, g)
  BY <1>1, <1>2, <1>8 DEF UpdateUser, Accounts
<1>9. QED BY <1>3, <1>4, <1>5, <1>6, <1>7, <1>8

LEMMA Restarted ==
    ASSUME TypeOK, ApiRestart
    PROVE  /\ account' \in [Users -> Accounts] /\ changes' = changes
           /\ \/ account' = account
              \/ \E u \in Users : /\ account[u].state = "never"
                                  /\ account' = [account EXCEPT ![u] = Created(Administrators, 0)]
           /\ Created(Administrators, 0) \in Accounts
           /\ Created(Administrators, 0).codes = {}
           /\ Created(Administrators, 0).state = "enabled"
           /\ Created(Administrators, 0).group = Administrators
<1>1. Administrators \in Groups /\ 0 \in Versions
  BY DEF Versions
<1>2. QED BY <1>1, CreatedIs DEF TypeOK, ApiRestart

-----------------------------------------------------------------------------
LEMMA LoginTypes ==
    ASSUME TypeOK, [Next]_vars
    PROVE  /\ failures' \in [Watched -> Nat] /\ aged' \in [Watched -> Nat]
           /\ carried' \in [Watched -> Nat] /\ policy' \in Policies
<1>0. /\ failures \in [Watched -> Nat] /\ aged \in [Watched -> Nat]
      /\ carried \in [Watched -> Nat] /\ policy \in Policies
  BY DEF TypeOK
<1>1. CASE UNCHANGED <<logins, policy>>
  BY <1>0, <1>1 DEF logins
<1>2. CASE policy' = policy /\ \E c \in Clients : RecordFailure(c) \/ RecordSuccess(c)
  BY <1>0, <1>2 DEF RecordFailure, RecordSuccess, logins
<1>3. CASE policy' = policy /\ \E u \in Watched : FailureAges(u) \/ FailureExpires(u)
  BY <1>0, <1>3 DEF FailureAges, FailureExpires
<1>4. ASSUME NEW c \in Clients, NEW demand \in BOOLEAN, NEW limit \in Limits,
             NEW window \in Windows, UpdatePolicy(c, demand, limit, window)
      PROVE  /\ failures' \in [Watched -> Nat] /\ aged' \in [Watched -> Nat]
             /\ carried' \in [Watched -> Nat] /\ policy' \in Policies
  <2>1. \A u \in Watched : failures[u] + aged[u] \in Nat
    BY <1>0
  <2>2. /\ failures' \in [Watched -> Nat]
        /\ \A u \in Watched : failures'[u] <= failures[u] + aged[u]
    BY <1>4, <2>1 DEF UpdatePolicy, Recounted, Within
  <2>3. aged' \in [Watched -> Nat]
    <3>1. aged' = [u \in Watched |-> (failures[u] + aged[u]) - failures'[u]]
      BY <1>4 DEF UpdatePolicy, Recounted
    <3>2. \A u \in Watched : (failures[u] + aged[u]) - failures'[u] \in Nat
      BY <2>1, <2>2
    <3>3. QED BY <3>1, <3>2
  <2>4. carried' = failures' /\ policy' \in Policies
    BY <1>4 DEF UpdatePolicy, Policies
  <2>5. QED BY <2>2, <2>3, <2>4
<1>5. QED BY <1>1, <1>2, <1>3, <1>4, LoginShapes

LEMMA Types == ASSUME TypeOK, Carrying, [Next]_vars PROVE TypeOK'
<1>1. client' \in [Clients -> Requests]
  <2>1. CASE Clients = {}
    <3>1. client' = client \/ ApiRestart
      BY <2>1, ClientShapes
    <3>2. QED BY <2>1, <3>1 DEF TypeOK, ApiRestart
  <2>2. CASE Clients # {}
    BY <2>2, Requesting
  <2>3. QED BY <2>1, <2>2
<1>2. account' \in [Users -> Accounts] /\ changes' \in Versions
  BY AccountShapes, Mfa, Managed, Restarted DEF TypeOK, MfaStep, Versions
<1>3. session' \in [Slots -> Sessions \cup {None}]
  <2>0. session \in [Slots -> Sessions \cup {None}]
    BY DEF TypeOK
  <2>1. ASSUME NEW c \in Clients, NEW s \in Slots, CreateSession(c, s)
        PROVE  session' \in [Slots -> Sessions \cup {None}]
    <3>1. client[c].user \in Users /\ client[c].pw \in Versions
      BY <2>1 DEF CreateSession, At, Carrying, TypeOK, Requests
    <3>2. QED BY <2>0, <2>1, <3>1 DEF CreateSession, Sessions, Enabled
  <2>2. ASSUME NEW c \in Clients, NEW u \in Users, ResetPassword(c, u)
        PROVE  session' \in [Slots -> Sessions \cup {None}]
    <3>1. changes' \in Versions
      BY <2>2 DEF ResetPassword, Change, TypeOK, Versions
    <3>2. \A s \in Of(u) : [session[s] EXCEPT !.pw = changes'] \in Sessions
      BY <2>0, <3>1 DEF Of, Sessions
    <3>3. QED BY <2>0, <2>2, <3>2 DEF ResetPassword
  <2>3. QED BY <2>0, <2>1, <2>2, SessionShapes DEF Revoked
<1>4. /\ failures' \in [Watched -> Nat] /\ aged' \in [Watched -> Nat]
      /\ carried' \in [Watched -> Nat] /\ policy' \in Policies
  BY LoginTypes
<1>5. accepted' \subseteq CodeSet /\ reused' \subseteq Users /\ contested' \subseteq Users
  <2>1. CASE UNCHANGED history
    BY <2>1 DEF TypeOK, history
  <2>2. ASSUME NEW c \in Clients, VerifyWrites(c)
        PROVE  accepted' \subseteq CodeSet /\ reused' \subseteq Users /\ contested' \subseteq Users
    <3>1. client[c].user \in Users /\ client[c].code \in CodeSet
      BY <2>2 DEF VerifyWrites, At, Carrying
    <3>2. QED BY <2>2, <3>1 DEF TypeOK, VerifyWrites, Accept
  <2>3. QED BY <2>1, <2>2, HistoryShapes
<1>6. group' \in [Groups -> {"absent", "plain", "manage"}] /\ seed' \in Users \cup {None}
  <2>1. CASE \E c \in Clients : LoginStep(c) \/ OwnStep(c)
    <3>1. UNCHANGED <<group, seed>>
      BY <2>1 DEF LoginStep, OwnStep, LoginStart, LoginCounts, LoginLimited, LoginFails,
              RecordFailure,
       LoginAuthenticates, LoginReadsMfa, VerifyPasses, VerifyRefuses, VerifyReads, VerifyWrites,
       CreateSession, CreateSessionRaises, RecordSuccess, Grant, RequestEnds, Logout, SetupMfa,
       EnableMfa, StartVerify, RegenerateCodes, DisableMfa, tables
    <3>2. QED BY <3>1 DEF TypeOK
  <2>2. CASE \E c \in Clients : AccountStep(c) \/ ManagerStep(c)
    <3>1. CASE \E c \in Clients : AccountStep(c)
      BY <3>1 DEF TypeOK, AccountStep, LockUser, UnlockUser, ResetPassword, DeleteUser,
         CreateUser, UpdateUser, tables
    <3>2. ASSUME NEW c \in Clients, NEW g \in Groups,
                 NEW permits \in {"absent", "plain", "manage"}, SetGroup(c, g, permits)
          PROVE  group' \in [Groups -> {"absent", "plain", "manage"}] /\ seed' = seed
      BY <3>2 DEF TypeOK, SetGroup
    <3>3. CASE \E c \in Clients : ManagerStep(c)
      BY <3>2, <3>3 DEF TypeOK, ManagerStep, RevokeSession, RevokeOthers, UpdatePolicy, tables
    <3>4. QED BY <2>2, <3>1, <3>3
  <2>3. CASE ApiRestart
    BY <2>3 DEF TypeOK, ApiRestart, Shipped
  <2>4. CASE UNCHANGED vars
    BY <2>4 DEF TypeOK, vars
  <2>5. CASE (\E u \in Watched : FailureAges(u) \/ FailureExpires(u))
         \/ (\E s \in Slots : SessionExpires(s))
    BY <2>5 DEF TypeOK, FailureAges, FailureExpires, SessionExpires, tables
  <2>6. QED BY <2>1, <2>2, <2>3, <2>4, <2>5 DEF Next
<1>7. QED BY <1>1, <1>2, <1>3, <1>4, <1>5, <1>6 DEF TypeOK

-----------------------------------------------------------------------------
(* The last administrator                                                   *)

LEMMA Remain ==
    ASSUME TypeOK, Carrying, AdministratorsRemain, [Next]_vars
    PROVE  AdministratorsRemain'
<1>1. PICK a \in Users : Exists(a) /\ account[a].group = Administrators
  BY DEF AdministratorsRemain, Admins
<1>2. ASSUME NEW b \in Users, account'[b].state \in {"enabled", "locked"},
             account'[b].group = Administrators
      PROVE  AdministratorsRemain'
  BY <1>2 DEF AdministratorsRemain, Admins, Exists
<1>3. account \in [Users -> Accounts] /\ account[a].state \in {"enabled", "locked"}
  BY <1>1 DEF TypeOK, Exists
<1>4. CASE account' = account
  BY <1>1, <1>2, <1>3, <1>4
<1>5. ASSUME NEW c \in Clients, MfaStep(c) PROVE AdministratorsRemain'
  BY <1>1, <1>2, <1>3, <1>5, Mfa
<1>6. ASSUME Cardinality(Admins) > 1, NEW u \in Users
      PROVE  \E b \in Users \ {u} : account[b].state \in {"enabled", "locked"}
                                    /\ account[b].group = Administrators
  <2>1. Cardinality({u}) = 1
    BY FS_Singleton
  <2>2. Admins # {u}
    BY <1>6, <2>1
  <2>3. PICK b \in Admins : b # u
    BY <1>1, <2>2 DEF Admins
  <2>4. QED BY <2>3 DEF Admins, Exists
<1>7. ASSUME NEW c \in Clients, NEW u \in Users,
             LockUser(c, u) \/ UnlockUser(c, u) \/ ResetPassword(c, u)
      PROVE  AdministratorsRemain'
  <2>1. account[u] \in Accounts /\ account[a] \in Accounts
    BY <1>3
  <2>2. /\ account'[a].group = account[a].group
        /\ account'[a].state \in {account[a].state, "locked", "enabled"}
    <3>1. CASE LockUser(c, u)
      BY <1>3, <2>1, <3>1 DEF LockUser, Accounts
    <3>2. CASE UnlockUser(c, u)
      BY <1>3, <2>1, <3>2 DEF UnlockUser, Accounts
    <3>3. CASE ResetPassword(c, u)
      BY <1>3, <2>1, <3>3 DEF ResetPassword, Accounts
    <3>4. QED BY <1>7, <3>1, <3>2, <3>3
  <2>3. QED BY <1>1, <1>2, <1>3, <2>2
<1>8. ASSUME NEW c \in Clients, NEW u \in Users, DeleteUser(c, u) PROVE AdministratorsRemain'
  <2>1. PICK b \in Users \ {u} : account[b].state \in {"enabled", "locked"}
                                 /\ account[b].group = Administrators
    BY <1>1, <1>3, <1>6, <1>8 DEF DeleteUser, Admins
  <2>2. account'[b] = account[b]
    BY <1>3, <1>8, <2>1 DEF DeleteUser
  <2>3. QED BY <1>2, <2>1, <2>2
<1>9. ASSUME NEW c \in Clients, NEW u \in Users, NEW g \in Groups, UpdateUser(c, u, g)
      PROVE  AdministratorsRemain'
  <2>1. account[u] \in Accounts
    BY <1>3
  <2>2. CASE u = a /\ g = Administrators
    <3>1. account'[a].state = account[a].state /\ account'[a].group = Administrators
      BY <1>3, <1>9, <2>1, <2>2 DEF UpdateUser, Accounts
    <3>2. QED BY <1>2, <1>3, <3>1
  <2>3. CASE u # a
    <3>1. account'[a] = account[a]
      BY <1>3, <1>9, <2>3 DEF UpdateUser
    <3>2. QED BY <1>1, <1>2, <1>3, <3>1
  <2>4. CASE u = a /\ g # Administrators
    <3>1. PICK b \in Users \ {u} : account[b].state \in {"enabled", "locked"}
                                   /\ account[b].group = Administrators
      BY <1>1, <1>6, <1>9, <2>4 DEF UpdateUser, Admins
    <3>2. account'[b] = account[b]
      BY <1>3, <1>9, <3>1 DEF UpdateUser
    <3>3. QED BY <1>2, <3>1, <3>2
  <2>5. QED BY <2>2, <2>3, <2>4
<1>10. ASSUME NEW c \in Clients, NEW u \in Users, NEW g \in Groups, CreateUser(c, u, g)
       PROVE  AdministratorsRemain'
  <2>1. u # a /\ account'[a] = account[a]
    BY <1>3, <1>10 DEF CreateUser
  <2>2. QED BY <1>1, <1>2, <1>3, <2>1
<1>11. CASE ApiRestart
  <2>1. account'[a] = account[a]
    BY <1>3, <1>11, Restarted
  <2>2. QED BY <1>1, <1>2, <1>3, <2>1
<1>12. QED BY <1>4, <1>5, <1>7, <1>8, <1>9, <1>10, <1>11, AccountShapes DEF MfaStep

-----------------------------------------------------------------------------
(* Sessions                                                                 *)

LEMMA SessionsEnd ==
    ASSUME TypeOK, Carrying, SessionsEndWithCredentials, [Next]_vars
    PROVE  SessionsEndWithCredentials'
<1>0. /\ account \in [Users -> Accounts] /\ session \in [Slots -> Sessions \cup {None}]
      /\ \A s \in Slots : session[s] # None =>
            session[s].user \in Users /\ session[s].late \in BOOLEAN
  BY DEF TypeOK, Sessions
<1>1. SUFFICES ASSUME NEW s \in Slots, session'[s] # None, ~session'[s].late
               PROVE  /\ account'[session'[s].user].state = "enabled"
                      /\ session'[s].pw = account'[session'[s].user].pw
  BY DEF SessionsEndWithCredentials, Enabled
<1>2. session[s] # None /\ ~session[s].late =>
         /\ session[s].user \in Users /\ account[session[s].user].state = "enabled"
         /\ session[s].pw = account[session[s].user].pw
  BY <1>0 DEF SessionsEndWithCredentials, Enabled
<1>3. CASE \E c \in Clients, x \in Slots : CreateSession(c, x)
  <2>1. PICK c \in Clients, x \in Slots : CreateSession(c, x)
    BY <1>3
  <2>2. account' = account
    BY <2>1 DEF CreateSession, tables
  <2>3. CASE s = x
    <3> DEFINE late == ~Enabled(client[c].user) \/ client[c].pw # account[client[c].user].pw
    <3>1. session'[s] = [user |-> client[c].user, pw |-> client[c].pw, late |-> late]
      BY <1>0, <2>1, <2>3 DEF CreateSession
    <3> HIDE DEF late
    <3>a. session'[s].late = late
      BY <3>1
    <3>2. ~late
      BY <1>1, <3>a, Zenon
    <3> USE DEF late
    <3>3. QED BY <2>2, <3>1, <3>2 DEF Enabled
  <2>4. CASE s # x
    <3>1. session'[s] = session[s]
      BY <1>0, <2>1, <2>4 DEF CreateSession
    <3>2. QED BY <1>1, <1>2, <2>2, <3>1
  <2>5. QED BY <2>3, <2>4
<1>4. CASE \E c \in Clients, u \in Users : ResetPassword(c, u)
  <2>1. PICK c \in Clients, u \in Users : ResetPassword(c, u)
    BY <1>4
  <2>2. /\ account'[u].pw = changes' /\ account'[u].state = account[u].state
        /\ \A x \in Users \ {u} : account'[x] = account[x]
    <3>1. account[u] \in Accounts
      BY <1>0
    <3>2. QED BY <1>0, <2>1, <3>1 DEF ResetPassword, Accounts
  <2>3. CASE s \in Of(u)
    <3>1. session[s] \in Sessions /\ session[s].user = u
      BY <1>0, <2>3 DEF Of
    <3>2. session'[s] = [session[s] EXCEPT !.pw = changes']
      BY <1>1, <2>1, <2>3 DEF ResetPassword
    <3>3. session'[s].user = u /\ session'[s].pw = changes' /\ session'[s].late = session[s].late
      BY <3>1, <3>2 DEF Sessions
    <3>4. QED BY <1>1, <1>2, <2>2, <3>1, <3>3, <2>3 DEF Of
  <2>4. CASE s \notin Of(u)
    <3>1. session'[s] = session[s]
      BY <2>1, <2>4 DEF ResetPassword, Of
    <3>2. session[s].user # u
      BY <1>1, <2>4, <3>1 DEF Of
    <3>3. QED BY <1>1, <1>2, <2>2, <3>1, <3>2
  <2>5. QED BY <2>3, <2>4
<1>5. CASE ~ (\E c \in Clients, x \in Slots : CreateSession(c, x))
           /\ ~ \E c \in Clients, u \in Users : ResetPassword(c, u)
  <2>1. session'[s] = session[s]
    BY <1>0, <1>1, <1>5, SessionShapes DEF Revoked
  <2>2. DEFINE u == session[s].user
  <2>3. u \in Users /\ account[u].state = "enabled" /\ session[s].pw = account[u].pw
    BY <1>1, <1>2, <2>1
  <2>4. ASSUME account'[u].state = account[u].state, account'[u].pw = account[u].pw
        PROVE  /\ account'[session'[s].user].state = "enabled"
               /\ session'[s].pw = account'[session'[s].user].pw
    BY <2>1, <2>3, <2>4
  <2> HIDE DEF u
  <2>5. CASE account' = account
    BY <2>4, <2>5
  <2>6. CASE \E c \in Clients : MfaStep(c)
    BY <2>3, <2>4, <2>6, Mfa
  <2>7. ASSUME NEW c \in Clients, NEW x \in Users, LockUser(c, x) \/ DeleteUser(c, x)
        PROVE  account'[u] = account[u]
    <3>1. Revoked(Of(x))
      BY <2>7 DEF LockUser, DeleteUser
    <3>2. x # u
      BY <1>1, <2>1, <3>1 DEF Revoked, Of, u
    <3>3. QED BY <1>0, <2>3, <2>7, <3>2 DEF LockUser, DeleteUser
  <2>8. ASSUME NEW c \in Clients, NEW x \in Users, UnlockUser(c, x)
        PROVE  account'[u] = account[u]
    BY <1>0, <2>3, <2>8 DEF UnlockUser
  <2>9. ASSUME NEW c \in Clients, NEW x \in Users, NEW g \in Groups, CreateUser(c, x, g)
        PROVE  account'[u] = account[u]
    BY <1>0, <2>3, <2>9 DEF CreateUser
  <2>10. ASSUME NEW c \in Clients, NEW x \in Users, NEW g \in Groups, UpdateUser(c, x, g)
         PROVE  account'[u].state = account[u].state /\ account'[u].pw = account[u].pw
    <3>1. account[x] \in Accounts
      BY <1>0
    <3>2. QED BY <1>0, <2>3, <2>10, <3>1 DEF UpdateUser, Accounts
  <2>11. CASE ApiRestart
    BY <1>0, <2>3, <2>4, <2>11, Restarted
  <2>12. QED BY <1>5, <2>4, <2>5, <2>6, <2>7, <2>8, <2>9, <2>10, <2>11, AccountShapes DEF MfaStep
<1>6. QED BY <1>3, <1>4, <1>5

-----------------------------------------------------------------------------
(* Recovery codes                                                           *)

\* A request that is spending a code has it from the row of its account.
LEMMA HeldParts ==
    ASSUME NEW u \in Users
    PROVE  /\ account[u].codes \subseteq Held(u)
           /\ \A c \in Clients : client[c].at = "spending" /\ client[c].user = u =>
                 client[c].left \cup {client[c].code} \subseteq Held(u)
           /\ \A k \in Held(u) : \/ k \in account[u].codes
                                 \/ \E c \in Clients :
                                       /\ client[c].at = "spending" /\ client[c].user = u
                                       /\ k \in client[c].left \cup {client[c].code}
BY DEF Held

\* No step gives an account a code that is neither its own nor new, and new
\* ones get only one account.
LEMMA HeldSteps ==
    ASSUME TypeOK, Carrying, [Next]_vars
    PROVE  /\ changes <= changes'
           /\ \/ \A u \in Users : account'[u].codes \subseteq Held(u)
              \/ \E u \in Users : /\ \A v \in Users \ {u} : account'[v].codes \subseteq Held(v)
                                  /\ account'[u].codes = {changes + 1} \X Codes
                                  /\ changes' = changes + 1
<1>0. account \in [Users -> Accounts] /\ changes \in Nat
  BY DEF TypeOK, Versions
<1>1. \A u \in Users : account[u].codes \subseteq Held(u)
  BY HeldParts
<1>2. CASE account' = account /\ changes' \in {changes, changes + 1}
  BY <1>0, <1>1, <1>2
<1>3. ASSUME NEW c \in Clients, MfaStep(c)
      PROVE  /\ changes <= changes'
             /\ \/ \A u \in Users : account'[u].codes \subseteq Held(u)
                \/ \E u \in Users : /\ \A v \in Users \ {u} : account'[v].codes \subseteq Held(v)
                                    /\ account'[u].codes = {changes + 1} \X Codes
                                    /\ changes' = changes + 1
  <2> DEFINE u == client[c].user
  <2>1. /\ u \in Users
        /\ \A x \in Users \ {u} : account'[x] = account[x]
        /\ \/ changes' = changes + 1 /\ account'[u].codes \in {Issued, account[u].codes}
           \/ changes' = changes /\ account'[u].codes \subseteq account[u].codes
           \/ changes' = changes /\ VerifyWrites(c) /\ account'[u].codes = client[c].left
    BY <1>3, Mfa
  <2>2. VerifyWrites(c) => client[c].left \subseteq Held(u)
    BY <2>1, HeldParts DEF VerifyWrites, At
  <2>3. changes' = changes + 1 => Issued = {changes + 1} \X Codes
    BY DEF Issued
  <2> HIDE DEF u
  <2>4. \A v \in Users \ {u} : account'[v].codes \subseteq Held(v)
    BY <1>1, <2>1
  <2>5. CASE changes' = changes + 1 /\ account'[u].codes = Issued
    BY <1>0, <2>1, <2>3, <2>4, <2>5
  <2>6. CASE account'[u].codes \subseteq Held(u) /\ changes' \in {changes, changes + 1}
    BY <1>0, <2>1, <2>4, <2>6
  <2>7. QED BY <1>1, <2>1, <2>2, <2>5, <2>6
<1>4. ASSUME NEW c \in Clients, NEW u \in Users,
             \/ LockUser(c, u) \/ UnlockUser(c, u) \/ ResetPassword(c, u) \/ DeleteUser(c, u)
             \/ \E g \in Groups : CreateUser(c, u, g) \/ UpdateUser(c, u, g)
      PROVE  changes <= changes' /\ \A v \in Users : account'[v].codes \subseteq Held(v)
  BY <1>1, <1>4, Managed
<1>5. CASE ApiRestart
  BY <1>0, <1>1, <1>5, Restarted
<1>6. CASE \E c \in Clients, u \in Users : LockUser(c, u) \/ UnlockUser(c, u) \/ ResetPassword(c, u)
                                            \/ DeleteUser(c, u)
  BY <1>4, <1>6
<1>7. CASE \E c \in Clients, u \in Users, g \in Groups : CreateUser(c, u, g) \/ UpdateUser(c, u, g)
  BY <1>4, <1>7
<1>8. QED BY <1>2, <1>3, <1>5, <1>6, <1>7, AccountShapes DEF MfaStep

\* What an account has after a step it had before, or it is new.
LEMMA HeldStays ==
    ASSUME TypeOK, Carrying, [Next]_vars, NEW u \in Users, NEW k \in Held(u)'
    PROVE  k \in Held(u) \/ k \in account'[u].codes
<1>1. \/ k \in account'[u].codes
      \/ \E c \in Clients : /\ client'[c].at = "spending" /\ client'[c].user = u
                            /\ k \in client'[c].left \cup {client'[c].code}
  BY DEF Held
<1>2. ASSUME NEW c \in Clients, client'[c].at = "spending", client'[c].user = u,
             k \in client'[c].left \cup {client'[c].code}
      PROVE  k \in Held(u)
  <2>1. CASE client'[c] = client[c]
    BY <1>2, <2>1, HeldParts
  <2>2. CASE client'[c] # client[c]
    BY <1>2, <2>2, Requesting, HeldParts
  <2>3. QED BY <2>1, <2>2
<1>3. QED BY <1>1, <1>2

LEMMA Apart == ASSUME TypeOK, Carrying, CodesApart, [Next]_vars PROVE CodesApart'
<1>0. changes \in Nat /\ changes' \in Nat /\ changes <= changes'
  BY HeldSteps, Types DEF TypeOK, Versions
<1>1. ASSUME NEW u \in Users PROVE account'[u].mfa = "none" => account'[u].codes = {}
  <2>1. account[u].mfa = "none" => account[u].codes = {}
    BY DEF CodesApart
  <2>2. ASSUME NEW c \in Clients, NEW x \in Users,
               \/ LockUser(c, x) \/ UnlockUser(c, x) \/ ResetPassword(c, x) \/ DeleteUser(c, x)
               \/ \E g \in Groups : CreateUser(c, x, g) \/ UpdateUser(c, x, g)
        PROVE  account'[u].mfa = "none" => account'[u].codes = {}
    BY <2>1, <2>2, Managed
  <2>3. ASSUME NEW c \in Clients, MfaStep(c)
        PROVE  account'[u].mfa = "none" => account'[u].codes = {}
    <3>1. CASE u = client[c].user
      BY <2>1, <2>3, <3>1, Mfa
    <3>2. CASE u # client[c].user
      BY <2>1, <2>3, <3>2, Mfa
    <3>3. QED BY <3>1, <3>2
  <2>4. CASE ApiRestart
    BY <2>1, <2>4, Restarted DEF TypeOK
  <2>5. CASE account' = account
    BY <2>1, <2>5
  <2>6. CASE \E c \in Clients, x \in Users :
                LockUser(c, x) \/ UnlockUser(c, x) \/ ResetPassword(c, x) \/ DeleteUser(c, x)
    BY <2>2, <2>6
  <2>7. CASE \E c \in Clients, x \in Users, g \in Groups :
                CreateUser(c, x, g) \/ UpdateUser(c, x, g)
    BY <2>2, <2>7
  <2>8. QED BY <2>3, <2>4, <2>5, <2>6, <2>7, AccountShapes DEF MfaStep
<1>2. ASSUME NEW u \in Users, NEW k \in Held(u)'
      PROVE  \/ k \in Held(u)
             \/ /\ k[1] = changes + 1 /\ changes' = changes + 1
                /\ \A v \in Users \ {u} : account'[v].codes \subseteq Held(v)
  <2>1. CASE k \in Held(u)
    BY <2>1
  <2>2. CASE k \notin Held(u)
    <3>1. k \in account'[u].codes
      BY <1>2, <2>2, HeldStays
    <3>2. PICK x \in Users : /\ \A v \in Users \ {x} : account'[v].codes \subseteq Held(v)
                             /\ account'[x].codes = {changes + 1} \X Codes
                             /\ changes' = changes + 1
      BY <2>2, <3>1, HeldSteps
    <3>3. x = u
      BY <2>2, <3>1, <3>2
    <3>4. QED BY <3>1, <3>2, <3>3
  <2>3. QED BY <2>1, <2>2
<1>3. ASSUME NEW u \in Users, NEW k \in Held(u)' PROVE k[1] <= changes'
  <2>1. k \in Held(u) => k[1] <= changes /\ k[1] \in Nat
    <3>1. k \in Held(u) => k \in CodeSet
      <4>1. account[u].codes \subseteq CodeSet
        BY DEF TypeOK, Accounts
      <4>2. \A c \in Clients : client[c].left \subseteq CodeSet
        BY DEF TypeOK, Requests
      <4>3. QED BY <4>1, <4>2, HeldParts DEF Carrying
    <3>2. QED BY <3>1 DEF CodesApart, CodeSet, Versions
  <2>2. QED BY <1>0, <1>2, <1>3, <2>1
<1>4. \A k \in accepted' : k[1] <= changes'
  <2>1. \A k \in accepted : k[1] \in Nat /\ k[1] <= changes
    BY DEF TypeOK, CodesApart, CodeSet, Versions
  <2>2. CASE accepted' = accepted
    BY <1>0, <2>1, <2>2
  <2>3. ASSUME NEW c \in Clients, VerifyWrites(c), NEW k \in accepted' PROVE k[1] <= changes'
    <3>1. /\ client[c].user \in Users
          /\ client[c].code \in Held(client[c].user) /\ client[c].code \in CodeSet
      BY <2>3, HeldParts DEF VerifyWrites, At, Carrying
    <3>2. client[c].code[1] <= changes /\ client[c].code[1] \in Nat
      BY <3>1 DEF CodesApart, CodeSet, Versions
    <3>3. QED BY <1>0, <2>1, <2>3, <3>2 DEF VerifyWrites, Accept
  <2>4. QED BY <2>2, <2>3, HistoryShapes DEF history
<1>5. ASSUME NEW u \in Users, NEW v \in Users, NEW k \in Held(u)', k \in Held(v)', u # v
      PROVE  FALSE
  <2>1. ASSUME NEW x \in Users, k \in Held(x) PROVE k[1] # changes + 1
    <3>1. k \in CodeSet
      <4>1. account[x].codes \subseteq CodeSet
        BY DEF TypeOK, Accounts
      <4>2. \A c \in Clients : client[c].left \subseteq CodeSet
        BY DEF TypeOK, Requests
      <4>3. QED BY <2>1, <4>1, <4>2, HeldParts DEF Carrying
    <3>2. QED BY <1>0, <2>1, <3>1 DEF CodesApart, CodeSet, Versions
  <2>2. CASE k \in Held(u) /\ k \in Held(v)
    BY <1>5, <2>2 DEF CodesApart
  <2>3. CASE k \notin Held(u)
    <3>1. k \in Held(v)
      BY <1>2, <1>5, <2>3, HeldStays
    <3>2. QED BY <1>2, <1>5, <2>1, <2>3, <3>1
  <2>4. CASE k \notin Held(v)
    <3>1. k \in Held(u)
      BY <1>2, <1>5, <2>4, HeldStays
    <3>2. QED BY <1>2, <1>5, <2>1, <2>4, <3>1
  <2>5. QED BY <2>2, <2>3, <2>4
<1>6. \A u, v \in Users : (Held(u) \cap Held(v))' # {} => u = v
  BY <1>5
<1>7. QED BY <1>1, <1>3, <1>4, <1>6 DEF CodesApart

\* Nothing but a spent code's request puts older codes into a row.
LEMMA CodesStay ==
    ASSUME TypeOK, Carrying, [Next]_vars, ~ \E c \in Clients : VerifyWrites(c), NEW x \in Users
    PROVE  \/ account'[x].codes \subseteq account[x].codes
           \/ account'[x].codes = {changes + 1} \X Codes
<1>0. account \in [Users -> Accounts]
  BY DEF TypeOK
<1>1. CASE account' = account
  BY <1>1
<1>2. ASSUME NEW c \in Clients, MfaStep(c)
      PROVE  \/ account'[x].codes \subseteq account[x].codes
             \/ account'[x].codes = {changes + 1} \X Codes
  <2>1. changes' = changes + 1 => Issued = {changes + 1} \X Codes
    BY DEF Issued
  <2>2. CASE x = client[c].user
    BY <1>2, <2>1, <2>2, Mfa
  <2>3. CASE x # client[c].user
    BY <1>2, <2>3, Mfa
  <2>4. QED BY <2>2, <2>3
<1>3. ASSUME NEW c \in Clients, NEW u \in Users,
             \/ LockUser(c, u) \/ UnlockUser(c, u) \/ ResetPassword(c, u) \/ DeleteUser(c, u)
             \/ \E g \in Groups : CreateUser(c, u, g) \/ UpdateUser(c, u, g)
      PROVE  account'[x].codes \subseteq account[x].codes
  BY <1>3, Managed
<1>4. CASE ApiRestart
  BY <1>0, <1>4, Restarted
<1>5. CASE \E c \in Clients, u \in Users : LockUser(c, u) \/ UnlockUser(c, u) \/ ResetPassword(c, u)
                                            \/ DeleteUser(c, u)
  BY <1>3, <1>5
<1>6. CASE \E c \in Clients, u \in Users, g \in Groups : CreateUser(c, u, g) \/ UpdateUser(c, u, g)
  BY <1>3, <1>6
<1>7. QED BY <1>1, <1>2, <1>4, <1>5, <1>6, AccountShapes DEF MfaStep

LEMMA Gone ==
    ASSUME TypeOK, Carrying, CodesApart, SpentIsGone, [Next]_vars
    PROVE  /\ SpentIsGone' /\ contested \subseteq contested'
           /\ \A u \in Users : u \in reused' /\ u \notin reused => u \in contested'
<1>0. account \in [Users -> Accounts] /\ changes \in Nat
  BY DEF TypeOK, Versions
<1>1. CASE \E c \in Clients : VerifyWrites(c)
  <2>1. PICK c \in Clients : VerifyWrites(c)
    BY <1>1
  <2> DEFINE u == client[c].user
             k == client[c].code
  <2>2. u \in Users /\ k \notin client[c].left /\ client[c].at = "spending"
    BY <2>1 DEF VerifyWrites, At, Carrying
  <2>3. accepted' = accepted \cup {k} /\ contested \subseteq contested'
        /\ (k \notin accepted => reused' = reused) /\ reused' \subseteq reused \cup {u}
    BY <2>1 DEF VerifyWrites, Accept
  <2>4. u \notin contested' =>
           /\ u \notin contested /\ account[u].codes = client[c].left \cup {k}
           /\ account'[u].codes = client[c].left
    <3>1. u \notin contested' => account[u].codes = client[c].left \cup {k}
      BY <2>1 DEF VerifyWrites
    <3>2. u \notin contested' => account[u].mfa # "none"
      BY <2>2, <3>1 DEF CodesApart
    <3>3. account[u] \in Accounts
      BY <1>0, <2>2
    <3>4. account[u].mfa # "none" => account'[u].codes = client[c].left
      BY <1>0, <2>1, <2>2, <3>3 DEF VerifyWrites, Accounts
    <3>5. QED BY <2>3, <3>1, <3>2, <3>4
  <2>5. \A x \in Users \ {u} : account'[x] = account[x]
    BY <2>1, Mfa DEF MfaStep
  <2>6. k \in Held(u)
    BY <2>2, HeldParts
  <2> HIDE DEF u, k
  <2>7. ASSUME NEW x \in Users \ contested', NEW l \in accepted', l \in account'[x].codes
        PROVE  FALSE
    <3>1. CASE x = u
      BY <2>2, <2>3, <2>4, <2>7, <3>1 DEF SpentIsGone
    <3>2. CASE x # u
      <4>1. l \in account[x].codes /\ l \in Held(x)
        BY <2>5, <2>7, <3>2, HeldParts
      <4>2. l # k
        BY <2>2, <2>6, <3>2, <4>1 DEF CodesApart
      <4>3. QED BY <2>3, <2>7, <4>1, <4>2 DEF SpentIsGone
    <3>3. QED BY <3>1, <3>2
  <2>8. u \in reused' /\ u \notin reused => u \in contested'
    BY <2>2, <2>3, <2>4 DEF SpentIsGone
  <2>9. QED BY <2>3, <2>7, <2>8 DEF SpentIsGone
<1>2. CASE UNCHANGED history /\ ~ \E c \in Clients : VerifyWrites(c)
  <2>1. ASSUME NEW x \in Users \ contested, NEW l \in accepted, l \in account'[x].codes PROVE FALSE
    <3>1. l[1] # changes + 1
      BY <1>0 DEF TypeOK, CodesApart, CodeSet, Versions
    <3>2. l \in account[x].codes
      BY <1>2, <2>1, <3>1, CodesStay
    <3>3. QED BY <2>1, <3>2 DEF SpentIsGone
  <2>2. QED BY <1>2, <2>1 DEF SpentIsGone, history
<1>3. QED BY <1>1, <1>2, HistoryShapes

-----------------------------------------------------------------------------
(* Failed logins                                                            *)

LEMMA CountingFinite ==
    ASSUME NEW u \in Users
    PROVE  /\ IsFiniteSet(Counting(u)) /\ Cardinality(Counting(u)) \in Nat
           /\ Cardinality(Clients) \in Nat /\ Cardinality(Counting(u)) <= Cardinality(Clients)
BY FS_Subset, FS_CardinalityType DEF Counting

LEMMA Counts ==
    ASSUME TypeOK, Carrying, Counted, [Next]_vars
    PROVE  Counted'
<1> DEFINE n == Cardinality(Clients)
<1>1. SUFFICES ASSUME NEW u \in Watched
               PROVE  \/ failures'[u] + Cardinality(Counting(u)') < policy'.limit + n
                      \/ failures'[u] + Cardinality(Counting(u)') <= carried'[u] + n
  BY DEF Counted
<1>0. /\ failures[u] \in Nat /\ failures'[u] \in Nat
      /\ carried[u] \in Nat /\ carried'[u] \in Nat
      /\ policy.limit \in Nat /\ policy'.limit \in Nat /\ n \in Nat
  BY LoginTypes, FS_CardinalityType DEF TypeOK, Policies
<1>2. /\ Counting(u) \subseteq Clients /\ IsFiniteSet(Counting(u))
      /\ Cardinality(Counting(u)) \in Nat /\ Cardinality(Counting(u)) <= n
  BY CountingFinite DEF Counting
<1>3. /\ Counting(u)' \subseteq Clients /\ IsFiniteSet(Counting(u)')
      /\ Cardinality(Counting(u)') \in Nat /\ Cardinality(Counting(u)') <= n
  <2>1. Counting(u)' \subseteq Clients
    BY DEF Counting
  <2>2. QED BY <2>1, FS_Subset, FS_CardinalityType
<1>4. \/ failures[u] + Cardinality(Counting(u)) < policy.limit + n
      \/ failures[u] + Cardinality(Counting(u)) <= carried[u] + n
  BY DEF Counted
<1> DEFINE Fresh == \E c \in Clients : /\ LoginCounts(c) /\ client[c].user = u
                                       /\ client[c].policy = policy
           Updated == \E c \in Clients, demand \in BOOLEAN, limit \in Limits,
                         window \in Windows : UpdatePolicy(c, demand, limit, window)
<1>5. CASE Fresh
  <2>1. failures[u] < policy.limit /\ failures' = failures /\ policy' = policy
    <3>1. policy.window \in Nat /\ aged[u] \in Nat
      BY AccessAssumption DEF TypeOK, Policies
    <3>2. PICK c \in Clients : /\ LoginCounts(c) /\ client[c].user = u
                              /\ client[c].policy = policy
      BY <1>5
    <3>3. CountedBy(c) \subseteq {failures[u]}
      BY <1>0, <3>1, <3>2 DEF CountedBy, Within
    <3>4. QED BY <3>2, <3>3 DEF LoginCounts, tables, logins
  <2> HIDE DEF n
  <2>2. QED BY <1>0, <1>3, <2>1
<1>6. CASE Updated
  <2>1. carried' = failures'
    BY <1>6 DEF UpdatePolicy
  <2> HIDE DEF n
  <2>2. QED BY <1>0, <1>3, <2>1
<1>7. ASSUME ~Fresh, ~Updated
      PROVE  policy' = policy /\ Counting(u)' \subseteq Counting(u)
  <2>1. policy' = policy
    BY <1>7, LoginShapes
  <2>2. ASSUME NEW d \in Counting(u)' PROVE d \in Counting(u)
    <3>1. CASE client'[d].at = "asked" /\ client'[d].policy # policy
      BY <2>1, <2>2, <3>1, Requesting DEF Counting
    <3>2. CASE client'[d].at \in {"counted", "refused"}
      BY <1>7, <2>2, <3>2, Requesting DEF Counting, LoginCounts, At
    <3>3. QED BY <2>1, <2>2, <3>1, <3>2 DEF Counting
  <2>3. QED BY <2>1, <2>2
<1>8. ASSUME ~Fresh, ~Updated PROVE Cardinality(Counting(u)') <= Cardinality(Counting(u))
  BY <1>2, <1>7, <1>8, FS_Subset
<1>9. ASSUME ~Fresh, ~Updated, NEW c \in Clients, RecordFailure(c), client[c].user = u
      PROVE  Cardinality(Counting(u)') <= Cardinality(Counting(u)) - 1
  <2>1. c \in Counting(u)
    BY <1>9 DEF RecordFailure, At, Counting
  <2>2. client'[c].at = "idle"
    BY <1>9, Leaving DEF RecordFailure, Idle
  <2>3. Counting(u)' \subseteq Counting(u) \ {c}
    BY <1>7, <1>9, <2>2 DEF Counting
  <2>4. /\ IsFiniteSet(Counting(u) \ {c})
        /\ Cardinality(Counting(u) \ {c}) = Cardinality(Counting(u)) - 1
    BY <1>2, <2>1, FS_RemoveElement
  <2>5. QED BY <2>3, <2>4, FS_Subset
<1>10. CASE ~Fresh /\ ~Updated
  <2>1. \/ failures'[u] = failures[u] /\ carried'[u] = carried[u]
        \/ failures'[u] = 0
        \/ failures'[u] = failures[u] - 1
           /\ carried'[u] = (IF carried[u] > 0 THEN carried[u] - 1 ELSE 0)
        \/ /\ failures'[u] = failures[u] + 1 /\ carried'[u] = carried[u]
           /\ \E c \in Clients : RecordFailure(c) /\ client[c].user = u
    <3>1. CASE UNCHANGED <<logins, policy>>
      BY <3>1 DEF logins
    <3>2. ASSUME NEW c \in Clients, RecordFailure(c) \/ RecordSuccess(c)
          PROVE  \/ failures'[u] = failures[u] /\ carried'[u] = carried[u]
                 \/ failures'[u] = 0
                 \/ /\ failures'[u] = failures[u] + 1 /\ carried'[u] = carried[u]
                    /\ RecordFailure(c) /\ client[c].user = u
      BY <3>2 DEF RecordFailure, RecordSuccess, TypeOK, logins
    <3>3. ASSUME NEW v \in Watched, FailureAges(v) \/ FailureExpires(v)
          PROVE  \/ failures'[u] = failures[u] /\ carried'[u] = carried[u]
                 \/ failures'[u] = failures[u] - 1
                    /\ carried'[u] = (IF carried[u] > 0 THEN carried[u] - 1 ELSE 0)
      BY <3>3 DEF FailureAges, FailureExpires, TypeOK
    <3>4. QED BY <1>10, <3>1, <3>2, <3>3, LoginShapes
  <2>2. policy' = policy
    BY <1>7, <1>10
  <2>3. \/ Cardinality(Counting(u)') <= Cardinality(Counting(u)) - 1
        \/ failures'[u] # failures[u] + 1 /\ Cardinality(Counting(u)') <= Cardinality(Counting(u))
        \/ failures'[u] = 0
    BY <1>0, <1>8, <1>9, <1>10, <2>1
  <2>4. Cardinality(Counting(u)') <= Cardinality(Counting(u))
    BY <1>8, <1>10
  <2> HIDE DEF n, Fresh, Updated
  <2>5. QED BY <1>0, <1>2, <1>3, <1>4, <2>1, <2>2, <2>3, <2>4
<1>11. QED BY <1>5, <1>6, <1>10

-----------------------------------------------------------------------------
LEMMA Start == Init => Inv
<1> SUFFICES ASSUME Init PROVE Inv
  OBVIOUS
<1>0. /\ Administrators \in Groups /\ 0 \in Versions /\ Created(Administrators, 0) \in Accounts
      /\ NoAccount("never") \in Accounts /\ Idle \in Requests /\ Idle.at = "idle"
      /\ NoAccount("never").codes = {} /\ Created(Administrators, 0).codes = {}
  BY CreatedIs DEF Versions, NoAccount, Accounts, Idle, Requests, Stages
<1>1. TypeOK
  <2>1. policy \in Policies /\ changes \in Versions
    BY AccessAssumption DEF Init, Policies, Versions
  <2>2. group \in [Groups -> {"absent", "plain", "manage"}]
    BY DEF Init, Shipped
  <2>3. account \in [Users -> Accounts] /\ client \in [Clients -> Requests]
    BY <1>0 DEF Init
  <2>4. QED BY <2>1, <2>2, <2>3, AccessAssumption DEF Init, TypeOK
<1>2. \A c \in Clients : client[c].at = "idle"
  BY <1>0 DEF Init
<1>3. Carrying /\ SessionsEndWithCredentials /\ CodesSpentOnce
  BY <1>2 DEF Init, Carrying, SessionsEndWithCredentials, CodesSpentOnce
<1>4. AdministratorsRemain
  <2>1. Seed \in Users /\ account[Seed] = Created(Administrators, 0)
    BY AccessAssumption DEF Init
  <2>2. account[Seed].state = "enabled" /\ account[Seed].group = Administrators
    BY <1>0, <2>1, CreatedIs
  <2>3. Seed \in Admins
    BY <2>1, <2>2 DEF Admins, Exists
  <2>4. QED BY <2>3 DEF AdministratorsRemain
<1>5. \A u \in Users : account[u].codes = {} /\ Held(u) = {}
  BY <1>0, <1>2 DEF Init, Held
<1>6. CodesApart /\ SpentIsGone
  BY <1>5 DEF Init, CodesApart, SpentIsGone
<1>7. Counted
  <2>1. \A u \in Users : Counting(u) = {}
    BY <1>2 DEF Counting
  <2>2. Cardinality({}) = 0 /\ Cardinality(Clients) \in Nat
    BY FS_EmptySet, FS_CardinalityType
  <2>3. \A u \in Watched : failures[u] = 0 /\ carried[u] = 0
    BY DEF Init
  <2>5. ASSUME NEW u \in Watched
        PROVE  failures[u] + Cardinality(Counting(u)) <= carried[u] + Cardinality(Clients)
    <3>1. failures[u] = 0 /\ carried[u] = 0 /\ Cardinality(Counting(u)) = 0
      BY <2>1, <2>2, <2>3
    <3>2. QED BY <2>2, <3>1
  <2>6. QED BY <2>5 DEF Counted
<1>8. QED BY <1>1, <1>3, <1>4, <1>6, <1>7 DEF Inv

LEMMA Step == Inv /\ [Next]_vars => Inv'
<1> SUFFICES ASSUME Inv, [Next]_vars PROVE Inv'
  OBVIOUS
<1>1. TypeOK' /\ Carrying' /\ SessionsEndWithCredentials' /\ AdministratorsRemain'
  BY Types, Carries, SessionsEnd, Remain DEF Inv
<1>2. CodesApart' /\ Counted'
  BY Apart, Counts DEF Inv
<1>3. SpentIsGone' /\ CodesSpentOnce'
  BY <1>1, Gone DEF Inv, CodesSpentOnce, TypeOK
<1>4. QED BY <1>1, <1>2, <1>3 DEF Inv

LEMMA Invariance == Spec => []Inv
BY Start, Step, PTL DEF Spec

\* Every variable keeps its type, whoever logs in and whatever is changed.
THEOREM TypeCorrect == Spec => []TypeOK
BY Invariance, PTL DEF Inv

\* lock_user, reset_user_password and delete_user end the sessions there are; what is
\* left has been created by a login that had read the account before.
THEOREM SessionsEnded == Spec => []SessionsEndWithCredentials
BY Invariance, PTL DEF Inv

\* The checks of update_user, lock_user and delete_user together keep an administrator.
THEOREM AdministratorRemains == Spec => []AdministratorsRemain
BY Invariance, PTL DEF Inv

\* verify_mfa_code accepts no recovery code twice, but of an account whose codes it
\* has written over a stale reading.
THEOREM CodesOnce == Spec => []CodesSpentOnce
BY Invariance, PTL DEF Inv

\* The failures that login counts exceed what the policy in force lets through, its
\* limit or the failures it found, by fewer than the requests the server has under way,
\* whatever is changed between the awaits of login.
THEOREM Failures == Spec => []FailuresBounded
<1>1. Inv => FailuresBounded
  <2> SUFFICES ASSUME Inv, NEW u \in Watched
               PROVE  \/ failures[u] < policy.limit + Cardinality(Clients)
                      \/ failures[u] <= carried[u] + Cardinality(Clients)
    BY DEF FailuresBounded
  <2>1. failures[u] \in Nat /\ carried[u] \in Nat /\ policy.limit \in Nat
    BY DEF Inv, TypeOK, Policies
  <2>2. QED BY <2>1, CountingFinite DEF Inv, Counted
<1>2. QED BY <1>1, Invariance, PTL
=============================================================================
