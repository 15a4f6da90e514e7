------------------------------ MODULE Accounts ------------------------------
(***************************************************************************)
(* Accounts of the backend: sign-in, registration and sessions             *)
(* (routes/auth.py, services/auth.py), the administration of users and of  *)
(* upgrade requests (routes/root.py) and the server plan limit             *)
(* (routes/servers.py), with the tables they write (db.py).                *)
(*                                                                         *)
(* As in Deployments, a handler is a thread and every database call is a   *)
(* transaction of its own. A call mints at most one user, one session and  *)
(* one server, so the call names them: users[c] is the account that call c *)
(* inserted, sessions[c] the session.                                      *)
(***************************************************************************)
EXTENDS Naturals, FiniteSets

CONSTANTS
    Calls,          \* the calls of a behaviour, each handled once
    Accounts0,      \* the accounts that may exist when it begins
    Bootstrap,      \* the one of them that ensure_default_user made
    Root,           \* its name
    Names,          \* user names
    Upgrades,       \* ids of upgrade requests
    MaxAttempts,    \* DEPLOYMATE_AUTH_RATE_LIMIT_ATTEMPTS
    MaxServers,     \* PLAN_LIMITS["trial"]["max_servers"]; "team" has room for all
    Ops,            \* the operations considered in a run
    NoUser, NoCall

Ids == Calls \cup Accounts0

ASSUME AccountsAssumption ==
    /\ Accounts0 \cap Calls = {} /\ Bootstrap \in Accounts0 /\ Root \in Names
    /\ MaxAttempts \in Nat \ {0} /\ MaxServers \in Nat \ {0}
    /\ IsFiniteSet(Ids) /\ NoUser \notin Ids /\ NoCall \notin Ids

Roles == {"admin", "member"}
Plans == {"trial", "team"}
User == [name: Names, role: Roles, plan: Plans]
Upgrade == [status: {"new", "closed"}, note: Calls \cup {NoCall},
            target: Ids \cup {NoUser}, reviewed: Calls \cup {NoCall}]

ASSUME NoUserAssumption == NoUser \notin User

VARIABLES
    users,      \* table users, without the password hash
    sessions,   \* table sessions: the user of each token, or NoUser
    failures,   \* table auth_rate_limit_events: recent failures per action and name
    upgrades,   \* table upgrade_requests; a note and a date are named by the call that wrote them
    servers,    \* table servers: the plan under which each was saved, or "none"
    pc, op,     \* control state and kind of each call
    goal,       \* what the payload asks for
    read,       \* the row the handler read first
    raced       \* history: see below

tables == <<users, sessions, failures, upgrades, servers>>
locals == <<op, goal, read>>
vars == <<tables, pc, locals, raced>>

\* "raced" is not part of the program: it collects the checks that two calls
\* relied on at the same time: the last admin, the number of servers, the failures of
\* an action and a name, an upgrade request.

-----------------------------------------------------------------------------
(* Helpers *)

Goto(c, l) == pc' = [pc EXCEPT ![c] = l] /\ UNCHANGED locals

\* A payload that asks for nothing; "keep" is a field left out.
Nothing == [name |-> Root, role |-> "keep", plan |-> "keep", on |-> NoUser,
            status |-> "keep", noted |-> FALSE, right |-> FALSE, checks |-> <<>>]

\* The handler returns or raises, and its local state is gone.
Finish(c) ==
    /\ pc' = [pc EXCEPT ![c] = "done"]
    /\ op' = [op EXCEPT ![c] = "none"]
    /\ goal' = [goal EXCEPT ![c] = Nothing]
    /\ read' = [read EXCEPT ![c] = NoUser]
Exists(u) == users[u] # NoUser
AdminIds == {u \in Ids : Exists(u) /\ users[u].role = "admin"}
Named(n) == {u \in Ids : Exists(u) /\ users[u].name = n}
ServerCount == Cardinality({c \in Calls : servers[c] # "none"})

\* Variant: one server too many.
LimitAndOne(plan) == IF plan = "trial" THEN MaxServers + 1 ELSE Cardinality(Calls)

\* get_plan_limits
Limit(plan) == IF plan = "trial" THEN MaxServers ELSE Cardinality(Calls)

InFlight(c) == pc[c] \notin {"idle", "done"}

\* Another call that relies on "what" is under way.
Race(c, what) ==
    raced' = IF \E b \in Calls \ {c} : InFlight(b) /\ goal[b].checks = what
             THEN raced \cup {what} ELSE raced

Begin(c, kind, g, row, l) ==
    /\ pc[c] = "idle" /\ kind \in Ops
    /\ op' = [op EXCEPT ![c] = kind]
    /\ goal' = [goal EXCEPT ![c] = g]
    /\ read' = [read EXCEPT ![c] = row]
    /\ pc' = [pc EXCEPT ![c] = l]
    /\ UNCHANGED tables

-----------------------------------------------------------------------------
(* Sign-in: POST /auth/login and POST /auth/register. *)

\* Variant: counts the failure that is yet to come.
EnforceLate(k, n) == failures[<<k, n>>] <= MaxAttempts

enforce_auth_rate_limit(k, n) == failures[<<k, n>>] < MaxAttempts

\* Up to the read of the account; "right": the password is the one of the row.
Login(c, n, right) ==
    /\ enforce_auth_rate_limit("login", n)
    /\ Begin(c, "login", [Nothing EXCEPT !.name = n, !.right = right,
                                         !.checks = <<"login", n>>],
             IF Named(n) = {} THEN NoUser ELSE CHOOSE u \in Named(n) : TRUE, "write")
    /\ Race(c, <<"login", n>>)

\* Up to get_user_by_username.
Register(c, n) ==
    /\ enforce_auth_rate_limit("register", n)
    /\ Begin(c, "register", [Nothing EXCEPT !.name = n, !.role = "member", !.right = Named(n) = {},
                                            !.checks = <<"register", n>>],
             c, IF Named(n) = {} THEN "insert" ELSE "write")
    /\ Race(c, <<"register", n>>)

\* record_auth_rate_limit_failure
RecordFailure(c) ==
    /\ pc[c] = "write" /\ op[c] \in {"login", "register"}
    /\ ~goal[c].right \/ read[c] = NoUser
    /\ failures' = [failures EXCEPT ![<<op[c], goal[c].name>>] = @ + 1]
    /\ Finish(c)
    /\ UNCHANGED <<users, sessions, upgrades, servers, raced>>

\* Variant: a table without the UNIQUE constraint.
InsertAnyway(c) ==
    /\ pc[c] = "insert"
    /\ users' = [users EXCEPT ![c] = [name |-> goal[c].name, role |-> goal[c].role, plan |-> "trial"]]
    /\ IF op[c] = "register" THEN Goto(c, "write") ELSE Finish(c)
    /\ UNCHANGED <<sessions, failures, upgrades, servers, raced>>

\* insert_user: a name that is taken by now raises 500.
InsertUser(c) ==
    /\ pc[c] = "insert"
    /\ \/ /\ Named(goal[c].name) = {}
          /\ users' = [users EXCEPT ![c] = [name |-> goal[c].name, role |-> goal[c].role,
                                            plan |-> "trial"]]
          /\ IF op[c] = "register" THEN Goto(c, "write") ELSE Finish(c)
       \/ Named(goal[c].name) # {} /\ Finish(c) /\ UNCHANGED users
    /\ UNCHANGED <<sessions, failures, upgrades, servers, raced>>

\* create_session: the user must exist still.
CreateSession(c) ==
    /\ pc[c] = "write" /\ op[c] \in {"login", "register"}
    /\ goal[c].right /\ read[c] # NoUser
    /\ \/ Exists(read[c]) /\ sessions' = [sessions EXCEPT ![c] = read[c]] /\ Goto(c, "clear")
       \/ ~Exists(read[c]) /\ Finish(c) /\ UNCHANGED sessions
    /\ UNCHANGED <<users, failures, upgrades, servers, raced>>

\* clear_auth_rate_limit
ClearFailures(c) ==
    /\ pc[c] = "clear" /\ Finish(c)
    /\ failures' = [failures EXCEPT ![<<op[c], goal[c].name>>] = 0]
    /\ UNCHANGED <<users, sessions, upgrades, servers, raced>>

\* POST /auth/logout, and get_current_user of a session that has expired.
DeleteSession(t) ==
    /\ "logout" \in Ops /\ sessions[t] # NoUser
    /\ sessions' = [sessions EXCEPT ![t] = NoUser]
    /\ UNCHANGED <<users, failures, upgrades, servers, pc, locals, raced>>

\* The window of count_recent_auth_rate_limit_events has passed.
WindowPasses(k, n) ==
    /\ failures[<<k, n>>] > 0 /\ failures' = [failures EXCEPT ![<<k, n>>] = 0]
    /\ UNCHANGED <<users, sessions, upgrades, servers, pc, locals, raced>>

-----------------------------------------------------------------------------
(* Administration. Every handler starts with require_admin. *)

require_admin == \E t \in Ids : sessions[t] # NoUser /\ users[sessions[t]].role = "admin"

\* POST /admin/users, up to the insertion.
CreateUser(c, n, role) ==
    /\ require_admin /\ Named(n) = {}
    /\ Begin(c, "create", [Nothing EXCEPT !.name = n, !.role = role], NoUser, "insert")
    /\ UNCHANGED raced

\* Variant: any admin may be demoted.
MayLoseUnchecked(u) == TRUE

\* The checks of update_user and delete_user.
MayLose(u) == users[u].role = "admin" => Cardinality(AdminIds) > 1

\* PATCH /admin/users/{id}, up to its check.
UpdateUser(c, u, role, plan) ==
    /\ require_admin /\ Exists(u)
    /\ role # "keep" \/ plan # "keep"
    /\ role = "member" => MayLose(u)
    /\ Begin(c, "update", [Nothing EXCEPT !.on = u, !.role = role, !.plan = plan,
                             !.checks = IF role = "member" THEN <<"admins">> ELSE <<>>],
             NoUser, IF role = "keep" THEN "plan" ELSE "write")
    /\ IF role = "member" THEN Race(c, <<"admins">>) ELSE UNCHANGED raced

\* DELETE /admin/users/{id}, up to its check.
DeleteUser(c, u) ==
    /\ require_admin /\ Exists(u) /\ MayLose(u)
    /\ Begin(c, "delete", [Nothing EXCEPT !.on = u, !.checks = <<"admins">>], NoUser, "write")
    /\ Race(c, <<"admins">>)

\* set_user_role and set_user_plan: nothing happens to a row that is gone.
SetRole(c) ==
    /\ pc[c] = "write" /\ op[c] = "update"
    /\ users' = IF Exists(goal[c].on) THEN [users EXCEPT ![goal[c].on].role = goal[c].role]
                ELSE users
    /\ IF goal[c].plan = "keep" THEN Finish(c) ELSE Goto(c, "plan")
    /\ UNCHANGED <<sessions, failures, upgrades, servers, raced>>

SetPlan(c) ==
    /\ pc[c] = "plan"
    /\ users' = IF Exists(goal[c].on) THEN [users EXCEPT ![goal[c].on].plan = goal[c].plan]
                ELSE users
    /\ IF op[c] = "update" THEN Finish(c) ELSE Goto(c, "write")
    /\ UNCHANGED <<sessions, failures, upgrades, servers, raced>>

\* Variant: the sessions of the user stay.
DeleteUserRow(c) ==
    /\ pc[c] = "write" /\ op[c] = "delete"
    /\ users' = [users EXCEPT ![goal[c].on] = NoUser]
    /\ Finish(c)
    /\ UNCHANGED <<sessions, failures, upgrades, servers, raced>>

\* delete_user_record; the sessions of the user go with it.
DeleteUserRecord(c) ==
    /\ pc[c] = "write" /\ op[c] = "delete"
    /\ users' = [users EXCEPT ![goal[c].on] = NoUser]
    /\ sessions' = [t \in Ids |-> IF sessions[t] = goal[c].on THEN NoUser ELSE sessions[t]]
    /\ Finish(c)
    /\ UNCHANGED <<failures, upgrades, servers, raced>>

\* PATCH /admin/upgrade-requests/{id}, up to the first write: "plan" is
\* assigned to the target user only if there is one. An empty target, though it counts
\* as a field, is none.
UpdateUpgrade(c, q, status, noted, u, plan) ==
    /\ require_admin
    /\ u # NoUser => Exists(u)
    /\ plan # "keep" => u # NoUser
    /\ Begin(c, "upgrade", [Nothing EXCEPT !.on = u, !.plan = plan, !.status = status,
                             !.noted = noted, !.checks = <<"upgrade", q>>],
             upgrades[q], IF plan # "keep" THEN "plan" ELSE "write")
    /\ Race(c, <<"upgrade", q>>)

\* Variant: the date is that of the last review.
ReviewedNow(c) == IF goal[c].status = "closed" THEN c ELSE read[c].reviewed

\* "reviewed_at = reviewed_at or now", on the row that was read.
Reviewed(c) ==
    IF goal[c].status = "closed" /\ read[c].reviewed = NoCall THEN c ELSE read[c].reviewed

\* Variant: SET status = %s.
StatusAsGiven(given, old) == given

\* COALESCE(%s, status)
StatusOr(given, old) == IF given = "keep" THEN old ELSE given

\* update_upgrade_request: COALESCE keeps the status alone.
WriteUpgrade(c) ==
    LET q == goal[c].checks[2]
    IN  /\ pc[c] = "write" /\ op[c] = "upgrade" /\ Finish(c)
        /\ upgrades' = [upgrades EXCEPT ![q] =
              [status |-> StatusOr(goal[c].status, @.status),
               note |-> IF goal[c].noted THEN c ELSE read[c].note,
               target |-> goal[c].on, reviewed |-> Reviewed(c)]]
        /\ UNCHANGED <<users, sessions, failures, servers, raced>>

\* POST /servers, up to enforce_plan_limit, under the plan of the admin's session.
CreateServer(c, plan) ==
    /\ \E t \in Ids : /\ sessions[t] # NoUser /\ users[sessions[t]].role = "admin"
                      /\ users[sessions[t]].plan = plan
    /\ ServerCount < Limit(plan)
    /\ Begin(c, "server", [Nothing EXCEPT !.plan = plan, !.checks = <<"servers">>],
             NoUser, "write")
    /\ Race(c, <<"servers">>)

InsertServer(c) ==
    /\ pc[c] = "write" /\ op[c] = "server" /\ Finish(c)
    /\ servers' = [servers EXCEPT ![c] = goal[c].plan]
    /\ UNCHANGED <<users, sessions, failures, upgrades, raced>>

\* A database call of the handler raises, or the process dies and starts again
\* with ensure_default_user.
LoseDatabase(c) ==
    /\ "fault" \in Ops /\ InFlight(c) /\ Finish(c)
    /\ UNCHANGED <<tables, raced>>

Restart ==
    /\ "restart" \in Ops
    /\ pc' = [c \in Calls |-> IF pc[c] = "idle" THEN "idle" ELSE "done"]
    /\ users' = IF Named(Root) = {}
                THEN [users EXCEPT ![Bootstrap] = [name |-> Root, role |-> "admin", plan |-> "trial"]]
                ELSE [u \in Ids |-> IF u \in Named(Root) THEN [users[u] EXCEPT !.role = "admin"]
                                    ELSE users[u]]
    /\ raced' = raced \ {<<"admins">>}
    /\ op' = [c \in Calls |-> "none"] /\ goal' = [c \in Calls |-> Nothing]
    /\ read' = [c \in Calls |-> NoUser]
    /\ UNCHANGED <<sessions, failures, upgrades, servers>>

-----------------------------------------------------------------------------
(* The specification. *)

\* The bootstrap account is an admin; the other accounts are there or not, each
\* with a name of its own; every account has signed in.
Init ==
    /\ users \in {f \in [Ids -> User \cup {NoUser}] :
          /\ \A c \in Calls : f[c] = NoUser
          /\ f[Bootstrap] = [name |-> Root, role |-> "admin", plan |-> "trial"]
          /\ \A u, v \in Accounts0 : u # v /\ f[u] # NoUser /\ f[v] # NoUser
                                    => f[u].name # f[v].name}
    /\ sessions = [t \in Ids |-> IF users[t] = NoUser THEN NoUser ELSE t]
    /\ failures = [b \in {"login", "register"} \X Names |-> 0]
    /\ upgrades = [q \in Upgrades |-> [status |-> "new", note |-> NoCall, target |-> NoUser,
                                       reviewed |-> NoCall]]
    /\ servers = [c \in Calls |-> "none"]
    /\ pc = [c \in Calls |-> "idle"] /\ op = [c \in Calls |-> "none"]
    /\ goal = [c \in Calls |-> Nothing]
    /\ read = [c \in Calls |-> NoUser] /\ raced = {}

Arrive(c) ==
    \/ \E n \in Names, right \in BOOLEAN : Login(c, n, right)
    \/ \E n \in Names : Register(c, n)
    \/ \E n \in Names, role \in Roles : CreateUser(c, n, role)
    \/ \E u \in Ids, role \in Roles \cup {"keep"}, plan \in Plans \cup {"keep"} :
          UpdateUser(c, u, role, plan)
    \/ \E u \in Ids : DeleteUser(c, u)
    \/ \E q \in Upgrades, status \in {"keep", "new", "closed"}, noted \in BOOLEAN,
          u \in Ids \cup {NoUser}, plan \in Plans \cup {"keep"} :
          UpdateUpgrade(c, q, status, noted, u, plan)
    \/ \E plan \in Plans : CreateServer(c, plan)

Proceed(c) ==
    \/ RecordFailure(c) \/ InsertUser(c) \/ CreateSession(c) \/ ClearFailures(c)
    \/ SetRole(c) \/ SetPlan(c) \/ DeleteUserRecord(c) \/ WriteUpgrade(c) \/ InsertServer(c)

\* Every call has been made, or nobody makes one.
Quiet == (\A c \in Calls : ~InFlight(c)) /\ UNCHANGED vars

Next ==
    \/ \E c \in Calls : Arrive(c) \/ Proceed(c) \/ LoseDatabase(c)
    \/ \E t \in Ids : DeleteSession(t)
    \/ \E k \in {"login", "register"}, n \in Names : WindowPasses(k, n)
    \/ Restart
    \/ Quiet

Spec == Init /\ [][Next]_vars

-----------------------------------------------------------------------------
(* Properties. *)

AccountsTypeOK ==
    /\ users \in [Ids -> User \cup {NoUser}]
    /\ sessions \in [Ids -> Ids \cup {NoUser}]
    /\ failures \in [{"login", "register"} \X Names -> Nat]
    /\ upgrades \in [Upgrades -> Upgrade]
    /\ servers \in [Calls -> Plans \cup {"none"}]
    /\ pc \in [Calls -> {"idle", "insert", "write", "clear", "plan", "done"}]

\* Somebody can administer the system: as long as no two calls that demote or
\* delete overlap, there is an admin, and after a restart there is one again.
AdminRemains == <<"admins">> \in raced \/ AdminIds # {}

\* Two registrations, or a registration and an admin, that find the same name
\* free make one account of it.
OneAccountPerName == \A u, v \in Ids :
    Exists(u) /\ Exists(v) /\ users[u].name = users[v].name => u = v

\* A session never outlives its account, even when the account is deleted while
\* its owner signs in.
SessionsOfUsers == \A t \in Ids : sessions[t] # NoUser => Exists(sessions[t])

\* The limit on sign-in attempts: as long as attempts for a name do not overlap,
\* no more than MaxAttempts of them fail within one window.
FailuresBounded == \A k \in {"login", "register"}, n \in Names :
    <<k, n>> \notin raced => failures[<<k, n>>] <= MaxAttempts

\* Admins who update an upgrade request one after the other keep each other's
\* work: the date of the first review stands, and a note is only replaced by a
\* note.
UpdateKeepsTheRest == [][\A q \in Upgrades : <<"upgrade", q>> \notin raced' =>
    /\ upgrades[q].reviewed # NoCall => upgrades'[q].reviewed = upgrades[q].reviewed
    /\ upgrades'[q].note # upgrades[q].note =>
           \E c \in Calls : upgrades'[q].note = c /\ pc[c] = "write" /\ goal[c].noted]_vars

\* As long as no two of them are saved at the same time, and no admin has a
\* larger plan, there are no more servers than the plan allows.
ServersWithinPlan ==
    <<"servers">> \notin raced /\ (\A c \in Calls : servers[c] # "team")
        => ServerCount <= MaxServers

=============================================================================
