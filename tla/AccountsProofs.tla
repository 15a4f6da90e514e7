--------------------------- MODULE AccountsProofs ---------------------------
(***************************************************************************)
(* What Accounts guarantees for every number of calls, accounts, names and *)
(* upgrade requests, and for every limit.                                  *)
(***************************************************************************)
EXTENDS Accounts, Sequences, FiniteSetTheorems, TLAPS

(* The inductive invariant. *)

\* What the payload and the row of a call can be while it is handled.
Attempts == {"login", "register"}
Payload(c) ==
    /\ op[c] \in Attempts =>
          /\ goal[c].name \in Names /\ goal[c].checks = <<op[c], goal[c].name>>
          /\ read[c] \in Ids \cup {NoUser}
    /\ op[c] = "register" => goal[c].role = "member"
    /\ op[c] = "create" =>
          goal[c].name \in Names /\ goal[c].role \in Roles /\ goal[c].checks = <<>>
    /\ op[c] = "update" =>
          /\ goal[c].on \in Ids /\ goal[c].role \in Roles \cup {"keep"}
          /\ goal[c].plan \in Plans \cup {"keep"}
          /\ goal[c].checks = IF goal[c].role = "member" THEN <<"admins">> ELSE <<>>
    /\ op[c] = "delete" => goal[c].on \in Ids /\ goal[c].checks = <<"admins">>
    /\ op[c] = "upgrade" =>
          /\ goal[c].on \in Ids \cup {NoUser} /\ goal[c].plan \in Plans \cup {"keep"}
          /\ goal[c].status \in {"keep", "new", "closed"} /\ goal[c].noted \in BOOLEAN
          /\ \E q \in Upgrades : goal[c].checks = <<"upgrade", q>>
          /\ read[c] \in Upgrade
    /\ op[c] = "server" => goal[c].plan \in Plans /\ goal[c].checks = <<"servers">>

\* The control state of a call fits what it does, and what it mints is not there yet.
Control(c) ==
    /\ pc[c] \in {"idle", "done"} <=> op[c] = "none"
    /\ pc[c] = "insert" => op[c] \in {"create", "register"}
    /\ pc[c] = "write" => op[c] \in Attempts \cup {"update", "delete", "upgrade", "server"}
    /\ pc[c] = "write" /\ op[c] = "update" => goal[c].role \in Roles
    /\ pc[c] = "clear" => op[c] \in Attempts
    /\ pc[c] = "plan" =>
          op[c] \in {"update", "upgrade"} /\ goal[c].on \in Ids /\ goal[c].plan \in Plans
    /\ pc[c] \in {"idle", "insert"} => ~Exists(c)
    /\ pc[c] = "idle" \/ op[c] = "server" => servers[c] = "none"

Kinds == Attempts \cup {"none", "create", "update", "delete", "upgrade", "server"}
Typing ==
    /\ AccountsTypeOK
    /\ op \in [Calls -> Kinds]
    /\ DOMAIN goal = Calls /\ DOMAIN read = Calls
    /\ \A c \in Calls : Payload(c) /\ Control(c)

\* What is not raced about is relied on by one call at a time.
Relies(c, what) == InFlight(c) /\ goal[c].checks = what
OneAtATime == \A b, c \in Calls : \A what :
    Relies(b, what) /\ Relies(c, what) /\ what # <<>> /\ what \notin raced => b = c

\* A call that may take away an admin leaves another one.
Spared(c) == \E u \in AdminIds : u # goal[c].on
AdminInv == <<"admins">> \notin raced =>
    /\ AdminIds # {}
    /\ \A c \in Calls : Relies(c, <<"admins">>) => Spared(c)

\* An attempt under way leaves room for its own failure.
FailuresInv == \A k \in Attempts, n \in Names : <<k, n>> \notin raced =>
    /\ failures[<<k, n>>] <= MaxAttempts
    /\ \A c \in Calls : Relies(c, <<k, n>>) => failures[<<k, n>>] < MaxAttempts

\* A call that saves a server under the small plan leaves room for it.
NoTeam == \A c \in Calls : servers[c] # "team"
ServersInv == <<"servers">> \notin raced /\ NoTeam =>
    /\ ServerCount <= MaxServers
    /\ \A c \in Calls : Relies(c, <<"servers">>) /\ goal[c].plan = "trial" =>
          ServerCount < MaxServers

\* The row that an update of an upgrade request has read is still what it was.
UpgradesInv == \A c \in Calls, q \in Upgrades :
    Relies(c, <<"upgrade", q>>) /\ <<"upgrade", q>> \notin raced =>
        read[c].reviewed = upgrades[q].reviewed /\ read[c].note = upgrades[q].note

IInv ==
    /\ Typing /\ OneAtATime /\ AdminInv /\ OneAccountPerName /\ SessionsOfUsers
    /\ FailuresInv /\ ServersInv /\ UpgradesInv

USE AccountsAssumption, NoUserAssumption DEF Ids, Attempts, Kinds

-----------------------------------------------------------------------------
(* What a step does to the calls. *)

\* The other calls are left alone.
Others(c) == \A b \in Calls \ {c} :
    pc'[b] = pc[b] /\ op'[b] = op[b] /\ goal'[b] = goal[b] /\ read'[b] = read[b]

\* A call goes on or ends: what it relies on, and what is raced about, stays.
Continues(c) ==
    /\ Others(c) /\ InFlight(c) /\ raced' = raced
    /\ InFlight(c)' => op'[c] = op[c] /\ goal'[c] = goal[c] /\ read'[c] = read[c]

\* A call arrives: no table changes, and when another call relies on the same, that
\* is raced about from here on.
Arrives(c) ==
    /\ Others(c) /\ UNCHANGED tables
    /\ pc[c] = "idle" /\ InFlight(c)'
    /\ raced \subseteq raced'
    /\ goal'[c].checks # <<>> => \A b \in Calls \ {c} :
          Relies(b, goal'[c].checks) => goal'[c].checks \in raced'

LEMMA BeginArrives ==
    ASSUME NEW c \in Calls, NEW kind, NEW g, NEW row, NEW l \in {"insert", "write", "plan"},
           Typing, Begin(c, kind, g, row, l),
           Race(c, g.checks) \/ (g.checks = <<>> /\ raced' = raced)
    PROVE  Arrives(c)
<1>1. /\ Others(c) /\ UNCHANGED tables /\ pc[c] = "idle" /\ InFlight(c)'
      /\ goal'[c] = g
  BY DEF Begin, Typing, AccountsTypeOK, Others, InFlight
<1> QED BY <1>1 DEF Arrives, Race, Relies

LEMMA ArriveStep == ASSUME Typing, NEW c \in Calls, Arrive(c) PROVE Arrives(c)
<1>1. ASSUME NEW n \in Names, NEW right \in BOOLEAN, Login(c, n, right) PROVE Arrives(c)
  BY <1>1, BeginArrives DEF Login, Nothing
<1>2. ASSUME NEW n \in Names, Register(c, n) PROVE Arrives(c)
  BY <1>2, BeginArrives DEF Register, Nothing
<1>3. ASSUME NEW n \in Names, NEW role \in Roles, CreateUser(c, n, role) PROVE Arrives(c)
  BY <1>3, BeginArrives DEF CreateUser, Nothing
<1>4. ASSUME NEW u \in Ids, NEW role \in Roles \cup {"keep"}, NEW plan \in Plans \cup {"keep"},
             UpdateUser(c, u, role, plan)
      PROVE  Arrives(c)
  BY <1>4, BeginArrives DEF UpdateUser, Nothing
<1>5. ASSUME NEW u \in Ids, DeleteUser(c, u) PROVE Arrives(c)
  BY <1>5, BeginArrives DEF DeleteUser, Nothing
<1>6. ASSUME NEW q \in Upgrades, NEW status \in {"keep", "new", "closed"}, NEW noted \in BOOLEAN,
             NEW u \in Ids \cup {NoUser}, NEW plan \in Plans \cup {"keep"},
             UpdateUpgrade(c, q, status, noted, u, plan)
      PROVE  Arrives(c)
  BY <1>6, BeginArrives DEF UpdateUpgrade, Nothing
<1>7. ASSUME NEW plan \in Plans, CreateServer(c, plan) PROVE Arrives(c)
  BY <1>7, BeginArrives DEF CreateServer, Nothing
<1> QED BY <1>1, <1>2, <1>3, <1>4, <1>5, <1>6, <1>7 DEF Arrive

LEMMA ProceedStep ==
    ASSUME Typing, NEW c \in Calls, Proceed(c) \/ LoseDatabase(c) PROVE Continues(c)
<1> USE DEF Continues, Others, InFlight, Finish, Goto, locals, Typing, AccountsTypeOK
<1>1. CASE RecordFailure(c)
  BY <1>1 DEF RecordFailure
<1>2. CASE InsertUser(c)
  BY <1>2 DEF InsertUser
<1>3. CASE CreateSession(c)
  BY <1>3 DEF CreateSession
<1>4. CASE ClearFailures(c)
  BY <1>4 DEF ClearFailures
<1>5. CASE SetRole(c)
  BY <1>5 DEF SetRole
<1>6. CASE SetPlan(c)
  BY <1>6 DEF SetPlan
<1>7. CASE DeleteUserRecord(c)
  BY <1>7 DEF DeleteUserRecord
<1>8. CASE WriteUpgrade(c)
  BY <1>8 DEF WriteUpgrade
<1>9. CASE InsertServer(c)
  BY <1>9 DEF InsertServer
<1>10. CASE LoseDatabase(c)
  BY <1>10 DEF LoseDatabase
<1> QED BY <1>1, <1>2, <1>3, <1>4, <1>5, <1>6, <1>7, <1>8, <1>9, <1>10 DEF Proceed

-----------------------------------------------------------------------------
(* What the writes to the table of users yield. *)

\* The accounts stay, with their names and with the roles of f.
KeepsUsers(f) ==
    /\ users' \in [Ids -> User \cup {NoUser}]
    /\ \A u \in Ids : Exists(u)' <=> Exists(u)
    /\ \A u \in Ids : Exists(u) => users'[u].name = users[u].name /\ users'[u].role = f[u]

Role == [u \in Ids |-> users[u].role]

LEMMA RoleWrite ==
    ASSUME Typing, NEW c \in Calls, SetRole(c)
    PROVE  KeepsUsers([Role EXCEPT ![goal[c].on] = goal[c].role])
<1>1. goal[c].on \in Ids /\ goal[c].role \in Roles
  BY DEF SetRole, Typing, Payload, Control
<1>2. ASSUME NEW on \in Ids, NEW role \in Roles, Exists(on),
             users' = [users EXCEPT ![on].role = role]
      PROVE  KeepsUsers([Role EXCEPT ![on] = role])
  <2>1. users[on] \in User
    BY <1>2 DEF Typing, AccountsTypeOK, Exists
  <2> DEFINE row == [users[on] EXCEPT !.role = role]
  <2>2. row \in User /\ row.name = users[on].name /\ row.role = role
    BY <2>1 DEF User
  <2>3. users' = [users EXCEPT ![on] = row]
    BY <1>2
  <2> HIDE DEF row
  <2> QED BY <1>2, <2>1, <2>2, <2>3 DEF KeepsUsers, Role, Typing, AccountsTypeOK, Exists
<1>3. CASE Exists(goal[c].on)
  BY <1>1, <1>2, <1>3 DEF SetRole
<1>4. CASE ~Exists(goal[c].on)
  BY <1>1, <1>4 DEF SetRole, KeepsUsers, Role, Typing, AccountsTypeOK, Exists
<1> QED BY <1>3, <1>4

LEMMA PlanWrite == ASSUME Typing, NEW c \in Calls, SetPlan(c) PROVE KeepsUsers(Role)
<1>1. goal[c].on \in Ids /\ goal[c].plan \in Plans
  BY DEF SetPlan, Typing, Payload, Control
<1>2. ASSUME NEW on \in Ids, NEW plan \in Plans, Exists(on),
             users' = [users EXCEPT ![on].plan = plan]
      PROVE  KeepsUsers(Role)
  <2>1. users[on] \in User
    BY <1>2 DEF Typing, AccountsTypeOK, Exists
  <2> DEFINE row == [users[on] EXCEPT !.plan = plan]
  <2>2. row \in User /\ row.name = users[on].name /\ row.role = users[on].role
    BY <2>1 DEF User
  <2>3. users' = [users EXCEPT ![on] = row]
    BY <1>2
  <2> HIDE DEF row
  <2>4. /\ users' \in [Ids -> User \cup {NoUser}]
        /\ \A u \in Ids : Exists(u)' <=> Exists(u)
    BY <2>1, <2>2, <2>3 DEF Typing, AccountsTypeOK, Exists
  <2>5. \A u \in Ids : users'[u].name = users[u].name /\ users'[u].role = users[u].role
    BY <2>2, <2>3 DEF Typing, AccountsTypeOK
  <2> QED BY <2>4, <2>5 DEF KeepsUsers, Role
<1>3. CASE Exists(goal[c].on)
  BY <1>1, <1>2, <1>3 DEF SetPlan
<1>4. CASE ~Exists(goal[c].on)
  BY <1>4 DEF SetPlan, KeepsUsers, Role, Typing, AccountsTypeOK, Exists
<1> QED BY <1>3, <1>4

LEMMA RestartUsers ==
    ASSUME Typing, Restart
    PROVE  /\ users' \in [Ids -> User \cup {NoUser}] /\ (AdminIds # {})'
           /\ \A u \in Ids : Exists(u) => Exists(u)'
           /\ \A u \in Ids : Exists(u)' =>
                 \/ Exists(u) /\ users'[u].name = users[u].name
                 \/ u = Bootstrap /\ users'[u].name = Root /\ Named(Root) = {}
<1>1. CASE Named(Root) = {}
  <2> DEFINE boot == [name |-> Root, role |-> "admin", plan |-> "trial"]
  <2>1. boot \in User /\ boot.name = Root /\ boot.role = "admin" /\ Bootstrap \in Ids
    BY DEF User, Roles, Plans
  <2>2. users' = [users EXCEPT ![Bootstrap] = boot]
    BY <1>1 DEF Restart
  <2> HIDE DEF boot
  <2>3. users' \in [Ids -> User \cup {NoUser}]
    BY <2>1, <2>2 DEF Typing, AccountsTypeOK
  <2>4. users'[Bootstrap] = boot /\ \A u \in Ids \ {Bootstrap} : users'[u] = users[u]
    BY <2>1, <2>2 DEF Typing, AccountsTypeOK
  <2>5. Bootstrap \in AdminIds'
    BY <2>1, <2>4 DEF AdminIds, Exists
  <2>6. \A u \in Ids : Exists(u) => Exists(u)'
    BY <2>1, <2>4 DEF Exists
  <2>7. \A u \in Ids : Exists(u)' =>
           \/ Exists(u) /\ users'[u].name = users[u].name
           \/ u = Bootstrap /\ users'[u].name = Root /\ Named(Root) = {}
    BY <1>1, <2>1, <2>4 DEF Exists
  <2> QED BY <2>3, <2>5, <2>6, <2>7
<1>2. CASE Named(Root) # {}
  <2> DEFINE Promoted(u) == [users[u] EXCEPT !.role = "admin"]
  <2>1. ASSUME NEW u \in Named(Root)
        PROVE  /\ Promoted(u) \in User /\ Promoted(u).name = users[u].name
               /\ Promoted(u).role = "admin"
    <3>1. users[u] \in User
      BY DEF Named, Exists, Typing, AccountsTypeOK
    <3> QED BY <3>1 DEF User, Roles
  <2>2. users' = [u \in Ids |-> IF u \in Named(Root) THEN Promoted(u) ELSE users[u]]
    BY <1>2 DEF Restart
  <2> HIDE DEF Promoted
  <2>3. PICK u \in Named(Root) : TRUE
    BY <1>2
  <2>4. users' \in [Ids -> User \cup {NoUser}]
    BY <2>1, <2>2 DEF Typing, AccountsTypeOK
  <2>5. u \in AdminIds'
    BY <2>1, <2>2, <2>3 DEF AdminIds, Exists, Named
  <2>6. \A v \in Ids : Exists(v) => Exists(v)'
    BY <2>1, <2>2 DEF Exists
  <2>7. \A v \in Ids : Exists(v)' => Exists(v) /\ users'[v].name = users[v].name
    BY <2>1, <2>2 DEF Exists, Named
  <2> QED BY <2>4, <2>5, <2>6, <2>7
<1> QED BY <1>1, <1>2

-----------------------------------------------------------------------------
(* Types. *)

LEMMA TypingInit == Init => Typing
<1> SUFFICES ASSUME Init PROVE Typing
  OBVIOUS
<1>1. AccountsTypeOK
  BY DEF Init, AccountsTypeOK, Upgrade, Plans
<1>2. ASSUME NEW c \in Calls PROVE Payload(c) /\ Control(c)
  BY DEF Init, Payload, Control, Exists
<1> QED BY <1>1, <1>2 DEF Init, Typing

LEMMA TypingArrive == ASSUME Typing, NEW c \in Calls, Arrive(c) PROVE Typing'
<1> USE DEF Begin, Nothing, Typing, AccountsTypeOK, Payload, Control, Exists
<1>0. UNCHANGED tables
  BY ArriveStep DEF Arrives
<1>1. ASSUME NEW n \in Names, NEW right \in BOOLEAN, Login(c, n, right) PROVE Typing'
  BY <1>0, <1>1 DEF Login, tables, Named
<1>2. ASSUME NEW n \in Names, Register(c, n) PROVE Typing'
  BY <1>0, <1>2 DEF Register, tables
<1>3. ASSUME NEW n \in Names, NEW role \in Roles, CreateUser(c, n, role) PROVE Typing'
  BY <1>0, <1>3 DEF CreateUser, tables
<1>4. ASSUME NEW u \in Ids, NEW role \in Roles \cup {"keep"}, NEW plan \in Plans \cup {"keep"},
             UpdateUser(c, u, role, plan)
      PROVE  Typing'
  BY <1>0, <1>4 DEF UpdateUser, tables
<1>5. ASSUME NEW u \in Ids, DeleteUser(c, u) PROVE Typing'
  BY <1>0, <1>5 DEF DeleteUser, tables
<1>6. ASSUME NEW q \in Upgrades, NEW status \in {"keep", "new", "closed"}, NEW noted \in BOOLEAN,
             NEW u \in Ids \cup {NoUser}, NEW plan \in Plans \cup {"keep"},
             UpdateUpgrade(c, q, status, noted, u, plan)
      PROVE  Typing'
  BY <1>0, <1>6 DEF UpdateUpgrade, tables
<1>7. ASSUME NEW plan \in Plans, CreateServer(c, plan) PROVE Typing'
  BY <1>0, <1>7 DEF CreateServer, tables
<1> HIDE DEF Begin, Nothing, Typing, AccountsTypeOK, Payload, Control, Exists
<1> QED BY <1>1, <1>2, <1>3, <1>4, <1>5, <1>6, <1>7 DEF Arrive

\* The control state is well typed after a step of call c, and the step leaves the
\* account and the server of every other call to that call.
Ranges ==
    /\ pc' \in [Calls -> {"idle", "insert", "write", "clear", "plan", "done"}]
    /\ op' \in [Calls -> Kinds] /\ DOMAIN goal' = Calls /\ DOMAIN read' = Calls
Mints(c) == \A b \in Calls \ {c} : (Exists(b)' => Exists(b)) /\ servers'[b] = servers[b]

LEMMA FinishTypes ==
    ASSUME Typing, NEW c \in Calls, Finish(c)
    PROVE  Ranges /\ Payload(c)' /\ Control(c)'
<1>1. Ranges /\ pc'[c] = "done" /\ op'[c] = "none"
  BY DEF Finish, Typing, AccountsTypeOK, Ranges
<1> QED BY <1>1 DEF Payload, Control

LEMMA GotoTypes ==
    ASSUME Typing, NEW c \in Calls, NEW l \in {"write", "clear"}, Goto(c, l)
    PROVE  Ranges /\ pc'[c] = l /\ op'[c] = op[c] /\ goal'[c] = goal[c] /\ Payload(c)'
<1>1. Ranges /\ pc'[c] = l /\ UNCHANGED locals
  BY DEF Goto, Typing, AccountsTypeOK, Ranges, locals
<1> QED BY <1>1 DEF Typing, Payload, locals

LEMMA TypingContinues ==
    ASSUME Typing, NEW c \in Calls, Continues(c), AccountsTypeOK', Ranges, Mints(c),
           Payload(c)', Control(c)'
    PROVE  Typing'
<1>1. ASSUME NEW b \in Calls PROVE Payload(b)' /\ Control(b)'
  <2>1. CASE b = c
    BY <2>1
  <2>2. CASE b # c
    <3>1. pc'[b] = pc[b] /\ op'[b] = op[b] /\ goal'[b] = goal[b] /\ read'[b] = read[b]
      BY <2>2 DEF Continues, Others
    <3>2. Payload(b)'
      BY <3>1 DEF Typing, Payload
    <3>3. Control(b)'
      BY <2>2, <3>1 DEF Typing, Control, Mints
    <3> QED BY <3>2, <3>3
  <2> QED BY <2>1, <2>2
<1> QED BY <1>1 DEF Typing, Ranges

LEMMA TypingProceed ==
    ASSUME Typing, NEW c \in Calls, Proceed(c) \/ LoseDatabase(c) PROVE Typing'
<1> SUFFICES /\ AccountsTypeOK' /\ Ranges /\ Mints(c)
             /\ Payload(c)' /\ Control(c)'
  BY ProceedStep, TypingContinues
<1> USE DEF AccountsTypeOK, Mints
<1>0. AccountsTypeOK
  BY DEF Typing
<1>1. CASE RecordFailure(c)
  <2>1. op[c] \in Attempts /\ goal[c].name \in Names
    BY <1>1 DEF RecordFailure, Typing, Payload
  <2> QED BY <1>0, <1>1, <2>1, FinishTypes DEF RecordFailure, Ranges, Exists
<1>2. CASE InsertUser(c)
  <2>1. goal[c].name \in Names /\ goal[c].role \in Roles /\ op[c] \in {"create", "register"}
    BY <1>2 DEF InsertUser, Typing, Payload, Control, Roles
  <2>2. /\ users' \in [Ids -> User \cup {NoUser}]
        /\ \A u \in Ids \ {c} : users'[u] = users[u]
    BY <1>0, <1>2, <2>1 DEF InsertUser, User, Plans
  <2>3. CASE Finish(c)
    BY <1>0, <1>2, <2>2, <2>3, FinishTypes DEF InsertUser, Ranges, Exists
  <2>4. CASE op[c] = "register" /\ Goto(c, "write")
    <3>1. Control(c)'
      BY <1>2, <2>4, GotoTypes DEF InsertUser, Control
    <3> QED BY <1>0, <1>2, <2>2, <2>4, <3>1, GotoTypes DEF InsertUser, Ranges, Exists
  <2> QED BY <1>2, <2>3, <2>4 DEF InsertUser
<1>3. CASE CreateSession(c)
  <2>1. sessions' \in [Ids -> Ids \cup {NoUser}] /\ op[c] \in Attempts
    BY <1>0, <1>3 DEF CreateSession, Typing, Payload
  <2>2. CASE Finish(c)
    BY <1>0, <1>3, <2>1, <2>2, FinishTypes DEF CreateSession, Ranges, Exists
  <2>3. CASE Goto(c, "clear")
    <3>1. Control(c)'
      BY <1>3, <2>1, <2>3, GotoTypes DEF CreateSession, Control
    <3> QED BY <1>0, <1>3, <2>1, <2>3, <3>1, GotoTypes DEF CreateSession, Ranges, Exists
  <2> QED BY <1>3, <2>2, <2>3 DEF CreateSession
<1>4. CASE ClearFailures(c)
  <2>1. op[c] \in Attempts /\ goal[c].name \in Names
    BY <1>4 DEF ClearFailures, Typing, Payload, Control
  <2> QED BY <1>0, <1>4, <2>1, FinishTypes DEF ClearFailures, Ranges, Exists
<1>5. CASE SetRole(c)
  <2>1. /\ users' \in [Ids -> User \cup {NoUser}]
        /\ \A u \in Ids : Exists(u)' <=> Exists(u)
    BY <1>5, RoleWrite DEF KeepsUsers
  <2>2. CASE Finish(c)
    BY <1>0, <1>5, <2>1, <2>2, FinishTypes DEF SetRole, Ranges
  <2>3. CASE goal[c].plan # "keep" /\ Goto(c, "plan")
    <3>1. Ranges /\ pc'[c] = "plan" /\ UNCHANGED locals
      BY <1>0, <2>3 DEF Goto, Typing, Ranges, locals
    <3>2. Payload(c)'
      BY <3>1 DEF Typing, Payload, locals
    <3>3. Control(c)'
      BY <1>5, <2>3, <3>1 DEF SetRole, Control, Typing, Payload, locals, Plans
    <3> QED BY <1>0, <1>5, <2>1, <3>1, <3>2, <3>3 DEF SetRole, Ranges
  <2> QED BY <1>5, <2>2, <2>3 DEF SetRole
<1>6. CASE SetPlan(c)
  <2>1. /\ users' \in [Ids -> User \cup {NoUser}]
        /\ \A u \in Ids : Exists(u)' <=> Exists(u)
    BY <1>6, PlanWrite DEF KeepsUsers
  <2>2. CASE Finish(c)
    BY <1>0, <1>6, <2>1, <2>2, FinishTypes DEF SetPlan, Ranges
  <2>3. CASE op[c] # "update" /\ Goto(c, "write")
    <3>1. Control(c)'
      BY <1>6, <2>3, GotoTypes DEF SetPlan, Control, Typing
    <3> QED BY <1>0, <1>6, <2>1, <2>3, <3>1, GotoTypes DEF SetPlan, Ranges
  <2> QED BY <1>6, <2>2, <2>3 DEF SetPlan
<1>7. CASE DeleteUserRecord(c)
  BY <1>0, <1>7, FinishTypes DEF DeleteUserRecord, Ranges, Exists, Typing, Payload
<1>8. CASE WriteUpgrade(c)
  <2>1. /\ goal[c].on \in Ids \cup {NoUser} /\ read[c] \in Upgrade
        /\ goal[c].status \in {"keep", "new", "closed"}
    BY <1>8 DEF WriteUpgrade, Typing, Payload
  <2>2. PICK q \in Upgrades : goal[c].checks = <<"upgrade", q>>
    BY <1>8 DEF WriteUpgrade, Typing, Payload
  <2>3. upgrades' \in [Upgrades -> Upgrade]
    BY <1>0, <1>8, <2>1, <2>2 DEF WriteUpgrade, StatusOr, Reviewed, Upgrade
  <2> QED BY <1>0, <1>8, <2>3, FinishTypes DEF WriteUpgrade, Ranges, Exists
<1>9. CASE InsertServer(c)
  BY <1>0, <1>9, FinishTypes DEF InsertServer, Ranges, Exists, Typing, Payload, Plans
<1>10. CASE LoseDatabase(c)
  BY <1>0, <1>10, FinishTypes DEF LoseDatabase, tables, Ranges, Exists
<1> QED BY <1>1, <1>2, <1>3, <1>4, <1>5, <1>6, <1>7, <1>8, <1>9, <1>10 DEF Proceed

LEMMA TypingStep == Typing /\ [Next]_vars => Typing'
<1> SUFFICES ASSUME Typing, [Next]_vars PROVE Typing'
  OBVIOUS
<1>1. ASSUME NEW c \in Calls, Arrive(c) PROVE Typing'
  BY <1>1, TypingArrive
<1>2. ASSUME NEW c \in Calls, Proceed(c) \/ LoseDatabase(c) PROVE Typing'
  BY <1>2, TypingProceed
<1>3. ASSUME NEW t \in Ids, DeleteSession(t) PROVE Typing'
  BY <1>3 DEF DeleteSession, locals, Typing, AccountsTypeOK, Payload, Control, Exists
<1>4. ASSUME NEW k \in Attempts, NEW n \in Names, WindowPasses(k, n) PROVE Typing'
  BY <1>4 DEF WindowPasses, locals, Typing, AccountsTypeOK, Payload, Control, Exists
<1>5. CASE Restart
  <2>1. AccountsTypeOK'
    BY <1>5, RestartUsers DEF Restart, Typing, AccountsTypeOK
  <2>2. ASSUME NEW c \in Calls PROVE Payload(c)' /\ Control(c)'
    <3>1. op'[c] = "none" /\ pc'[c] \in {"idle", "done"} /\ servers' = servers
      BY <1>5 DEF Restart
    <3>2. pc'[c] = "idle" => pc[c] = "idle" /\ ~Exists(c)'
      BY <1>5, RestartUsers DEF Restart, Typing, Control
    <3> QED BY <3>1, <3>2 DEF Payload, Control, Typing
  <2> QED BY <1>5, <2>1, <2>2 DEF Restart, Typing
<1>6. CASE UNCHANGED vars
  BY <1>6 DEF vars, tables, locals, Typing, AccountsTypeOK, Payload, Control, Exists
<1> QED BY <1>1, <1>2, <1>3, <1>4, <1>5, <1>6 DEF Next, Quiet

\* Every row, every session and every counter is what its table holds, and a call is
\* in a control state of its handler.
THEOREM AccountsTypes == Spec => []AccountsTypeOK
<1>1. Typing => AccountsTypeOK
  BY DEF Typing
<1> QED BY <1>1, TypingInit, TypingStep, PTL DEF Spec

-----------------------------------------------------------------------------
(* One account per name, and sessions of accounts that exist. *)

\* A step on the table of users, as far as these two invariants are concerned.
LEMMA AccountStep ==
    ASSUME Typing, [Next]_vars
    PROVE  \/ users' = users
           \/ /\ \E c \in Calls : DeleteUserRecord(c)
           \/ /\ \A u \in Ids : Exists(u) => Exists(u)'
              /\ sessions' = sessions
              /\ \E new \in Ids : \A u \in Ids : Exists(u)' =>
                   \/ Exists(u) /\ users'[u].name = users[u].name
                   \/ u = new /\ Named(users'[u].name) = {}
<1>1. ASSUME NEW c \in Calls, Arrive(c) PROVE users' = users
  BY <1>1, ArriveStep DEF Arrives, tables
<1>2. ASSUME NEW c \in Calls, InsertUser(c), users' # users
      PROVE  /\ \A u \in Ids : Exists(u) => Exists(u)'
             /\ sessions' = sessions
             /\ \A u \in Ids : Exists(u)' =>
                  \/ Exists(u) /\ users'[u].name = users[u].name
                  \/ u = c /\ Named(users'[u].name) = {}
  <2> DEFINE row == [name |-> goal[c].name, role |-> goal[c].role, plan |-> "trial"]
  <2>1. /\ users' = [users EXCEPT ![c] = row] /\ sessions' = sessions
        /\ Named(goal[c].name) = {} /\ pc[c] = "insert"
    BY <1>2 DEF InsertUser
  <2>2. row.name = goal[c].name /\ row \in User
    BY <1>2, <2>1 DEF Typing, Payload, Control, User, Roles, Plans
  <2> HIDE DEF row
  <2> QED BY <2>1, <2>2 DEF Exists, Typing, AccountsTypeOK
<1>3. ASSUME NEW c \in Calls, SetRole(c) \/ SetPlan(c)
      PROVE  /\ \A u \in Ids : Exists(u)' <=> Exists(u)
             /\ \A u \in Ids : Exists(u) => users'[u].name = users[u].name
             /\ sessions' = sessions
  BY <1>3, RoleWrite, PlanWrite DEF KeepsUsers, SetRole, SetPlan
<1>4. ASSUME Restart
      PROVE  /\ \A u \in Ids : Exists(u) => Exists(u)'
             /\ sessions' = sessions
             /\ \A u \in Ids : Exists(u)' =>
                  \/ Exists(u) /\ users'[u].name = users[u].name
                  \/ u = Bootstrap /\ Named(users'[u].name) = {}
  BY <1>4, RestartUsers DEF Restart
<1>5. ASSUME NEW c \in Calls, Proceed(c), ~InsertUser(c), ~SetRole(c), ~SetPlan(c),
             ~DeleteUserRecord(c)
      PROVE  users' = users
  BY <1>5 DEF Proceed, RecordFailure, CreateSession, ClearFailures, WriteUpgrade, InsertServer
<1>6. ASSUME ~(\E c \in Calls : Arrive(c) \/ Proceed(c)), ~Restart PROVE users' = users
  BY <1>6 DEF Next, LoseDatabase, DeleteSession, WindowPasses, Quiet, vars, tables
<1> QED BY <1>1, <1>2, <1>3, <1>4, <1>5, <1>6

LEMMA NamesStep == Typing /\ OneAccountPerName /\ [Next]_vars => OneAccountPerName'
<1> SUFFICES ASSUME Typing, OneAccountPerName, [Next]_vars PROVE OneAccountPerName'
  OBVIOUS
<1>1. CASE users' = users
  BY <1>1 DEF OneAccountPerName, Exists
<1>2. ASSUME NEW c \in Calls, DeleteUserRecord(c) PROVE OneAccountPerName'
  BY <1>2 DEF DeleteUserRecord, OneAccountPerName, Exists, Typing, AccountsTypeOK, Payload
<1>3. ASSUME NEW new \in Ids,
             \A u \in Ids : Exists(u)' =>
                \/ Exists(u) /\ users'[u].name = users[u].name
                \/ u = new /\ Named(users'[u].name) = {}
      PROVE  OneAccountPerName'
  BY <1>3 DEF OneAccountPerName, Exists, Named
<1> QED BY <1>1, <1>2, <1>3, AccountStep

LEMMA SessionsStep == Typing /\ SessionsOfUsers /\ [Next]_vars => SessionsOfUsers'
<1> SUFFICES ASSUME Typing, SessionsOfUsers, [Next]_vars PROVE SessionsOfUsers'
  OBVIOUS
<1>1. ASSUME NEW c \in Calls, DeleteUserRecord(c) PROVE SessionsOfUsers'
  BY <1>1 DEF DeleteUserRecord, SessionsOfUsers, Exists, Typing, AccountsTypeOK, Payload
<1>2. ASSUME NEW c \in Calls, CreateSession(c) PROVE SessionsOfUsers'
  BY <1>2 DEF CreateSession, SessionsOfUsers, Exists, Typing, AccountsTypeOK
<1>3. ASSUME NEW t \in Ids, DeleteSession(t) PROVE SessionsOfUsers'
  BY <1>3 DEF DeleteSession, SessionsOfUsers, Exists, Typing, AccountsTypeOK
<1>4. CASE /\ \A u \in Ids : Exists(u) => Exists(u)'
           /\ sessions' = sessions
  BY <1>4 DEF SessionsOfUsers, Typing, AccountsTypeOK
<1>5. ASSUME ~(\E c \in Calls : DeleteUserRecord(c) \/ CreateSession(c)),
             ~(\E t \in Ids : DeleteSession(t))
      PROVE  sessions' = sessions
  <2>1. ASSUME NEW c \in Calls, Arrive(c) PROVE sessions' = sessions
    BY <2>1, ArriveStep DEF Arrives, tables
  <2> QED BY <1>5, <2>1 DEF Next, Proceed, RecordFailure, InsertUser, ClearFailures, SetRole,
                SetPlan, WriteUpgrade, InsertServer, LoseDatabase, WindowPasses, Restart, Quiet,
                vars, tables
<1> QED BY <1>1, <1>2, <1>3, <1>4, <1>5, AccountStep DEF Exists

-----------------------------------------------------------------------------
(* The checks that calls rely on. *)

\* The tags of the checks differ by their first component.
LEMMA TagsDiffer ==
    /\ <<"admins">> # <<>> /\ <<"servers">> # <<>> /\ <<"admins">> # <<"servers">>
    /\ \A t, n : /\ <<t, n>> # <<>> /\ <<t, n>> # <<"admins">> /\ <<t, n>> # <<"servers">>
    /\ \A t, n, s, m : <<t, n>> = <<s, m>> => t = s /\ n = m
<1>1. /\ Len(<<"admins">>) = 1 /\ Len(<<"servers">>) = 1 /\ Len(<<>>) = 0
      /\ \A t, n : Len(<<t, n>>) = 2
  OBVIOUS
<1>2. <<"admins">> # <<"servers">>
  OBVIOUS
<1>3. \A t, n, s, m : <<t, n>> = <<s, m>> => t = s /\ n = m
  OBVIOUS
<1> QED BY <1>1, <1>2, <1>3

\* What a call that arrives has checked before it relies on it.
Checked(c) ==
    \/ goal'[c].checks = <<>>
    \/ \E k \in Attempts, n \in Names :
          goal'[c].checks = <<k, n>> /\ failures[<<k, n>>] < MaxAttempts
    \/ /\ goal'[c].checks = <<"admins">>
       /\ goal'[c].on \in Ids /\ Exists(goal'[c].on) /\ MayLose(goal'[c].on)
    \/ \E q \in Upgrades : goal'[c].checks = <<"upgrade", q>> /\ read'[c] = upgrades[q]
    \/ goal'[c].checks = <<"servers">> /\ ServerCount < Limit(goal'[c].plan)

LEMMA ArriveChecks == ASSUME Typing, NEW c \in Calls, Arrive(c) PROVE Checked(c)
<1>0. ASSUME NEW kind, NEW g, NEW row, NEW l, Begin(c, kind, g, row, l)
      PROVE  goal'[c] = g /\ read'[c] = row
  BY <1>0 DEF Begin, Typing
<1>1. ASSUME NEW n \in Names, NEW right \in BOOLEAN, Login(c, n, right) PROVE Checked(c)
  BY <1>0, <1>1 DEF Login, Nothing, enforce_auth_rate_limit, Checked
<1>2. ASSUME NEW n \in Names, Register(c, n) PROVE Checked(c)
  BY <1>0, <1>2 DEF Register, Nothing, enforce_auth_rate_limit, Checked
<1>3. ASSUME NEW n \in Names, NEW role \in Roles, CreateUser(c, n, role) PROVE Checked(c)
  BY <1>0, <1>3 DEF CreateUser, Nothing, Checked
<1>4. ASSUME NEW u \in Ids, NEW role \in Roles \cup {"keep"}, NEW plan \in Plans \cup {"keep"},
             UpdateUser(c, u, role, plan)
      PROVE  Checked(c)
  BY <1>0, <1>4 DEF UpdateUser, Nothing, Checked
<1>5. ASSUME NEW u \in Ids, DeleteUser(c, u) PROVE Checked(c)
  BY <1>0, <1>5 DEF DeleteUser, Nothing, Checked
<1>6. ASSUME NEW q \in Upgrades, NEW status \in {"keep", "new", "closed"}, NEW noted \in BOOLEAN,
             NEW u \in Ids \cup {NoUser}, NEW plan \in Plans \cup {"keep"},
             UpdateUpgrade(c, q, status, noted, u, plan)
      PROVE  Checked(c)
  BY <1>0, <1>6 DEF UpdateUpgrade, Nothing, Checked
<1>7. ASSUME NEW plan \in Plans, CreateServer(c, plan) PROVE Checked(c)
  BY <1>0, <1>7 DEF CreateServer, Nothing, Checked
<1> QED BY <1>1, <1>2, <1>3, <1>4, <1>5, <1>6, <1>7 DEF Arrive

\* Nobody relies on more than before, unless a call arrives.
LEMMA ReliesStep ==
    ASSUME Typing, [Next]_vars, NEW b \in Calls, NEW what, Relies(b, what)',
           \A c \in Calls : ~Arrive(c)
    PROVE  /\ Relies(b, what) /\ raced' = raced
           /\ op'[b] = op[b] /\ goal'[b] = goal[b] /\ read'[b] = read[b]
<1>1. ASSUME NEW c \in Calls, Proceed(c) \/ LoseDatabase(c)
      PROVE  /\ Relies(b, what) /\ raced' = raced
             /\ op'[b] = op[b] /\ goal'[b] = goal[b] /\ read'[b] = read[b]
  <2>1. Continues(c)
    BY <1>1, ProceedStep
  <2> QED BY <2>1 DEF Continues, Others, Relies, InFlight
<1>2. ~Restart
  BY DEF Restart, Relies, InFlight
<1> QED BY <1>1, <1>2 DEF Next, DeleteSession, WindowPasses, Quiet, vars, locals, Relies, InFlight

LEMMA RacedStep ==
    ASSUME Typing, [Next]_vars
    PROVE  \/ \E c \in Calls : Arrive(c) /\ raced \subseteq raced'
           \/ Restart /\ raced' = raced \ {<<"admins">>}
           \/ (\A c \in Calls : ~Arrive(c)) /\ ~Restart /\ raced' = raced
<1>1. ASSUME NEW c \in Calls, Arrive(c) PROVE raced \subseteq raced'
  BY <1>1, ArriveStep DEF Arrives
<1>2. ASSUME NEW c \in Calls, Proceed(c) \/ LoseDatabase(c) PROVE raced' = raced
  BY <1>2, ProceedStep DEF Continues
<1>3. ASSUME Restart PROVE raced' = raced \ {<<"admins">>}
  BY <1>3 DEF Restart
<1> QED BY <1>1, <1>2, <1>3 DEF Next, DeleteSession, WindowPasses, Quiet, vars

LEMMA OneAtATimeStep == Typing /\ OneAtATime /\ [Next]_vars => OneAtATime'
<1> SUFFICES ASSUME Typing, OneAtATime, [Next]_vars, NEW b \in Calls, NEW d \in Calls, NEW what,
                    Relies(b, what)', Relies(d, what)', what # <<>>, what \notin raced', b # d
             PROVE  FALSE
  BY DEF OneAtATime
<1>1. ASSUME NEW c \in Calls, Arrive(c) PROVE FALSE
  <2>1. Arrives(c)
    BY <1>1, ArriveStep
  <2>2. \A x \in Calls \ {c} : Relies(x, what)' => Relies(x, what)
    BY <2>1 DEF Arrives, Others, Relies, InFlight
  <2>3. what \notin raced
    BY <2>1 DEF Arrives
  <2>4. b # c /\ d # c
    BY <2>1, <2>2 DEF Arrives, Relies
  <2> QED BY <2>2, <2>3, <2>4 DEF OneAtATime
<1>2. CASE \A c \in Calls : ~Arrive(c)
  BY <1>2, ReliesStep DEF OneAtATime
<1> QED BY <1>1, <1>2

-----------------------------------------------------------------------------
(* The last admin. *)

LEMMA AdminIdsFinite == IsFiniteSet(AdminIds)
<1>1. AdminIds \subseteq Ids
  BY DEF AdminIds
<1> QED BY <1>1, FS_Subset

\* The check of the handlers: with more than one admin, there is one besides u.
LEMMA MayLoseSpares ==
    ASSUME NEW u \in Ids, MayLose(u), Exists(u), AdminIds # {}
    PROVE  \E v \in AdminIds : v # u
<1>1. CASE users[u].role # "admin"
  BY <1>1 DEF AdminIds
<1>2. CASE users[u].role = "admin"
  <2> SUFFICES ASSUME AdminIds = {u} PROVE FALSE
    OBVIOUS
  <2>1. Cardinality({u}) = 1
    BY FS_Singleton
  <2> QED BY <1>2, <2>1 DEF MayLose
<1> QED BY <1>1, <1>2

\* Where the roles stay, so do the admins.
LEMMA SameAdmins ==
    ASSUME Typing, [Next]_vars, \A c \in Calls : ~InsertUser(c) /\ ~SetRole(c)
                                              /\ ~DeleteUserRecord(c), ~Restart
    PROVE  AdminIds' = AdminIds
<1>1. ASSUME NEW c \in Calls, SetPlan(c) PROVE AdminIds' = AdminIds
  BY <1>1, PlanWrite DEF KeepsUsers, Role, AdminIds
<1>2. ASSUME NEW c \in Calls, Arrive(c) PROVE users' = users
  BY <1>2, ArriveStep DEF Arrives, tables
<1>3. ASSUME \A c \in Calls : ~SetPlan(c) /\ ~Arrive(c) PROVE users' = users
  BY <1>3 DEF Next, Proceed, RecordFailure, CreateSession, ClearFailures, WriteUpgrade,
          InsertServer, LoseDatabase, DeleteSession, WindowPasses, Quiet, vars, tables
<1>4. users' = users => AdminIds' = AdminIds
  BY DEF AdminIds, Exists
<1> QED BY <1>1, <1>2, <1>3, <1>4

LEMMA AdminStep == Typing /\ OneAtATime /\ AdminInv /\ [Next]_vars => AdminInv'
<1> SUFFICES ASSUME Typing, OneAtATime, AdminInv, [Next]_vars, <<"admins">> \notin raced'
             PROVE  /\ (AdminIds # {})'
                    /\ \A c \in Calls : Relies(c, <<"admins">>)' => Spared(c)'
  BY DEF AdminInv
<1>1. ASSUME NEW c \in Calls, Arrive(c)
      PROVE  /\ (AdminIds # {})'
             /\ \A b \in Calls : Relies(b, <<"admins">>)' => Spared(b)'
  <2>1. Arrives(c) /\ <<"admins">> \notin raced
    BY <1>1, ArriveStep DEF Arrives
  <2>2. AdminIds' = AdminIds /\ AdminIds # {}
    BY <2>1 DEF Arrives, tables, AdminIds, Exists, AdminInv
  <2>3. ASSUME NEW b \in Calls \ {c}, Relies(b, <<"admins">>)' PROVE Spared(b)'
    BY <2>1, <2>2, <2>3 DEF Arrives, Others, Relies, InFlight, Spared, AdminInv
  <2>4. ASSUME Relies(c, <<"admins">>)' PROVE Spared(c)'
    <3>1. goal'[c].on \in Ids /\ Exists(goal'[c].on) /\ MayLose(goal'[c].on)
      BY <1>1, <2>4, ArriveChecks, TagsDiffer DEF Checked, Relies
    <3> QED BY <2>2, <3>1, MayLoseSpares DEF Spared
  <2> QED BY <2>2, <2>3, <2>4
<1>2. CASE Restart
  BY <1>2, RestartUsers DEF Restart, Relies, InFlight
<1>3. ASSUME \A c \in Calls : ~Arrive(c), ~Restart
      PROVE  <<"admins">> \notin raced
  BY <1>3, RacedStep
<1>4. ASSUME \A c \in Calls : ~Arrive(c), ~Restart, AdminIds \subseteq AdminIds'
      PROVE  /\ (AdminIds # {})'
             /\ \A b \in Calls : Relies(b, <<"admins">>)' => Spared(b)'
  BY <1>3, <1>4, ReliesStep DEF AdminInv, Spared
<1>5. ASSUME NEW c \in Calls, InsertUser(c) PROVE AdminIds \subseteq AdminIds'
  BY <1>5 DEF InsertUser, AdminIds, Exists, Typing, AccountsTypeOK, Control
\* The one call that may take away an admin finds another one, and nobody else
\* relied on there being one.
<1>6. ASSUME NEW c \in Calls, SetRole(c) \/ DeleteUserRecord(c), ~(AdminIds \subseteq AdminIds')
      PROVE  /\ (AdminIds # {})'
             /\ \A b \in Calls : Relies(b, <<"admins">>)' => Spared(b)'
  <2>1. InFlight(c) /\ goal[c].checks = <<"admins">>
        /\ \A v \in AdminIds : v # goal[c].on => v \in AdminIds'
    <3>1. CASE SetRole(c)
      <4>1. op[c] = "update" /\ goal[c].role \in Roles /\ goal[c].on \in Ids /\ InFlight(c)
        BY <3>1 DEF SetRole, Typing, Payload, Control, InFlight
      <4>2. KeepsUsers([Role EXCEPT ![goal[c].on] = goal[c].role])
        BY <3>1, RoleWrite
      <4>3. goal[c].role = "member"
        BY <1>6, <4>1, <4>2 DEF Roles, KeepsUsers, Role, AdminIds
      <4> QED BY <4>1, <4>2, <4>3 DEF KeepsUsers, Role, AdminIds, Typing, Payload
    <3>2. CASE DeleteUserRecord(c)
      BY <3>2 DEF DeleteUserRecord, Typing, Payload, AccountsTypeOK, AdminIds, Exists, InFlight
    <3> QED BY <1>6, <3>1, <3>2
  <2>2. Continues(c) /\ <<"admins">> \notin raced
    BY <1>6, ProceedStep DEF Proceed, Continues
  <2>3. PICK v \in AdminIds : v # goal[c].on
    BY <2>1, <2>2 DEF AdminInv, Relies, Spared
  <2>4. v \in AdminIds'
    BY <2>1, <2>3
  <2>5. ASSUME NEW b \in Calls, Relies(b, <<"admins">>)' PROVE Spared(b)'
    <3>1. b = c
      BY <2>1, <2>2, <2>5 DEF Continues, Others, Relies, InFlight, OneAtATime
    <3>2. goal'[c] = goal[c]
      BY <2>2, <2>5, <3>1 DEF Continues, Relies
    <3> QED BY <2>3, <2>4, <3>1, <3>2 DEF Spared
  <2> QED BY <2>4, <2>5
<1> QED BY <1>1, <1>2, <1>4, <1>5, <1>6, SameAdmins DEF Arrive, Proceed

-----------------------------------------------------------------------------
(* The limits: attempts and servers. *)

LEMMA FailuresStep == Typing /\ OneAtATime /\ FailuresInv /\ [Next]_vars => FailuresInv'
<1> SUFFICES ASSUME Typing, OneAtATime, FailuresInv, [Next]_vars,
                    NEW k \in Attempts, NEW n \in Names, <<k, n>> \notin raced'
             PROVE  /\ failures'[<<k, n>>] <= MaxAttempts
                    /\ \A b \in Calls : Relies(b, <<k, n>>)' => failures'[<<k, n>>] < MaxAttempts
  BY DEF FailuresInv
<1>0. <<k, n>> \in Attempts \X Names /\ failures[<<k, n>>] \in Nat
  BY DEF Typing, AccountsTypeOK
<1>1. <<k, n>> \notin raced
  BY RacedStep, TagsDiffer
<1>2. /\ failures[<<k, n>>] <= MaxAttempts
      /\ \A b \in Calls : Relies(b, <<k, n>>) => failures[<<k, n>>] < MaxAttempts
  BY <1>1 DEF FailuresInv
<1>3. ASSUME NEW c \in Calls, Arrive(c)
      PROVE  /\ failures' = failures
             /\ \A b \in Calls : Relies(b, <<k, n>>)' => failures[<<k, n>>] < MaxAttempts
  <2>1. Arrives(c)
    BY <1>3, ArriveStep
  <2>2. ASSUME Relies(c, <<k, n>>)' PROVE failures[<<k, n>>] < MaxAttempts
    <3>1. goal'[c].checks = <<k, n>>
      BY <2>2 DEF Relies
    <3>2. \A q : <<"upgrade", q>> # <<k, n>>
      BY TagsDiffer
    <3>3. \E a \in Attempts, m \in Names : <<k, n>> = <<a, m>> /\ failures[<<a, m>>] < MaxAttempts
      BY <1>3, <3>1, <3>2, ArriveChecks, TagsDiffer DEF Checked
    <3> QED BY <3>3, TagsDiffer
  <2>3. \A b \in Calls \ {c} : Relies(b, <<k, n>>)' => Relies(b, <<k, n>>)
    BY <2>1 DEF Arrives, Others, Relies, InFlight
  <2> QED BY <1>2, <2>1, <2>2, <2>3 DEF Arrives, tables
<1>4. CASE (\A c \in Calls : ~Arrive(c)) /\ failures'[<<k, n>>] \in {failures[<<k, n>>], 0}
  BY <1>0, <1>2, <1>4, ReliesStep
<1>5. ASSUME NEW c \in Calls, RecordFailure(c), failures'[<<k, n>>] # failures[<<k, n>>]
      PROVE  /\ failures'[<<k, n>>] <= MaxAttempts
             /\ \A b \in Calls : ~Relies(b, <<k, n>>)'
  <2>1. op[c] \in Attempts /\ goal[c].checks = <<op[c], goal[c].name>>
    BY <1>5 DEF RecordFailure, Typing, Payload
  <2>2. <<k, n>> = <<op[c], goal[c].name>> /\ failures'[<<k, n>>] = failures[<<k, n>>] + 1
    BY <1>0, <1>5 DEF RecordFailure, Typing, AccountsTypeOK
  <2>3. Relies(c, <<k, n>>)
    BY <1>5, <2>1, <2>2 DEF RecordFailure, Relies, InFlight
  <2>4. failures'[<<k, n>>] <= MaxAttempts
    BY <1>0, <1>2, <2>2, <2>3
  <2>5. ASSUME NEW b \in Calls, Relies(b, <<k, n>>)' PROVE FALSE
    <3>1. Continues(c) /\ pc'[c] = "done"
      BY <1>5, ProceedStep DEF Proceed, RecordFailure, Finish, Typing, AccountsTypeOK
    <3>2. b # c
      BY <2>5, <3>1 DEF Relies, InFlight
    <3>3. Relies(b, <<k, n>>)
      BY <2>5, <3>1, <3>2 DEF Continues, Others, Relies, InFlight
    <3> QED BY <1>1, <2>3, <3>2, <3>3, TagsDiffer DEF OneAtATime
  <2> QED BY <2>4, <2>5
<1>6. ASSUME NEW c \in Calls, ClearFailures(c)
      PROVE  failures'[<<k, n>>] \in {failures[<<k, n>>], 0}
  BY <1>0, <1>6 DEF ClearFailures, Typing, AccountsTypeOK
<1>7. ASSUME NEW a \in Attempts, NEW m \in Names, WindowPasses(a, m)
      PROVE  failures'[<<k, n>>] \in {failures[<<k, n>>], 0}
  BY <1>0, <1>7 DEF WindowPasses, Typing, AccountsTypeOK
<1>8. ASSUME \A c \in Calls : ~Arrive(c) /\ ~RecordFailure(c) /\ ~ClearFailures(c),
             \A a \in Attempts, m \in Names : ~WindowPasses(a, m)
      PROVE  failures' = failures
  BY <1>8 DEF Next, Proceed, InsertUser, CreateSession, SetRole, SetPlan, DeleteUserRecord,
          WriteUpgrade, InsertServer, LoseDatabase, DeleteSession, Restart, Quiet, vars, tables
<1> QED BY <1>2, <1>3, <1>4, <1>5, <1>6, <1>7, <1>8

Saved == {c \in Calls : servers[c] # "none"}

LEMMA SavedFinite == IsFiniteSet(Saved) /\ ServerCount = Cardinality(Saved) /\ ServerCount \in Nat
<1>1. Saved \subseteq Ids
  BY DEF Saved
<1>2. IsFiniteSet(Saved)
  BY <1>1, FS_Subset
<1> QED BY <1>2, FS_CardinalityType DEF ServerCount, Saved

LEMMA OneMoreServer ==
    ASSUME Typing, NEW c \in Calls, InsertServer(c)
    PROVE  /\ ServerCount' = ServerCount + 1
           /\ servers'[c] = goal[c].plan /\ goal[c].plan \in Plans
           /\ \A b \in Calls : servers[b] # "none" => servers'[b] = servers[b]
           /\ Relies(c, <<"servers">>) /\ pc'[c] = "done"
<1>1. /\ servers[c] = "none" /\ goal[c].plan \in Plans /\ servers' = [servers EXCEPT ![c] = goal[c].plan]
      /\ Relies(c, <<"servers">>) /\ pc'[c] = "done"
  BY DEF InsertServer, Finish, Typing, AccountsTypeOK, Payload, Control, Relies, InFlight
<1>2. Saved' = Saved \cup {c} /\ c \notin Saved
  BY <1>1 DEF Saved, Typing, AccountsTypeOK, Plans
<1>3. ServerCount' = Cardinality(Saved')
  BY DEF ServerCount, Saved
<1> QED BY <1>1, <1>2, <1>3, SavedFinite, FS_AddElement DEF Typing, AccountsTypeOK

LEMMA ServersStep == Typing /\ OneAtATime /\ ServersInv /\ [Next]_vars => ServersInv'
<1> SUFFICES ASSUME Typing, OneAtATime, ServersInv, [Next]_vars,
                    <<"servers">> \notin raced', NoTeam'
             PROVE  /\ ServerCount' <= MaxServers
                    /\ \A b \in Calls : Relies(b, <<"servers">>)' /\ goal'[b].plan = "trial" =>
                          ServerCount' < MaxServers
  BY DEF ServersInv
<1>0. <<"servers">> \notin raced
  BY RacedStep, TagsDiffer
<1>1. ASSUME NEW c \in Calls, InsertServer(c)
      PROVE  /\ ServerCount' <= MaxServers
             /\ \A b \in Calls : ~Relies(b, <<"servers">>)'
  <2>1. NoTeam /\ goal[c].plan = "trial"
    BY <1>1, OneMoreServer DEF NoTeam, Plans
  <2>2. ServerCount' <= MaxServers
    BY <1>0, <1>1, <2>1, OneMoreServer, SavedFinite DEF ServersInv
  <2>3. ASSUME NEW b \in Calls, Relies(b, <<"servers">>)' PROVE FALSE
    <3>1. Continues(c) /\ Relies(c, <<"servers">>) /\ pc'[c] = "done"
      BY <1>1, ProceedStep, OneMoreServer DEF Proceed
    <3>2. b # c
      BY <2>3, <3>1 DEF Relies, InFlight
    <3>3. Relies(b, <<"servers">>)
      BY <2>3, <3>1, <3>2 DEF Continues, Others, Relies, InFlight
    <3> QED BY <1>0, <3>1, <3>2, <3>3, TagsDiffer DEF OneAtATime
  <2> QED BY <2>2, <2>3
<1>2. ASSUME NEW c \in Calls, Arrive(c)
      PROVE  /\ servers' = servers
             /\ \A b \in Calls : Relies(b, <<"servers">>)' /\ goal'[b].plan = "trial" =>
                   \/ ServerCount < MaxServers
                   \/ Relies(b, <<"servers">>) /\ goal[b].plan = "trial"
  <2>1. Arrives(c)
    BY <1>2, ArriveStep
  <2>2. Relies(c, <<"servers">>)' /\ goal'[c].plan = "trial" => ServerCount < MaxServers
    BY <1>2, ArriveChecks, TagsDiffer DEF Checked, Relies, Limit
  <2>3. \A b \in Calls \ {c} : Relies(b, <<"servers">>)' =>
           Relies(b, <<"servers">>) /\ goal'[b] = goal[b]
    BY <2>1 DEF Arrives, Others, Relies, InFlight
  <2> QED BY <2>1, <2>2, <2>3 DEF Arrives, tables
<1>3. ASSUME \A c \in Calls : ~InsertServer(c) /\ ~Arrive(c) PROVE servers' = servers
  BY <1>3 DEF Next, Proceed, RecordFailure, InsertUser, CreateSession, ClearFailures, SetRole,
          SetPlan, DeleteUserRecord, WriteUpgrade, LoseDatabase, DeleteSession, WindowPasses,
          Restart, Quiet, vars, tables
<1>4. ASSUME servers' = servers
      PROVE  /\ ServerCount' = ServerCount /\ ServerCount <= MaxServers
             /\ \A b \in Calls : Relies(b, <<"servers">>) /\ goal[b].plan = "trial" =>
                   ServerCount < MaxServers
  BY <1>0, <1>4 DEF ServersInv, NoTeam, ServerCount
<1>5. ASSUME \A c \in Calls : ~Arrive(c), NEW b \in Calls, Relies(b, <<"servers">>)'
      PROVE  Relies(b, <<"servers">>) /\ goal'[b] = goal[b]
  BY <1>5, ReliesStep
<1> QED BY <1>1, <1>2, <1>3, <1>4, <1>5

-----------------------------------------------------------------------------
(* Upgrade requests. *)

LEMMA UpgradesWrite ==
    ASSUME Typing, NEW c \in Calls, WriteUpgrade(c)
    PROVE  \E q \in Upgrades :
              /\ Relies(c, <<"upgrade", q>>) /\ pc'[c] = "done"
              /\ \A p \in Upgrades \ {q} : upgrades'[p] = upgrades[p]
              /\ upgrades'[q].reviewed = Reviewed(c)
              /\ upgrades'[q].note = IF goal[c].noted THEN c ELSE read[c].note
<1>1. PICK q \in Upgrades : goal[c].checks = <<"upgrade", q>>
  BY DEF WriteUpgrade, Typing, Payload
<1>2. Relies(c, <<"upgrade", q>>) /\ pc'[c] = "done"
  BY <1>1 DEF WriteUpgrade, Finish, Relies, InFlight, Typing, AccountsTypeOK
<1> DEFINE row == [status |-> StatusOr(goal[c].status, upgrades[q].status),
                   note |-> IF goal[c].noted THEN c ELSE read[c].note,
                   target |-> goal[c].on, reviewed |-> Reviewed(c)]
<1>3. upgrades' = [upgrades EXCEPT ![q] = row]
  BY <1>1 DEF WriteUpgrade
<1>4. row.reviewed = Reviewed(c) /\ row.note = IF goal[c].noted THEN c ELSE read[c].note
  OBVIOUS
<1> HIDE DEF row
<1>5. upgrades'[q] = row /\ \A p \in Upgrades \ {q} : upgrades'[p] = upgrades[p]
  BY <1>3 DEF Typing, AccountsTypeOK
<1> QED BY <1>2, <1>4, <1>5

LEMMA UpgradesStay ==
    ASSUME Typing, [Next]_vars, \A c \in Calls : ~WriteUpgrade(c) PROVE upgrades' = upgrades
<1>1. ASSUME NEW c \in Calls, Arrive(c) PROVE upgrades' = upgrades
  BY <1>1, ArriveStep DEF Arrives, tables
<1> QED BY <1>1 DEF Next, Proceed, RecordFailure, InsertUser, CreateSession, ClearFailures, SetRole,
          SetPlan, DeleteUserRecord, InsertServer, LoseDatabase, DeleteSession, WindowPasses,
          Restart, Quiet, vars, tables

LEMMA UpgradesStep == Typing /\ OneAtATime /\ UpgradesInv /\ [Next]_vars => UpgradesInv'
<1> SUFFICES ASSUME Typing, OneAtATime, UpgradesInv, [Next]_vars, NEW b \in Calls,
                    NEW q \in Upgrades, Relies(b, <<"upgrade", q>>)', <<"upgrade", q>> \notin raced'
             PROVE  read'[b].reviewed = upgrades'[q].reviewed /\ read'[b].note = upgrades'[q].note
  BY DEF UpgradesInv
<1>0. <<"upgrade", q>> \notin raced
  BY RacedStep, TagsDiffer
<1>1. ASSUME NEW c \in Calls, Arrive(c)
      PROVE  /\ upgrades' = upgrades
             /\ \/ read'[b] = upgrades[q]
                \/ Relies(b, <<"upgrade", q>>) /\ read'[b] = read[b]
  <2>1. Arrives(c)
    BY <1>1, ArriveStep
  <2>2. ASSUME b = c PROVE read'[b] = upgrades[q]
    <3>1. goal'[c].checks = <<"upgrade", q>>
      BY <2>2 DEF Relies
    <3>2. \A k \in Attempts : \A n : <<k, n>> # <<"upgrade", q>>
      BY TagsDiffer
    <3>3. \E p \in Upgrades : <<"upgrade", p>> = <<"upgrade", q>> /\ read'[c] = upgrades[p]
      BY <1>1, <3>1, <3>2, ArriveChecks, TagsDiffer DEF Checked
    <3> QED BY <2>2, <3>3, TagsDiffer
  <2>3. b # c => Relies(b, <<"upgrade", q>>) /\ read'[b] = read[b]
    BY <2>1 DEF Arrives, Others, Relies, InFlight
  <2> QED BY <2>1, <2>2, <2>3 DEF Arrives, tables
<1>2. ASSUME NEW c \in Calls, WriteUpgrade(c)
      PROVE  /\ upgrades'[q] = upgrades[q]
             /\ Relies(b, <<"upgrade", q>>) /\ read'[b] = read[b]
  <2>1. Continues(c)
    BY <1>2, ProceedStep DEF Proceed
  <2>2. PICK p \in Upgrades :
           /\ Relies(c, <<"upgrade", p>>) /\ pc'[c] = "done"
           /\ \A r \in Upgrades \ {p} : upgrades'[r] = upgrades[r]
    BY <1>2, UpgradesWrite
  <2>3. b # c
    BY <2>2 DEF Relies, InFlight
  <2>4. Relies(b, <<"upgrade", q>>) /\ read'[b] = read[b]
    BY <2>1, <2>3 DEF Continues, Others, Relies, InFlight
  <2>5. p # q
    BY <1>0, <2>2, <2>3, <2>4, TagsDiffer DEF OneAtATime
  <2> QED BY <2>2, <2>4, <2>5
<1>3. ASSUME \A c \in Calls : ~Arrive(c) /\ ~WriteUpgrade(c)
      PROVE  /\ upgrades' = upgrades
             /\ Relies(b, <<"upgrade", q>>) /\ read'[b] = read[b]
  BY <1>3, ReliesStep, UpgradesStay
<1> QED BY <1>0, <1>1, <1>2, <1>3 DEF UpgradesInv

-----------------------------------------------------------------------------
(* The theorems. *)

LEMMA InitInv == Init => IInv
<1> SUFFICES ASSUME Init PROVE IInv
  OBVIOUS
<1>1. Typing
  BY TypingInit
<1>2. \A c \in Calls : ~InFlight(c)
  BY DEF Init, InFlight
<1>3. OneAtATime /\ UpgradesInv
  BY <1>2 DEF OneAtATime, UpgradesInv, Relies
<1>4. AdminInv
  <2>1. Bootstrap \in AdminIds
    BY DEF Init, AdminIds, Exists, User, Roles, Plans
  <2> QED BY <1>2, <2>1 DEF AdminInv, Relies
<1>5. OneAccountPerName /\ SessionsOfUsers
  BY DEF Init, OneAccountPerName, SessionsOfUsers, Exists
<1>6. FailuresInv
  <2>1. \A k \in Attempts, n \in Names : failures[<<k, n>>] = 0
    BY DEF Init
  <2> QED BY <1>2, <2>1 DEF FailuresInv, Relies
<1>7. ServersInv
  <2>1. Saved = {}
    BY DEF Init, Saved
  <2>2. ServerCount = 0
    BY <2>1, SavedFinite, FS_EmptySet
  <2> QED BY <1>2, <2>2 DEF ServersInv, Relies
<1> QED BY <1>1, <1>3, <1>4, <1>5, <1>6, <1>7 DEF IInv

LEMMA StepInv == IInv /\ [Next]_vars => IInv'
BY TypingStep, OneAtATimeStep, AdminStep, NamesStep, SessionsStep, FailuresStep, ServersStep,
   UpgradesStep DEF IInv

LEMMA Inductive == Spec => []IInv
BY InitInv, StepInv, PTL DEF Spec

\* As long as no two calls that demote or delete an admin overlap, somebody can
\* administer the system, and a restart makes an admin again: the check of update_user
\* and delete_user, and ensure_default_user.
THEOREM AdminsRemain == Spec => []AdminRemains
<1>1. IInv => AdminRemains
  BY DEF IInv, AdminInv, AdminRemains
<1> QED BY <1>1, Inductive, PTL

\* However registrations, admins and restarts interleave, a name has one account: the
\* UNIQUE constraint under insert_user, and ensure_default_user.
THEOREM NamesAreUnique == Spec => []OneAccountPerName
<1>1. IInv => OneAccountPerName
  BY DEF IInv
<1> QED BY <1>1, Inductive, PTL

\* No session outlives its account: create_session fails for a user who is gone, and
\* delete_user_record takes the sessions along.
THEOREM SessionsHaveUsers == Spec => []SessionsOfUsers
<1>1. IInv => SessionsOfUsers
  BY DEF IInv
<1> QED BY <1>1, Inductive, PTL

\* As long as attempts for a name do not overlap, no more than MaxAttempts fail within
\* a window: enforce_auth_rate_limit and record_auth_rate_limit_failure.
THEOREM FailuresAreBounded == Spec => []FailuresBounded
<1>1. IInv => FailuresBounded
  BY DEF IInv, FailuresInv, FailuresBounded
<1> QED BY <1>1, Inductive, PTL

\* As long as servers are saved one after the other under the small plan, there are no
\* more than it allows: enforce_plan_limit of create_server.
THEOREM ServersAreWithinPlan == Spec => []ServersWithinPlan
<1>1. IInv => ServersWithinPlan
  BY DEF IInv, ServersInv, NoTeam, ServersWithinPlan
<1> QED BY <1>1, Inductive, PTL

\* Admins who update an upgrade request one after the other keep the date of its first
\* review and each other's notes: what update_upgrade_request writes back of the row
\* that the handler has read is still what the table holds.
THEOREM UpdatesKeepTheRest == Spec => UpdateKeepsTheRest
<1> DEFINE Keeps(q) == <<"upgrade", q>> \notin raced' =>
        /\ upgrades[q].reviewed # NoCall => upgrades'[q].reviewed = upgrades[q].reviewed
        /\ upgrades'[q].note # upgrades[q].note =>
              \E c \in Calls : upgrades'[q].note = c /\ pc[c] = "write" /\ goal[c].noted
<1>1. ASSUME IInv, [Next]_vars, NEW q \in Upgrades PROVE Keeps(q)
  <2> SUFFICES ASSUME <<"upgrade", q>> \notin raced'
               PROVE  /\ upgrades[q].reviewed # NoCall => upgrades'[q].reviewed = upgrades[q].reviewed
                      /\ upgrades'[q].note # upgrades[q].note =>
                            \E c \in Calls : upgrades'[q].note = c /\ pc[c] = "write" /\ goal[c].noted
    OBVIOUS
  <2>1. Typing /\ UpgradesInv /\ <<"upgrade", q>> \notin raced
    BY <1>1, RacedStep, TagsDiffer DEF IInv
  <2>2. CASE \A c \in Calls : ~WriteUpgrade(c)
    BY <1>1, <2>1, <2>2, UpgradesStay
  <2>3. ASSUME NEW c \in Calls, WriteUpgrade(c)
        PROVE  /\ upgrades[q].reviewed # NoCall => upgrades'[q].reviewed = upgrades[q].reviewed
               /\ upgrades'[q].note # upgrades[q].note =>
                      upgrades'[q].note = c /\ pc[c] = "write" /\ goal[c].noted
    <3>1. PICK p \in Upgrades :
             /\ Relies(c, <<"upgrade", p>>)
             /\ \A r \in Upgrades \ {p} : upgrades'[r] = upgrades[r]
             /\ upgrades'[p].reviewed = Reviewed(c)
             /\ upgrades'[p].note = IF goal[c].noted THEN c ELSE read[c].note
      BY <2>1, <2>3, UpgradesWrite
    <3>2. CASE p = q
      <4>1. read[c].reviewed = upgrades[q].reviewed /\ read[c].note = upgrades[q].note
        BY <2>1, <3>1, <3>2 DEF UpgradesInv
      <4>2. pc[c] = "write"
        BY <2>3 DEF WriteUpgrade
      <4> QED BY <3>1, <3>2, <4>1, <4>2 DEF Reviewed
    <3> QED BY <3>1, <3>2
  <2> QED BY <2>2, <2>3
<1>2. IInv /\ [Next]_vars => [\A q \in Upgrades : Keeps(q)]_vars
  BY <1>1
<1> QED BY <1>2, Inductive, PTL DEF Spec, UpdateKeepsTheRest

=============================================================================
