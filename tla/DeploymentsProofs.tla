------------------------- MODULE DeploymentsProofs -------------------------
(***************************************************************************)
(* What Deployments guarantees for every number of requests, users,        *)
(* servers and hosts, and under every fault.                               *)
(***************************************************************************)
EXTENDS Deployments, TLAPS

(* The inductive invariant. *)

\* Where a handler of a deployment can be; where it knows the host; where a
\* create has not inserted its row yet.
AtWork == {"target", "port", "name", "insert", "started", "remove", "configure",
           "pending", "run", "ran", "failed", "notify", "event", "notifyFailed",
           "eventFailed", "deleteRow"}
Early == {"target", "port", "name", "insert"}

Unborn(d) == pc[d] = "idle" \/ (op[d] = "create" /\ pc[d] \in Early)

\* The local state of a handler fits its control state.
Control == \A r \in Requests :
    /\ pc[r] = "idle" => dep[r] = NoRequest /\ ~Live(r)
    /\ Live(r) => dep[r] \in Requests
    /\ pc[r] # "idle" => want[r] \in Wish
    /\ pc[r] \in AtWork => dep[r] \in Requests /\ op[r] \in {"create", "redeploy", "delete"}
    /\ pc[r] \in AtWork \ {"target"} => host[r] \in Hosts
    /\ pc[r] = "serverWrite" => dep[r] = NoRequest /\ op[r] \in {"updateServer", "deleteServer"}
    /\ pc[r] = "serverWrite" /\ op[r] = "updateServer" => host[r] \in Hosts
    /\ op[r] = "create" => dep[r] = r
    /\ op[r] \in {"redeploy", "delete"} => seen[r] \in Row
    /\ pc[r] = "insert" => op[r] = "create"
    /\ pc[r] \in {"remove", "configure", "pending"} => op[r] # "create"
    /\ pc[r] \in {"configure", "pending", "run", "ran", "failed"} => op[r] # "delete"
    /\ pc[r] = "deleteRow" => op[r] = "delete"

\* A command that is still under way on a host had a host to run on, and the
\* deployment it works on is disturbed.
LateInv == \A l \in late :
    /\ host[l[1]] \in Hosts /\ want[l[1]] \in Wish
    /\ pc[l[1]] \notin Early \cup {"idle"} /\ dep[l[1]] \in disturbed

Typing == TypeOK /\ Control /\ LateInv

\* Nobody works on a deployment before its row is inserted.
Fresh == \A d \in Requests : Unborn(d) =>
    ~Exists(d) /\ \A q \in Requests : dep[q] = d => q = d

\* An undisturbed deployment has one handler at a time.
OneHandler == \A q, r \in Requests :
    InFlight(q) /\ InFlight(r) /\ dep[q] = dep[r] /\ dep[r] \in Requests \ disturbed => q = r

\* The containers of d are among the set cs.
ContainersIn(d, cs) == \A c \in Requests : Live(c) /\ dep[c] = d => c \in cs

\* What the handler r of an undisturbed deployment knows.
Knows(r) ==
    LET d == dep[r]
        born == ~(op[r] = "create" /\ pc[r] \in Early)
    IN  /\ born => Exists(d) /\ record[d].target = want[r].target
        /\ pc[r] # "target" => servers[want[r].target] = host[r]
        /\ op[r] # "create" /\ pc[r] \in {"target", "port", "name", "started", "remove"} =>
              seen[r].name = record[d].name
        /\ pc[r] \in {"pending", "run", "ran"} \/ (born /\ op[r] = "create") =>
              record[d].name = want[r].name
        /\ (\/ pc[r] \in {"configure", "pending", "run", "deleteRow"}
            \/ op[r] = "delete" /\ pc[r] \in {"notify", "event"}
            \/ op[r] = "create" /\ pc[r] \in Early \cup {"started"}) =>
              ContainersIn(d, {})
        /\ pc[r] = "run" \/ (born /\ op[r] = "create" /\ pc[r] = "started") =>
              record[d].status # "running"
        /\ pc[r] = "ran" => record[d].status # "running" /\ ContainersIn(d, {r})

Knowledge == \A r \in Requests :
    pc[r] \in AtWork /\ dep[r] \notin disturbed => Knows(r)

\* The daemon of a host gives a name to one container at a time.
NamesInv == \A c1, c2 \in Requests :
    Live(c1) /\ Live(c2) /\ docker[c1].host = docker[c2].host
        /\ docker[c1].name = docker[c2].name => c1 = c2

IInv ==
    /\ Typing /\ Fresh /\ OneHandler /\ Knowledge /\ NamesInv
    /\ NoOrphanContainer /\ RunningNamesTheContainer /\ NothingLoggedAboutTheDead

USE ConstantsAssumption, NullsAssumption DEF Targets

LEMMA TypingInit == Init => Typing
BY DEF Init, Typing, TypeOK, Control, LateInv, PCs, Ops, AtWork, Early, Live, FaultKinds

\* What the writes to a row and to the hosts yield.
LEMMA RowUpdate == ASSUME TypeOK, NEW d \in Requests, NEW row, Exists(d) => row \in Row,
                          UpdateRow(d, row)
                   PROVE  /\ record' \in [Requests -> Row \cup {NoRow}]
                          /\ \A e \in Requests : e # d => record'[e] = record[e]
                          /\ record'[d] = IF Exists(d) THEN row ELSE NoRow
                          /\ \A e \in Requests : Exists(e)' <=> Exists(e)
BY DEF UpdateRow, Exists, TypeOK

LEMMA StatusWrite == ASSUME TypeOK, NEW r \in Requests, dep[r] \in Requests,
                            NEW st \in {"pending", "running", "failed"},
                            NEW c \in Requests \cup {NoRequest}, SetStatus(r, st, c)
                     PROVE  /\ record' \in [Requests -> Row \cup {NoRow}]
                            /\ \A e \in Requests : e # dep[r] => record'[e] = record[e]
                            /\ \A e \in Requests : Exists(e)' <=> Exists(e)
                            /\ Exists(dep[r]) =>
                                  /\ record'[dep[r]].name = record[dep[r]].name
                                  /\ record'[dep[r]].target = record[dep[r]].target
                                  /\ record'[dep[r]].port = record[dep[r]].port
                                  /\ record'[dep[r]].status = st /\ record'[dep[r]].container = c
<1> DEFINE d == dep[r]
           row == [record[d] EXCEPT !.status = st, !.container = c]
<1>1. Exists(d) => /\ row \in Row /\ row.status = st /\ row.container = c
                   /\ row.name = record[d].name /\ row.target = record[d].target
                   /\ row.port = record[d].port
  <2>1. SUFFICES ASSUME Exists(d)
                 PROVE  /\ row \in Row /\ row.status = st /\ row.container = c
                        /\ row.name = record[d].name /\ row.target = record[d].target
                        /\ row.port = record[d].port
    OBVIOUS
  <2>2. record[d] \in Row
    BY <2>1 DEF Exists, TypeOK
  <2> HIDE DEF d
  <2> QED BY <2>2 DEF Row
<1>2. UpdateRow(d, row)
  BY DEF SetStatus
<1> HIDE DEF row
<1>3. /\ record' \in [Requests -> Row \cup {NoRow}]
      /\ \A e \in Requests : e # d => record'[e] = record[e]
      /\ record'[d] = IF Exists(d) THEN row ELSE NoRow
      /\ \A e \in Requests : Exists(e)' <=> Exists(e)
  BY <1>1, <1>2, RowUpdate
<1> QED BY <1>1, <1>3

LEMMA ConfigureWrite == ASSUME TypeOK, NEW r \in Requests, dep[r] \in Requests, want[r] \in Wish,
                               Configure(r)
                        PROVE  /\ record' \in [Requests -> Row \cup {NoRow}]
                               /\ \A e \in Requests : e # dep[r] => record'[e] = record[e]
                               /\ \A e \in Requests : Exists(e)' <=> Exists(e)
                               /\ Exists(dep[r]) => record'[dep[r]].target = record[dep[r]].target
                               /\ Exists(dep[r]) => /\ record'[dep[r]].name = want[r].name
                                                    /\ record'[dep[r]].port = want[r].port
                                                    /\ record'[dep[r]].status = record[dep[r]].status
<1> DEFINE d == dep[r]
           row == [record[d] EXCEPT !.name = want[r].name, !.port = want[r].port]
<1>1. Exists(d) => /\ row \in Row /\ row.name = want[r].name /\ row.target = record[d].target
                   /\ row.port = want[r].port /\ row.status = record[d].status
  <2>1. SUFFICES ASSUME Exists(d)
                 PROVE  /\ row \in Row /\ row.name = want[r].name /\ row.target = record[d].target
                        /\ row.port = want[r].port /\ row.status = record[d].status
    OBVIOUS
  <2>2. record[d] \in Row
    BY <2>1 DEF Exists, TypeOK
  <2>3. want[r].name \in ContainerNames /\ want[r].port \in Ports \cup {NoPort}
    BY DEF Wish
  <2> HIDE DEF d
  <2> QED BY <2>2, <2>3 DEF Row
<1>2. UpdateRow(d, row)
  BY DEF Configure
<1> HIDE DEF row
<1>3. /\ record' \in [Requests -> Row \cup {NoRow}]
      /\ \A e \in Requests : e # d => record'[e] = record[e]
      /\ record'[d] = IF Exists(d) THEN row ELSE NoRow
      /\ \A e \in Requests : Exists(e)' <=> Exists(e)
  BY <1>1, <1>2, RowUpdate
<1> QED BY <1>1, <1>3

LEMMA DockerRun == ASSUME TypeOK, NEW r \in Requests, host[r] \in Hosts, want[r] \in Wish,
                          RunStarts(r) \/ RunStopsShort(r)
                   PROVE  /\ docker' \in [Requests -> Container \cup {NoContainer}]
                          /\ \A c \in Requests : c # r => docker'[c] = docker[c]
<1>1. ASSUME NEW b \in BOOLEAN PROVE [host |-> host[r], name |-> want[r].name,
                                     port |-> want[r].port, up |-> b] \in Container
  BY DEF Wish, Container
<1>2. ASSUME NEW b \in BOOLEAN PROVE /\ Made(r, b) \in [Requests -> Container \cup {NoContainer}]
                                    /\ \A c \in Requests : c # r => Made(r, b)[c] = docker[c]
  BY <1>1 DEF Made, TypeOK
<1> QED BY <1>2 DEF RunStarts, RunStopsShort, TypeOK

LEMMA DockerRemove == ASSUME TypeOK, NEW h, NEW n
                      PROVE  /\ Without(h, n) \in [Requests -> Container \cup {NoContainer}]
                             /\ \A c \in Requests : Without(h, n)[c] \in {docker[c], NoContainer}
BY DEF Without, TypeOK

LEMMA TypingStep == Typing /\ [Next]_vars => Typing'
<1> SUFFICES ASSUME Typing, [Next]_vars PROVE Typing'
  OBVIOUS
<1> USE DEF Typing, TypeOK, Control, LateInv, PCs, Ops, AtWork, Early, Live, Goto, tables, Locals, vars
<1>1. ASSUME NEW r \in Requests, Arrive(r) PROVE Typing'
  <2>1. ASSUME NEW u \in Users, NEW n \in Names \cup {NoName}, NEW p \in Ports \cup {NoPort},
               NEW t \in Targets, CreateDeployment(r, u, n, p, t)
        PROVE Typing'
    BY <2>1 DEF CreateDeployment, Begin, build_container_name, ContainerNames, Wish
  <2>2. ASSUME NEW u \in Users, NEW d \in Requests, NEW n \in Names \cup {NoName},
               NEW p \in Ports \cup {NoPort}, RedeployDeployment(r, u, d, n, p)
        PROVE Typing'
    BY <2>2 DEF RedeployDeployment, BeginOn, Begin, MayMutate, Exists, ContainerNames, Wish, Row
  <2>3. ASSUME NEW u \in Users, NEW d \in Requests, DeleteDeployment(r, u, d)
        PROVE Typing'
    BY <2>3 DEF DeleteDeployment, BeginOn, Begin, MayMutate, Exists, ContainerNames, Wish, Row
  <2>4. ASSUME NEW u \in Users, NEW s \in Servers, NEW h \in Hosts, UpdateServer(r, u, s, h)
        PROVE Typing'
    BY <2>4 DEF UpdateServer, BeginServer, Begin, ContainerNames, Wish
  <2>5. ASSUME NEW u \in Users, NEW s \in Servers, DeleteServer(r, u, s)
        PROVE Typing'
    BY <2>5 DEF DeleteServer, BeginServer, Begin, ContainerNames, Wish
  <2> QED BY <1>1, <2>1, <2>2, <2>3, <2>4, <2>5 DEF Arrive
<1>2. ASSUME NEW r \in Requests, Proceed(r) PROVE Typing'
  <2>1. ASSUME GetTarget(r) PROVE Typing'
    BY <2>1 DEF GetTarget, Wish
  <2>2. ASSUME CheckPort(r) PROVE Typing'
    BY <2>2 DEF CheckPort
  <2>3. ASSUME CheckName(r) PROVE Typing'
    BY <2>3 DEF CheckName
  <2>4. ASSUME InsertRecord(r) PROVE Typing'
    BY <2>4 DEF InsertRecord, Wish, Row
  <2>5. ASSUME LogStart(r) PROVE Typing'
    BY <2>5 DEF LogStart, Levels
  <2>6. ASSUME RemoveContainer(r) PROVE Typing'
    BY <2>6 DEF RemoveContainer, Without
  <2>7. ASSUME RemoveFails(r) PROVE Typing'
    BY <2>7 DEF RemoveFails, Without
  <2>8. ASSUME Configure(r) PROVE Typing'
    <3>1. dep[r] \in Requests /\ want[r] \in Wish
      BY <2>8 DEF Configure
    <3>2. record' \in [Requests -> Row \cup {NoRow}]
      BY <2>8, <3>1, ConfigureWrite
    <3>3. TypeOK'
      BY <2>8, <3>2 DEF Configure
    <3>4. Control' /\ LateInv'
      BY <2>8 DEF Configure
    <3> QED BY <3>3, <3>4
  <2>9. ASSUME MarkPending(r) PROVE Typing'
    <3>1. dep[r] \in Requests /\ SetStatus(r, "pending", NoRequest)
      BY <2>9 DEF MarkPending
    <3>2. record' \in [Requests -> Row \cup {NoRow}]
      BY <3>1, StatusWrite
    <3>3. TypeOK'
      BY <2>9, <3>2 DEF MarkPending, SetStatus
    <3>4. Control' /\ LateInv'
      BY <2>9 DEF MarkPending, SetStatus
    <3> QED BY <3>3, <3>4
  <2>10. ASSUME RunContainer(r) PROVE Typing'
    BY <2>10, DockerRun DEF RunContainer
  <2>11. ASSUME RunTimesOut(r) PROVE Typing'
    BY <2>11, DockerRun DEF RunTimesOut
  <2>12. ASSUME MarkRunning(r) PROVE Typing'
    <3>1. dep[r] \in Requests /\ SetStatus(r, "running", r)
      BY <2>12 DEF MarkRunning
    <3>2. record' \in [Requests -> Row \cup {NoRow}]
      BY <3>1, StatusWrite
    <3>3. TypeOK'
      BY <2>12, <3>2 DEF MarkRunning, SetStatus
    <3>4. Control' /\ LateInv'
      BY <2>12 DEF MarkRunning, SetStatus
    <3> QED BY <3>3, <3>4
  <2>13. ASSUME MarkFailed(r) PROVE Typing'
    <3>1. dep[r] \in Requests /\ SetStatus(r, "failed", NoRequest)
      BY <2>13 DEF MarkFailed
    <3>2. record' \in [Requests -> Row \cup {NoRow}]
      BY <3>1, StatusWrite
    <3>3. TypeOK'
      BY <2>13, <3>2 DEF MarkFailed, SetStatus
    <3>4. Control' /\ LateInv'
      BY <2>13 DEF MarkFailed, SetStatus
    <3> QED BY <3>3, <3>4
  <2>14. ASSUME Notify(r) PROVE Typing'
    BY <2>14 DEF Notify, Levels
  <2>15. ASSUME LogOutcome(r) PROVE Typing'
    BY <2>15 DEF LogOutcome, Levels
  <2>16. ASSUME DeleteRecord(r) PROVE Typing'
    BY <2>16 DEF DeleteRecord
  <2>17. ASSUME WriteServer(r) PROVE Typing'
    BY <2>17 DEF WriteServer, OnServer, Wish
  <2> QED BY <1>2, <2>1, <2>2, <2>3, <2>4, <2>5, <2>6, <2>7, <2>8, <2>9, <2>10, <2>11, <2>12, <2>13, <2>14, <2>15, <2>16, <2>17 DEF Proceed
<1>3. ASSUME NEW r \in Requests, LoseDatabase(r) PROVE Typing'
  BY <1>3 DEF LoseDatabase, InFlight
<1>4. ASSUME NEW r \in Requests, LateCommand(r) PROVE Typing'
  BY <1>4, DockerRun, DockerRemove DEF LateCommand
<1>5. CASE Crash
  BY <1>5 DEF Crash, InFlight
<1>6. CASE Quiet \/ UNCHANGED vars
  BY <1>6 DEF Quiet
<1> QED BY <1>1, <1>2, <1>3, <1>4, <1>5, <1>6 DEF Next

\* Whatever the requests and the faults, the tables hold rows of their columns'
\* types, and the handlers stay at the places the code has.
THEOREM TypeCorrect == Spec => []TypeOK
<1>1. Init => Typing
  BY TypingInit
<1>2. Typing /\ [Next]_vars => Typing'
  BY TypingStep
<1>3. Typing => TypeOK
  BY DEF Typing
<1> QED BY <1>1, <1>2, <1>3, PTL DEF Spec

-----------------------------------------------------------------------------
(* A step of the handler of r, or of a command it left behind, changes the   *)
(* row of its own deployment only, and removes containers or starts r's.     *)

Step(r) == Proceed(r) \/ LoseDatabase(r) \/ LateCommand(r)

Frame(r) ==
    /\ UNCHANGED <<op, dep, want, seen>>
    /\ \A q \in Requests \ {r} : pc'[q] = pc[q] /\ host'[q] = host[q]
    /\ \A d \in Requests : d # dep[r] => record'[d] = record[d]
    /\ \A c \in Requests \ {r} : docker'[c] \in {docker[c], NoContainer}
    /\ disturbed \subseteq disturbed'
    /\ pc[r] # "idle" /\ pc'[r] # "idle"
    /\ InFlight(r)' => InFlight(r)
    /\ pc'[r] \in Early => pc[r] \in Early /\ UNCHANGED record
    /\ \A e \in notifications' \cup activity' : e[1] # dep[r] => e \in notifications \cup activity
    /\ pc[r] # "serverWrite" => UNCHANGED servers

LEMMA FrameStep == ASSUME Typing, NEW r \in Requests, Step(r) PROVE Frame(r)
<1> USE DEF Frame, InFlight, Early, Goto, Locals, tables
<1>1. ASSUME LoseDatabase(r) PROVE Frame(r)
  BY <1>1 DEF LoseDatabase, Typing, TypeOK
<1>2. ASSUME LateCommand(r) PROVE Frame(r)
  <2>1. pc[r] # "idle" /\ host[r] \in Hosts /\ want[r] \in Wish /\ TypeOK
    BY <1>2 DEF LateCommand, Typing, LateInv
  <2>2. \A c \in Requests \ {r} : docker'[c] \in {docker[c], NoContainer}
    BY <1>2, <2>1, DockerRun, DockerRemove DEF LateCommand
  <2> QED BY <1>2, <2>1, <2>2 DEF LateCommand
<1>3. ASSUME Proceed(r) PROVE Frame(r)
  <2> USE DEF Typing, TypeOK
  <2>1. ASSUME GetTarget(r) PROVE Frame(r)
    BY <2>1 DEF GetTarget
  <2>2. ASSUME CheckPort(r) PROVE Frame(r)
    BY <2>2 DEF CheckPort
  <2>3. ASSUME CheckName(r) PROVE Frame(r)
    BY <2>3 DEF CheckName
  <2>4. ASSUME InsertRecord(r) PROVE Frame(r)
    BY <2>4 DEF InsertRecord
  <2>5. ASSUME LogStart(r) PROVE Frame(r)
    BY <2>5 DEF LogStart
  <2>6. ASSUME RemoveContainer(r) PROVE Frame(r)
    BY <2>6 DEF RemoveContainer, Without
  <2>7. ASSUME RemoveFails(r) PROVE Frame(r)
    BY <2>7 DEF RemoveFails, Without
  <2>8. ASSUME Configure(r) PROVE Frame(r)
    BY <2>8 DEF Configure, UpdateRow
  <2>9. ASSUME MarkPending(r) PROVE Frame(r)
    BY <2>9 DEF MarkPending, SetStatus, UpdateRow
  <2>10. ASSUME RunContainer(r) PROVE Frame(r)
    <3>1. host[r] \in Hosts /\ want[r] \in Wish
      BY <2>10 DEF RunContainer, Control, AtWork
    <3>2. \A c \in Requests \ {r} : docker'[c] = docker[c]
      BY <2>10, <3>1, DockerRun DEF RunContainer
    <3> QED BY <2>10, <3>2 DEF RunContainer
  <2>11. ASSUME RunTimesOut(r) PROVE Frame(r)
    <3>1. host[r] \in Hosts /\ want[r] \in Wish
      BY <2>11 DEF RunTimesOut, Control, AtWork
    <3>2. \A c \in Requests \ {r} : docker'[c] = docker[c]
      BY <2>11, <3>1, DockerRun DEF RunTimesOut
    <3> QED BY <2>11, <3>2 DEF RunTimesOut
  <2>12. ASSUME MarkRunning(r) PROVE Frame(r)
    BY <2>12 DEF MarkRunning, SetStatus, UpdateRow
  <2>13. ASSUME MarkFailed(r) PROVE Frame(r)
    BY <2>13 DEF MarkFailed, SetStatus, UpdateRow
  <2>14. ASSUME Notify(r) PROVE Frame(r)
    BY <2>14 DEF Notify
  <2>15. ASSUME LogOutcome(r) PROVE Frame(r)
    BY <2>15 DEF LogOutcome
  <2>16. ASSUME DeleteRecord(r) PROVE Frame(r)
    BY <2>16 DEF DeleteRecord
  <2>17. ASSUME WriteServer(r) PROVE Frame(r)
    BY <2>17 DEF WriteServer
  <2> QED BY <1>3, <2>1, <2>2, <2>3, <2>4, <2>5, <2>6, <2>7, <2>8, <2>9, <2>10, <2>11, <2>12, <2>13, <2>14, <2>15, <2>16, <2>17 DEF Proceed
<1> QED BY <1>1, <1>2, <1>3 DEF Step

\* Everything the invariant says about one undisturbed deployment.
DeploymentInv(d) ==
    /\ \A c \in Requests : Live(c) /\ dep[c] = d =>
          /\ Exists(d) /\ record[d].name = docker[c].name
          /\ servers[record[d].target] = docker[c].host
          /\ record[d].status = "running" => record[d].container = c
    /\ \A e \in notifications \cup activity : e[1] = d => Exists(d)

LEMMA DeploymentInvs ==
    ASSUME TypeOK, Control
    PROVE  NoOrphanContainer /\ RunningNamesTheContainer /\ NothingLoggedAboutTheDead
             <=> \A d \in Requests \ disturbed : DeploymentInv(d)
<1>1. \A c \in Requests : Live(c) => dep[c] \in Requests
  BY DEF Control
<1>2. \A e \in notifications \cup activity : e[1] \in Requests
  BY DEF TypeOK
<1> QED
  BY <1>1, <1>2 DEF DeploymentInv, NoOrphanContainer, RunningNamesTheContainer,
                    NothingLoggedAboutTheDead

-----------------------------------------------------------------------------
(* One step of r, as seen by the deployments it does not work on. *)

\* The row of a server changes only under deployments that become disturbed.
LEMMA ServersKept ==
    ASSUME IInv, NEW r \in Requests, Step(r), NEW d \in Requests \ disturbed'
    PROVE  /\ Exists(d) => servers'[record[d].target] = servers[record[d].target]
           /\ \A q \in Requests : InFlight(q) /\ dep[q] = d =>
                 servers'[want[q].target] = servers[want[q].target]
<1>1. Typing
  BY DEF IInv
<1>2. CASE pc[r] # "serverWrite"
  BY <1>1, <1>2, FrameStep DEF Frame
<1>3. CASE pc[r] = "serverWrite"
  <2>1. WriteServer(r) \/ UNCHANGED servers
    BY <1>3 DEF Step, Proceed, LoseDatabase, LateCommand, GetTarget, CheckPort, CheckName,
       InsertRecord, LogStart, RemoveContainer, RemoveFails, Configure, MarkPending,
       RunContainer, RunTimesOut, MarkRunning, MarkFailed, Notify, LogOutcome, DeleteRecord, tables
  <2>2. CASE WriteServer(r)
    BY <1>1, <2>2 DEF WriteServer, OnServer, Typing, TypeOK
  <2> QED BY <2>1, <2>2
<1> QED BY <1>2, <1>3

\* The handler of an undisturbed deployment is the only one to move.
LEMMA OthersElsewhere ==
    ASSUME IInv, NEW r \in Requests, Step(r), NEW q \in Requests \ {r},
           InFlight(q), dep[q] \in Requests \ disturbed'
    PROVE  dep[q] # dep[r]
<1>1. disturbed \subseteq disturbed'
  BY FrameStep DEF IInv, Frame
<1>2. InFlight(r) \/ \E k \in {"run", "remove"} : <<r, k>> \in late
  BY DEF Step, Proceed, LoseDatabase, LateCommand, InFlight, GetTarget, CheckPort, CheckName,
     InsertRecord, LogStart, RemoveContainer, RemoveFails, Configure, MarkPending,
     RunContainer, RunTimesOut, MarkRunning, MarkFailed, Notify, LogOutcome, DeleteRecord, WriteServer
<1>3. CASE InFlight(r)
  BY <1>1, <1>3 DEF IInv, OneHandler
<1>4. CASE \E k \in {"run", "remove"} : <<r, k>> \in late
  BY <1>1, <1>4 DEF IInv, Typing, LateInv
<1> QED BY <1>2, <1>3, <1>4

LEMMA KnowledgeOfOthers ==
    ASSUME IInv, NEW r \in Requests, Step(r), NEW q \in Requests \ {r},
           pc'[q] \in AtWork, dep'[q] \notin disturbed'
    PROVE  Knows(q)'
<1>1. Frame(r) /\ Typing
  BY FrameStep DEF IInv
<1>2. pc[q] = pc'[q] /\ dep'[q] = dep[q] /\ dep[q] \in Requests \ disturbed' /\ InFlight(q)
  BY <1>1 DEF Frame, Typing, Control, InFlight, AtWork
<1>3. dep[q] # dep[r]
  BY <1>2, OthersElsewhere
<1>4. Knows(q)
  BY <1>1, <1>2 DEF IInv, Knowledge, Frame
<1>5. servers'[want[q].target] = servers[want[q].target]
  BY <1>2, ServersKept
<1>6. record'[dep[q]] = record[dep[q]] /\ host'[q] = host[q]
  BY <1>1, <1>2, <1>3 DEF Frame
<1>7. \A c \in Requests : docker'[c] # NoContainer /\ dep'[c] = dep'[q] => Live(c) /\ dep[c] = dep[q]
  BY <1>1, <1>3 DEF Frame, Live
<1>8. ContainersIn(dep[q], {}) => ContainersIn(dep[q], {})'
  BY <1>7 DEF ContainersIn, Live
<1>9. ContainersIn(dep[q], {q}) => ContainersIn(dep[q], {q})'
  BY <1>7 DEF ContainersIn, Live
<1> QED
  BY <1>1, <1>2, <1>4, <1>5, <1>6, <1>8, <1>9 DEF Knows, Frame, Exists

LEMMA OtherDeployments ==
    ASSUME IInv, NEW r \in Requests, Step(r), NEW d \in Requests \ disturbed', d # dep[r]
    PROVE  DeploymentInv(d)'
<1>1. Frame(r) /\ TypeOK /\ Control
  BY FrameStep DEF IInv, Typing
<1>2. DeploymentInv(d)
  BY <1>1, DeploymentInvs DEF IInv, Frame
<1>3. Exists(d) => servers'[record[d].target] = servers[record[d].target]
  BY ServersKept
<1> QED
  BY <1>1, <1>2, <1>3 DEF DeploymentInv, Frame, Live, Exists

-----------------------------------------------------------------------------
(* One step of the only handler of an undisturbed deployment.                *)

\* Everything that handler r relies on, and everything it must maintain.
Relies(r) == DeploymentInv(dep[r]) /\ (pc[r] \in AtWork => Knows(r))

\* What the control state of the handler says about its deployment.
LEMMA Known ==
    ASSUME NEW r \in Requests, Control, Knows(r)
    PROVE  /\ pc[r] \in {"configure", "pending", "run", "ran", "failed", "deleteRow"} =>
                 /\ Exists(dep[r]) /\ record[dep[r]].target = want[r].target
                 /\ servers[want[r].target] = host[r]
           /\ pc[r] \in {"configure", "pending", "run", "deleteRow"} => ContainersIn(dep[r], {})
           /\ pc[r] \in {"pending", "run", "ran"} => record[dep[r]].name = want[r].name
           /\ pc[r] = "failed" /\ op[r] = "create" => record[dep[r]].name = want[r].name
           /\ pc[r] = "run" => record[dep[r]].status # "running"
           /\ pc[r] = "ran" => record[dep[r]].status # "running" /\ ContainersIn(dep[r], {r})
BY DEF Knows, Early

\* A row may be rewritten, as long as it keeps its target, names the containers
\* that are there and calls running only what it names.
LEMMA RowRewritten ==
    ASSUME NEW d \in Requests, DeploymentInv(d), Exists(d), Exists(d)',
           UNCHANGED <<servers, docker, dep, notifications, activity>>,
           record'[d].target = record[d].target,
           record'[d].name = record[d].name \/ ContainersIn(d, {}),
           record'[d].status = "running" => ContainersIn(d, {record'[d].container})
    PROVE  DeploymentInv(d)'
BY DEF DeploymentInv, ContainersIn, Live

LEMMA OwnConfigure ==
    ASSUME Typing, NEW r \in Requests, dep[r] \in Requests, Configure(r),
           DeploymentInv(dep[r]), Knows(r)
    PROVE  Relies(r)'
<1> DEFINE d == dep[r]
<1>1. /\ pc[r] = "configure" /\ want[r] \in Wish /\ op[r] # "create" /\ op[r] # "delete"
      /\ TypeOK /\ Control
  BY DEF Configure, Typing, Control, AtWork
<1>2. /\ Exists(d) /\ record[d].target = want[r].target /\ servers[want[r].target] = host[r]
      /\ ContainersIn(d, {})
  BY <1>1, Known
<1>3. /\ UNCHANGED <<servers, docker, dep, op, want, seen, host, notifications, activity>>
      /\ pc'[r] = "pending"
  BY <1>1 DEF Configure, Locals, Goto, TypeOK
<1>4. Exists(d)' /\ record'[d].target = record[d].target /\ record'[d].name = want[r].name
  BY <1>1, <1>2, <1>3, ConfigureWrite DEF Exists
<1>5. DeploymentInv(d)'
  BY <1>2, <1>4, <1>3 DEF DeploymentInv, ContainersIn, Live
<1>6. ContainersIn(d, {})'
  BY <1>2, <1>3 DEF ContainersIn, Live
<1>7. Knows(r)'
  BY <1>1, <1>2, <1>3, <1>4, <1>6 DEF Knows, Early
<1> QED BY <1>3, <1>5, <1>7 DEF Relies

LEMMA OwnStatus ==
    ASSUME Typing, NEW r \in Requests, dep[r] \in Requests, DeploymentInv(dep[r]), Knows(r),
           MarkPending(r) \/ MarkRunning(r) \/ MarkFailed(r)
    PROVE  Relies(r)'
<1> DEFINE d == dep[r]
<1>1. /\ pc[r] \in {"pending", "ran", "failed"} /\ op[r] # "delete" /\ TypeOK /\ Control
  BY DEF MarkPending, MarkRunning, MarkFailed, Typing, Control
<1>2. Exists(d) /\ record[d].target = want[r].target /\ servers[want[r].target] = host[r]
  BY <1>1, Known
<1>3. ASSUME NEW st \in {"pending", "running", "failed"}, NEW c \in Requests \cup {NoRequest},
             SetStatus(r, st, c)
      PROVE  /\ Exists(d)' /\ record'[d].name = record[d].name
             /\ record'[d].target = record[d].target
             /\ record'[d].status = st /\ record'[d].container = c
             /\ UNCHANGED <<servers, docker, dep, op, want, seen, host, notifications, activity>>
  <2>1. UNCHANGED <<servers, docker, dep, op, want, seen, host, notifications, activity>>
    BY <1>3 DEF SetStatus, Locals
  <2> QED BY <1>1, <1>2, <1>3, <2>1, StatusWrite
<1>4. CASE MarkPending(r)
  <2>1. pc[r] = "pending" /\ SetStatus(r, "pending", NoRequest) /\ pc'[r] = "run"
    BY <1>1, <1>4 DEF MarkPending, Goto, TypeOK
  <2>2. ContainersIn(d, {}) /\ record[d].name = want[r].name /\ op[r] # "create"
    BY <1>1, <2>1, Known DEF Control
  <2>3. ContainersIn(d, {})'
    BY <1>3, <2>1, <2>2 DEF ContainersIn, Live
  <2>4. DeploymentInv(d)'
    BY <1>2, <1>3, <2>1, RowRewritten
  <2>5. Knows(r)'
    BY <1>1, <1>2, <1>3, <2>1, <2>2, <2>3 DEF Knows, Early
  <2> QED BY <1>3, <2>1, <2>4, <2>5 DEF Relies
<1>5. CASE MarkRunning(r)
  <2>1. pc[r] = "ran" /\ SetStatus(r, "running", r) /\ pc'[r] = "notify"
    BY <1>1, <1>5 DEF MarkRunning, Goto, TypeOK
  <2>2. ContainersIn(d, {r}) /\ record[d].name = want[r].name
    BY <1>1, <2>1, Known
  <2>3. DeploymentInv(d)'
    BY <1>2, <1>3, <2>1, <2>2, RowRewritten
  <2>4. Knows(r)'
    BY <1>1, <1>2, <1>3, <2>1, <2>2 DEF Knows, Early
  <2> QED BY <1>3, <2>1, <2>3, <2>4 DEF Relies
<1>6. CASE MarkFailed(r)
  <2>1. pc[r] = "failed" /\ SetStatus(r, "failed", NoRequest) /\ pc'[r] = "notifyFailed"
    BY <1>1, <1>6 DEF MarkFailed, Goto, TypeOK
  <2>2. op[r] = "create" => record[d].name = want[r].name
    BY <1>1, <2>1, Known
  <2>3. DeploymentInv(d)'
    BY <1>2, <1>3, <2>1, RowRewritten
  <2>4. Knows(r)'
    BY <1>1, <1>2, <1>3, <2>1, <2>2 DEF Knows, Early
  <2> QED BY <1>3, <2>1, <2>3, <2>4 DEF Relies
<1> QED BY <1>4, <1>5, <1>6

LEMMA OwnRun ==
    ASSUME Typing, NEW r \in Requests, dep[r] \in Requests, DeploymentInv(dep[r]), Knows(r),
           pc[r] = "run", RunStarts(r) \/ RunStopsShort(r),
           UNCHANGED <<record, servers, dep, op, want, seen, host, notifications, activity>>,
           pc'[r] \in {"ran", "failed", "done"}
    PROVE  Relies(r)'
<1> DEFINE d == dep[r]
<1>1. TypeOK /\ Control /\ want[r] \in Wish /\ host[r] \in Hosts /\ op[r] # "delete"
  BY DEF Typing, Control, AtWork
<1>2. /\ Exists(d) /\ record[d].target = want[r].target /\ servers[want[r].target] = host[r]
      /\ ContainersIn(d, {}) /\ record[d].name = want[r].name /\ record[d].status # "running"
  BY <1>1, Known
<1>3. \A c \in Requests : c # r => docker'[c] = docker[c]
  BY <1>1, DockerRun
<1>4. \A c \in Requests : docker'[c] # NoContainer /\ dep[c] = d => c = r
  BY <1>2, <1>3 DEF ContainersIn, Live
<1>5. docker[r] = NoContainer
  BY <1>2 DEF ContainersIn, Live
<1>6. docker'[r] # NoContainer => docker'[r].host = host[r] /\ docker'[r].name = want[r].name
  BY <1>1, <1>5 DEF RunStarts, RunStopsShort, Made, TypeOK
<1>7. DeploymentInv(d)'
  BY <1>2, <1>4, <1>6 DEF DeploymentInv, Live, Exists
<1>8. ContainersIn(d, {r})'
  BY <1>4 DEF ContainersIn, Live
<1>9. pc'[r] \in AtWork => Knows(r)'
  BY <1>1, <1>2, <1>8 DEF Knows, Early, Exists, AtWork
<1> QED BY <1>7, <1>9 DEF Relies

LEMMA OwnDelete ==
    ASSUME Typing, NEW r \in Requests, dep[r] \in Requests, Knows(r), DeleteRecord(r)
    PROVE  Relies(r)'
<1> DEFINE d == dep[r]
<1>1. pc[r] = "deleteRow" /\ TypeOK /\ Control
  BY DEF DeleteRecord, Typing
<1>2. ContainersIn(d, {})
  BY <1>1, Known
<1>3. /\ UNCHANGED <<servers, docker, dep, op, want, seen, host>> /\ pc'[r] = "done"
      /\ \A e \in notifications' \cup activity' : e[1] # d
  BY <1>1 DEF DeleteRecord, Locals, Goto, TypeOK
<1>4. DeploymentInv(d)'
  BY <1>2, <1>3 DEF DeploymentInv, ContainersIn, Live
<1> QED BY <1>3, <1>4 DEF Relies, AtWork

LEMMA OwnDeployment ==
    ASSUME IInv, NEW r \in Requests, Step(r), dep[r] \in Requests \ disturbed'
    PROVE  Relies(r)'
<1> DEFINE d == dep[r]
<1>1. Frame(r) /\ TypeOK /\ Control /\ LateInv
  BY FrameStep DEF IInv, Typing
<1>2. d \in Requests \ disturbed /\ dep'[r] = d
  BY <1>1 DEF Frame
<1>3. DeploymentInv(d)
  BY <1>1, <1>2, DeploymentInvs DEF IInv
<1>4. pc[r] \in AtWork => Knows(r)
  BY <1>2 DEF IInv, Knowledge
<1>8. Typing /\ d \in Requests /\ DeploymentInv(d) /\ (pc[r] \in AtWork => Knows(r))
  BY <1>2, <1>3, <1>4 DEF IInv
<1>5. CASE LoseDatabase(r)
  BY <1>1, <1>2, <1>3, <1>5 DEF LoseDatabase, Relies, DeploymentInv, Goto, AtWork, Live,
     Exists, tables, Locals, TypeOK
<1>6. ~LateCommand(r)
  BY <1>1, <1>2 DEF LateCommand, LateInv
<1>7. CASE Proceed(r)
  <2> USE <1>1, <1>2, <1>3, <1>4 DEF Relies, Knows, Goto, AtWork, Early, tables, Locals, TypeOK, Frame
  <2>1. ASSUME GetTarget(r) PROVE Relies(r)'
    BY <2>1 DEF GetTarget, DeploymentInv, ContainersIn, Live, Exists
  <2>2. ASSUME CheckPort(r) PROVE Relies(r)'
    BY <2>2 DEF CheckPort, DeploymentInv, ContainersIn, Live, Exists
  <2>3. ASSUME CheckName(r) PROVE Relies(r)'
    BY <2>3 DEF CheckName, DeploymentInv, ContainersIn, Live, Exists
  <2>4. ASSUME InsertRecord(r) PROVE Relies(r)'
    <3>1. op[r] = "create" /\ ContainersIn(d, {}) /\ want[r] \in Wish
      BY <2>4 DEF InsertRecord, Control
    <3>2. /\ record'[d].name = want[r].name /\ record'[d].target = want[r].target
          /\ record'[d].status = "pending"
      BY <2>4 DEF InsertRecord
    <3>3. record'[d] # NoRow
      BY <2>4, <3>1 DEF InsertRecord, Row, Wish
    <3> QED BY <2>4, <3>1, <3>2, <3>3 DEF InsertRecord, DeploymentInv, ContainersIn, Live, Exists
  <2>5. ASSUME LogStart(r) PROVE Relies(r)'
    BY <2>5 DEF LogStart, DeploymentInv, ContainersIn, Live, Exists
  <2>6. ASSUME RemoveContainer(r) PROVE Relies(r)'
    BY <2>6 DEF RemoveContainer, DeploymentInv, ContainersIn, Live, Exists, Without
  <2>7. ASSUME RemoveFails(r) PROVE Relies(r)'
    BY <2>7 DEF RemoveFails, DeploymentInv, ContainersIn, Live, Exists, Without
  <2>8. ASSUME Configure(r) PROVE Relies(r)'
    <3>1. pc[r] \in AtWork
      BY <2>8 DEF Configure
    <3> QED BY <2>8, <3>1, <1>8, OwnConfigure
  <2>9. ASSUME MarkPending(r) PROVE Relies(r)'
    BY <2>9, <1>8, OwnStatus DEF MarkPending
  <2>10. ASSUME RunContainer(r) PROVE Relies(r)'
    <3>1. /\ UNCHANGED <<record, servers, dep, op, want, seen, host, notifications, activity>>
          /\ RunStarts(r) \/ RunStopsShort(r)
          /\ pc[r] = "run" /\ pc'[r] \in {"ran", "failed", "done"}
      BY <2>10 DEF RunContainer
    <3> QED BY <1>8, <3>1, OwnRun
  <2>11. ASSUME RunTimesOut(r) PROVE Relies(r)'
    <3>1. /\ UNCHANGED <<record, servers, dep, op, want, seen, host, notifications, activity>>
          /\ pc[r] = "run" /\ pc'[r] \in {"ran", "failed", "done"}
      BY <2>11 DEF RunTimesOut
    <3>2. RunStarts(r) \/ RunStopsShort(r)
      BY <2>11 DEF RunTimesOut
    <3> QED BY <1>8, <3>1, <3>2, OwnRun
  <2>12. ASSUME MarkRunning(r) PROVE Relies(r)'
    BY <2>12, <1>8, OwnStatus DEF MarkRunning
  <2>13. ASSUME MarkFailed(r) PROVE Relies(r)'
    BY <2>13, <1>8, OwnStatus DEF MarkFailed
  <2>14. ASSUME Notify(r) PROVE Relies(r)'
    BY <2>14 DEF Notify, DeploymentInv, ContainersIn, Live, Exists
  <2>15. ASSUME LogOutcome(r) PROVE Relies(r)'
    BY <2>15 DEF LogOutcome, DeploymentInv, ContainersIn, Live, Exists
  <2>16. ASSUME DeleteRecord(r) PROVE Relies(r)'
    BY <2>16, <1>8, OwnDelete DEF DeleteRecord
  <2>17. ASSUME WriteServer(r) PROVE Relies(r)'
    BY <2>17 DEF WriteServer, Control
  <2> QED BY <1>7, <2>1, <2>2, <2>3, <2>4, <2>5, <2>6, <2>7, <2>8, <2>9, <2>10, <2>11, <2>12, <2>13, <2>14, <2>15, <2>16, <2>17 DEF Proceed
<1> QED BY <1>5, <1>6, <1>7 DEF Step
-----------------------------------------------------------------------------
(* The rest of the invariant, when a handler or a late command moves on. *)

LEMMA FreshStep == ASSUME IInv, NEW r \in Requests, Step(r) PROVE Fresh'
<1>1. Frame(r) /\ Typing /\ Fresh
  BY FrameStep DEF IInv
<1> SUFFICES ASSUME NEW d \in Requests, Unborn(d)'
             PROVE  ~Exists(d)' /\ \A q \in Requests : dep'[q] = d => q = d
  BY DEF Fresh
<1>2. Unborn(d)
  BY <1>1 DEF Unborn, Frame
<1>3. ~Exists(d) /\ \A q \in Requests : dep[q] = d => q = d
  BY <1>1, <1>2 DEF Fresh
<1>4. record'[d] = record[d]
  <2>1. CASE d # dep[r]
    BY <1>1, <2>1 DEF Frame
  <2>2. CASE d = dep[r]
    <3>1. r = d /\ pc'[r] \in Early
      BY <1>1, <1>3, <2>2 DEF Unborn, Frame
    <3> QED BY <1>1, <3>1 DEF Frame
  <2> QED BY <2>1, <2>2
<1> QED BY <1>1, <1>3, <1>4 DEF Frame, Exists

LEMMA OneHandlerStep == ASSUME IInv, NEW r \in Requests, Step(r) PROVE OneHandler'
<1>1. Frame(r) /\ OneHandler
  BY FrameStep DEF IInv
<1>2. \A q \in Requests : InFlight(q)' => InFlight(q)
  BY <1>1 DEF Frame, InFlight
<1> QED BY <1>1, <1>2 DEF OneHandler, Frame

\* docker run refuses a name that the host already knows.
LEMMA NamesStep == ASSUME IInv, NEW r \in Requests, Step(r) PROVE NamesInv'
<1>1. Typing /\ TypeOK /\ Control /\ LateInv /\ NamesInv
  BY DEF IInv, Typing
<1>2. CASE \A c \in Requests : docker'[c] \in {docker[c], NoContainer}
  BY <1>1, <1>2 DEF NamesInv, Live
<1>3. CASE RunStarts(r) \/ RunStopsShort(r)
  <2>1. UNCHANGED docker \/ (~NameTaken(host[r], want[r].name) /\ \E b \in BOOLEAN : docker' = Made(r, b))
    BY <1>3 DEF RunStarts, RunStopsShort
  <2>2. CASE UNCHANGED docker
    BY <1>1, <2>2 DEF NamesInv, Live
  <2>3. CASE ~NameTaken(host[r], want[r].name) /\ \E b \in BOOLEAN : docker' = Made(r, b)
    <3>1. /\ docker'[r].host = host[r] /\ docker'[r].name = want[r].name
          /\ \A c \in Requests \ {r} : docker'[c] = docker[c]
      BY <1>1, <2>3 DEF Made, TypeOK
    <3>2. \A c \in Requests : Live(c) => docker[c].host # host[r] \/ docker[c].name # want[r].name
      BY <2>3 DEF NameTaken
    <3> QED BY <1>1, <3>1, <3>2 DEF NamesInv, Live
  <2> QED BY <2>1, <2>2, <2>3
<1>4. (\A c \in Requests : docker'[c] \in {docker[c], NoContainer}) \/ RunStarts(r) \/ RunStopsShort(r)
  <2>1. CASE RunContainer(r) \/ RunTimesOut(r)
    BY <2>1 DEF RunContainer, RunTimesOut
  <2>2. CASE RemoveContainer(r) \/ RemoveFails(r)
    BY <1>1, <2>2, DockerRemove DEF RemoveContainer, RemoveFails
  <2>3. CASE LateCommand(r)
    BY <1>1, <2>3, DockerRemove DEF LateCommand
  <2>4. CASE UNCHANGED docker
    BY <2>4
  <2> QED
    BY <2>1, <2>2, <2>3, <2>4 DEF Step, Proceed, LoseDatabase, GetTarget, CheckPort, CheckName,
       InsertRecord, LogStart, Configure, SetStatus, MarkPending, MarkRunning, MarkFailed,
       Notify, LogOutcome, DeleteRecord, WriteServer
<1> QED BY <1>2, <1>3, <1>4

LEMMA StepKeepsIInv == ASSUME IInv, Typing', NEW r \in Requests, Step(r) PROVE IInv'
<1>1. Frame(r) /\ Typing /\ TypeOK' /\ Control'
  BY FrameStep DEF IInv, Typing
<1>2. Knowledge'
  <2> SUFFICES ASSUME NEW q \in Requests, pc'[q] \in AtWork, dep'[q] \notin disturbed'
               PROVE  Knows(q)'
    BY DEF Knowledge
  <2>1. CASE q # r
    BY <2>1, KnowledgeOfOthers
  <2>2. CASE q = r
    <3>1. dep[r] \in Requests \ disturbed'
      BY <1>1, <2>2 DEF Frame, Control
    <3> QED BY <2>2, <3>1, OwnDeployment DEF Relies
  <2> QED BY <2>1, <2>2
<1>3. ASSUME NEW d \in Requests \ disturbed' PROVE DeploymentInv(d)'
  <2>1. CASE d # dep[r]
    BY <2>1, OtherDeployments
  <2>2. CASE d = dep[r]
    <3>1. DeploymentInv(dep[r])'
      BY <2>2, OwnDeployment DEF Relies
    <3>2. dep'[r] = d
      BY <1>1, <2>2 DEF Frame
    <3> QED BY <3>1, <3>2 DEF DeploymentInv
  <2> QED BY <2>1, <2>2
<1>4. (NoOrphanContainer /\ RunningNamesTheContainer /\ NothingLoggedAboutTheDead)'
  <2>1. (\A d \in Requests \ disturbed : DeploymentInv(d))'
    BY <1>3
  <2> QED BY <1>1, <2>1, DeploymentInvs, PTL
<1> QED BY <1>2, <1>4, FreshStep, OneHandlerStep, NamesStep DEF IInv
-----------------------------------------------------------------------------
(* Requests arrive, the backend restarts, or nothing happens.                *)

\* An arrival writes no table and starts no container; a second handler of a
\* deployment disturbs it.
Arrival(r) ==
    /\ UNCHANGED <<record, servers, notifications, activity, docker, late>>
    /\ pc[r] = "idle" /\ pc'[r] \in {"target", "serverWrite"}
    /\ \A q \in Requests \ {r} :
          /\ pc'[q] = pc[q] /\ op'[q] = op[q] /\ dep'[q] = dep[q]
          /\ want'[q] = want[q] /\ seen'[q] = seen[q] /\ host'[q] = host[q]
    /\ disturbed \subseteq disturbed'
    /\ pc'[r] = "target" => op'[r] \in {"create", "redeploy", "delete"}
    /\ pc'[r] = "target" /\ op'[r] = "create" => dep'[r] = r
    /\ pc'[r] = "target" /\ op'[r] # "create" =>
          /\ Exists(dep'[r]) /\ want'[r].target = record[dep'[r]].target
          /\ want'[r].name \in ContainerNames
          /\ seen'[r] = record[dep'[r]]
          /\ Busy(dep'[r]) => dep'[r] \in disturbed'
    /\ pc'[r] = "serverWrite" => dep'[r] = NoRequest

LEMMA ArriveIsArrival == ASSUME TypeOK, NEW r \in Requests, Arrive(r) PROVE Arrival(r)
<1> USE DEF Arrival, Goto, Begin, TypeOK, tables
<1>1. ASSUME NEW u \in Users, NEW n \in Names \cup {NoName}, NEW p \in Ports \cup {NoPort},
             NEW t \in Targets, CreateDeployment(r, u, n, p, t)
      PROVE  Arrival(r)
  BY <1>1 DEF CreateDeployment
<1>2. ASSUME NEW u \in Users, NEW d \in Requests, NEW n \in Names \cup {NoName},
             NEW p \in Ports \cup {NoPort}, RedeployDeployment(r, u, d, n, p)
      PROVE  Arrival(r)
  BY <1>2 DEF RedeployDeployment, BeginOn, MayMutate, Exists, Row, ContainerNames
<1>3. ASSUME NEW u \in Users, NEW d \in Requests, DeleteDeployment(r, u, d)
      PROVE  Arrival(r)
  BY <1>3 DEF DeleteDeployment, BeginOn, MayMutate, Exists, Row, ContainerNames
<1>4. ASSUME NEW u \in Users, NEW s \in Servers, NEW h \in Hosts, UpdateServer(r, u, s, h)
      PROVE  Arrival(r)
  BY <1>4 DEF UpdateServer, BeginServer
<1>5. ASSUME NEW u \in Users, NEW s \in Servers, DeleteServer(r, u, s)
      PROVE  Arrival(r)
  BY <1>5 DEF DeleteServer, BeginServer
<1> QED BY <1>1, <1>2, <1>3, <1>4, <1>5 DEF Arrive

LEMMA ArriveKeepsIInv == ASSUME IInv, Typing', NEW r \in Requests, Arrive(r) PROVE IInv'
<1>1. /\ Arrival(r) /\ Typing /\ TypeOK /\ Control /\ LateInv
      /\ pc' \in [Requests -> PCs] /\ Control'
  BY ArriveIsArrival DEF IInv, Typing, TypeOK
<1>2. Fresh'
  BY <1>1 DEF IInv, Fresh, Unborn, Arrival, Exists, Early
<1>3. OneHandler'
  BY <1>1, ConstantsAssumption DEF IInv, Fresh, Unborn, OneHandler, Arrival, Busy, InFlight
<1>4. Knowledge'
  <2> SUFFICES ASSUME NEW q \in Requests, pc'[q] \in AtWork, dep'[q] \notin disturbed'
               PROVE  Knows(q)'
    BY DEF Knowledge
  <2>1. CASE q # r
    <3>1. Knows(q)
      BY <1>1, <2>1 DEF IInv, Knowledge, Arrival
    <3>2. \A c \in Requests : Live(c) => dep'[c] = dep[c]
      BY <1>1 DEF Control, Arrival, Live
    <3>3. ContainersIn(dep[q], {}) => ContainersIn(dep[q], {})'
      BY <1>1, <2>1, <3>2 DEF ContainersIn, Arrival, Live
    <3>4. ContainersIn(dep[q], {q}) => ContainersIn(dep[q], {q})'
      BY <1>1, <2>1, <3>2 DEF ContainersIn, Arrival, Live
    <3> QED BY <1>1, <2>1, <3>1, <3>3, <3>4 DEF Knows, Arrival, Exists
  <2>2. CASE q = r
    <3>1. \A c \in Requests : Live(c) => c # r /\ dep'[c] = dep[c]
      BY <1>1 DEF Control, Arrival, Live
    <3>2. pc'[r] = "target"
      BY <1>1, <2>2 DEF Arrival, AtWork
    <3>3. CASE op'[r] = "create"
      <4>1. \A c \in Requests : Live(c) => dep[c] # r
        BY <1>1, <3>1 DEF IInv, Fresh, Unborn, Arrival
      <4> QED BY <1>1, <2>2, <3>1, <3>2, <3>3, <4>1
              DEF Knows, Arrival, ContainersIn, Live, Early
    <3>4. CASE op'[r] # "create"
      BY <1>1, <2>2, <3>2, <3>4 DEF Knows, Arrival, Exists, Early
    <3> QED BY <3>3, <3>4
  <2> QED BY <2>1, <2>2
<1>5. NamesInv'
  BY <1>1 DEF IInv, NamesInv, Arrival, Live
<1>6. \A c \in Requests : Live(c) => dep'[c] = dep[c]
  BY <1>1 DEF Control, Arrival, Live
<1>7. (NoOrphanContainer /\ RunningNamesTheContainer /\ NothingLoggedAboutTheDead)'
  BY <1>1, <1>6 DEF IInv, NoOrphanContainer, RunningNamesTheContainer, NothingLoggedAboutTheDead,
     Arrival, Live, Exists
<1> QED BY <1>2, <1>3, <1>4, <1>5, <1>7 DEF IInv

\* A restart ends every handler; init_db removes what is logged about rows that
\* are gone.
LEMMA CrashKeepsIInv == ASSUME IInv, Typing', Crash PROVE IInv'
<1>1. /\ Typing /\ TypeOK /\ Control
      /\ UNCHANGED <<record, servers, docker, op, dep, want, seen, host, disturbed>>
      /\ \A r \in Requests : pc'[r] = IF InFlight(r) THEN "done" ELSE pc[r]
      /\ \A e \in notifications' \cup activity' : Exists(e[1])
  BY DEF IInv, Typing, Crash, Locals
<1>2. \A r \in Requests : ~InFlight(r)' /\ pc'[r] \notin AtWork /\ (Unborn(r)' => Unborn(r))
  BY <1>1 DEF InFlight, AtWork, Unborn, Early
<1>3. Fresh' /\ OneHandler' /\ Knowledge' /\ NamesInv'
  BY <1>1, <1>2 DEF IInv, Fresh, OneHandler, Knowledge, NamesInv, Exists, Live
<1>4. (NoOrphanContainer /\ RunningNamesTheContainer /\ NothingLoggedAboutTheDead)'
  BY <1>1 DEF IInv, NoOrphanContainer, RunningNamesTheContainer, NothingLoggedAboutTheDead,
     Live, Exists
<1> QED BY <1>3, <1>4 DEF IInv

LEMMA StutterKeepsIInv == ASSUME IInv, UNCHANGED vars PROVE IInv'
<1> USE DEF vars
<1>1. Typing'
  BY DEF IInv, Typing, TypeOK, Control, LateInv, Live
<1>2. Fresh' /\ OneHandler' /\ NamesInv'
  BY DEF IInv, Fresh, OneHandler, NamesInv, Unborn, Exists, InFlight, Live
<1>3. Knowledge'
  BY DEF IInv, Knowledge, Knows, ContainersIn, Exists, Live
<1>4. (NoOrphanContainer /\ RunningNamesTheContainer /\ NothingLoggedAboutTheDead)'
  BY DEF IInv, NoOrphanContainer, RunningNamesTheContainer, NothingLoggedAboutTheDead, Live, Exists
<1> QED BY <1>1, <1>2, <1>3, <1>4 DEF IInv

LEMMA IInvInit == Init => IInv
<1> SUFFICES ASSUME Init PROVE IInv
  OBVIOUS
<1>1. Typing
  BY TypingInit
<1>2. \A r \in Requests : pc[r] = "idle" /\ dep[r] = NoRequest /\ ~Live(r) /\ ~Exists(r)
  BY DEF Init, Live, Exists
<1>3. notifications \cup activity = {}
  BY DEF Init
<1> QED BY <1>1, <1>2, <1>3 DEF IInv, Fresh, OneHandler, Knowledge, NamesInv, NoOrphanContainer,
           RunningNamesTheContainer, NothingLoggedAboutTheDead, InFlight, AtWork

LEMMA IInvStep == IInv /\ [Next]_vars => IInv'
<1> SUFFICES ASSUME IInv, [Next]_vars PROVE IInv'
  OBVIOUS
<1>1. Typing'
  BY TypingStep DEF IInv
<1>2. ASSUME NEW r \in Requests, Arrive(r) PROVE IInv'
  BY <1>1, <1>2, ArriveKeepsIInv
<1>3. ASSUME NEW r \in Requests, Step(r) PROVE IInv'
  BY <1>1, <1>3, StepKeepsIInv
<1>4. CASE Crash
  BY <1>1, <1>4, CrashKeepsIInv
<1>5. CASE Quiet \/ UNCHANGED vars
  BY <1>5, StutterKeepsIInv DEF Quiet
<1> QED BY <1>2, <1>3, <1>4, <1>5 DEF Next, Step

LEMMA IInvHolds == Spec => []IInv
<1>1. Init => IInv
  BY IInvInit
<1>2. IInv /\ [Next]_vars => IInv'
  BY IInvStep
<1> QED BY <1>1, <1>2, PTL DEF Spec

-----------------------------------------------------------------------------
(* What follows.                                                             *)

\* For any number of requests and under every fault of the model, a container
\* of an undisturbed deployment has a row that names it, on the host it is on.
THEOREM ContainersAreFound == Spec => []NoOrphanContainer
<1>1. IInv => NoOrphanContainer
  BY DEF IInv
<1> QED BY <1>1, IInvHolds, PTL

\* The row has one name and one host, and the daemon gives that name to one
\* container: redeploying never leaves two behind.
THEOREM AtMostOneContainer == Spec => []OneContainerPerDeployment
<1>1. IInv => OneContainerPerDeployment
  BY DEF IInv, NamesInv, NoOrphanContainer, OneContainerPerDeployment
<1> QED BY <1>1, IInvHolds, PTL

\* A running row of an undisturbed deployment names its container.
THEOREM RowNamesContainer == Spec => []RunningNamesTheContainer
<1>1. IInv => RunningNamesTheContainer
  BY DEF IInv
<1> QED BY <1>1, IInvHolds, PTL

\* Notifications and events never outlive an undisturbed deployment.
THEOREM NothingOutlivesItsRow == Spec => []NothingLoggedAboutTheDead
<1>1. IInv => NothingLoggedAboutTheDead
  BY DEF IInv
<1> QED BY <1>1, IInvHolds, PTL
=============================================================================
