---------------------------- MODULE Deployments ----------------------------
(***************************************************************************)
(* The deployment handlers of the backend: create, redeploy and delete     *)
(* (services/deployment_mutations.py), the server handlers they race with  *)
(* (routes/servers.py), the tables they write (db.py) and the container    *)
(* runtime they drive (services/deployments.py).                           *)
(*                                                                         *)
(* FastAPI runs these synchronous handlers in a thread pool, and every     *)
(* function of db.py opens, commits and closes its own connection, so one  *)
(* database call or one docker command is one atomic step and the steps of *)
(* different requests interleave freely: there is no lock and no           *)
(* transaction that spans two calls.                                       *)
(*                                                                         *)
(* A request mints at most one deployment id (uuid4) and starts at most    *)
(* one container, so the request itself names both: record[r] is the row   *)
(* of the deployment that create request r inserted, docker[r] is the      *)
(* container that request r started, and r is also the container name that *)
(* build_container_name derives from the deployment id.                    *)
(***************************************************************************)
EXTENDS Naturals, FiniteSets

CONSTANTS
    Requests,       \* the HTTP requests of a behaviour, each handled once
    Users, Admins,  \* the accounts that send them; Admins have role "admin"
    Names, Ports,   \* the container names and external ports payloads ask for
    Servers,        \* ids of saved server targets
    Hosts,          \* the machines a server row, or Local, may point at
    Local,          \* the local Docker target: a payload without server_id
    MaxDeployments, \* PLAN_LIMITS[plan]["max_deployments"] of every account
    Faults,         \* the faults considered in a run
    NoRow, NoContainer, NoHost, NoName, NoPort, NoRequest

Targets == Servers \cup {Local}

\* "runtime": a command exits non-zero although nothing in its way is modelled:
\*            no docker, no ss, a daemon error.
\* "timeout": a docker command outlives its deadline and raises 504.
\* "late":    such a command was sent over ssh and still runs on the host.
\* "db":      psycopg cannot connect, get_db_connection raises 500.
\* "crash":   the backend process dies and starts again.
FaultKinds == {"runtime", "timeout", "late", "db", "crash"}

ASSUME ConstantsAssumption ==
    /\ Admins \subseteq Users
    /\ Local \notin Servers
    /\ Requests \cap Names = {}
    /\ MaxDeployments \in Nat
    /\ Faults \subseteq FaultKinds
    /\ NoHost \notin Hosts /\ NoPort \notin Ports
    /\ NoName \notin Names \cup Requests /\ NoRequest \notin Requests

ContainerNames == Names \cup Requests
Levels == {"success", "error"}

\* A row of the table deployments, without the image, environment and error.
Row == [status: {"pending", "running", "failed"},
        container: Requests \cup {NoRequest},
        name: ContainerNames, port: Ports \cup {NoPort},
        target: Targets, owner: Users]

\* A container known to the Docker daemon of a host. "up" is FALSE for one
\* that "docker run" created but could not start: it keeps its name only.
Container == [host: Hosts, name: ContainerNames, port: Ports \cup {NoPort},
              up: BOOLEAN]

ASSUME NullsAssumption == NoRow \notin Row /\ NoContainer \notin Container

VARIABLES
    record,         \* table deployments, by deployment id
    servers,        \* table servers: the host each saved target points at
    notifications,  \* table notifications, as (deployment, level)
    activity,       \* table deployment_activity, as (deployment, level)
    docker,         \* the containers on the hosts, by the request that ran them
    late,           \* timed-out commands a remote host may still carry out
    pc, op,         \* control state and kind of each request
    dep,            \* the deployment (or NoRequest) a request works on
    want,           \* the container name, port and target it asks for
    seen,           \* the row a redeploy or delete read when it started
    host,           \* the host of the server row it read
    disturbed       \* history: see below

\* "disturbed" is not part of the program. It collects the deployments that
\* two handlers worked on at the same time, whose server row was edited or
\* deleted under them, or that a command worked on after its deadline.

tables == <<record, servers, notifications, activity>>
Locals == <<op, dep, want, seen, host>>
vars == <<record, servers, notifications, activity, docker, late,
          pc, op, dep, want, seen, host, disturbed>>

Ops == {"none", "create", "redeploy", "delete", "updateServer", "deleteServer"}
PCs == {"idle", "target", "port", "name", "insert", "started", "remove",
        "configure", "pending", "run", "ran", "failed", "notify", "event",
        "notifyFailed", "eventFailed", "deleteRow", "serverWrite", "done"}
Wish == [name: ContainerNames, port: Ports \cup {NoPort}, target: Targets,
         user: Users]

-----------------------------------------------------------------------------
(* Helpers *)

InFlight(r) == pc[r] \notin {"idle", "done"}
Busy(d) == \E r \in Requests : InFlight(r) /\ dep[r] = d
Live(c) == docker[c] # NoContainer
Exists(d) == record[d] # NoRow

\* Containers of host h that hold name n, and that publish port p.
NameTaken(h, n) == \E c \in Requests :
    Live(c) /\ docker[c].host = h /\ docker[c].name = n
PortTaken(h, p) == \E c \in Requests :
    /\ p # NoPort /\ Live(c)
    /\ docker[c].host = h /\ docker[c].port = p /\ docker[c].up

\* get_plan_usage: members count their own rows, admins count all of them.
Usage(u) == Cardinality({d \in Requests :
    Exists(d) /\ (u \in Admins \/ record[d].owner = u)})

\* _get_mutable_user_deployment_or_404: the owner or an admin, and only an
\* admin when the row points at a server.
MayMutate(u, d) ==
    /\ Exists(d)
    /\ u \in Admins \/ (record[d].owner = u /\ record[d].target = Local)

\* Deployments that live on server s or are about to.
OnServer(s) == {d \in Requests :
    \/ Exists(d) /\ record[d].target = s
    \/ \E r \in Requests : InFlight(r) /\ dep[r] = d /\ want[r].target = s}

Goto(r, l) == pc' = [pc EXCEPT ![r] = l]

\* UPDATE deployments ... WHERE id = d: nothing happens to a row that is gone.
UpdateRow(d, row) ==
    record' = IF Exists(d) THEN [record EXCEPT ![d] = row] ELSE record

\* What is left on the hosts when h has carried out "docker rm -f n".
Without(h, n) == [c \in Requests |->
    IF Live(c) /\ docker[c].host = h /\ docker[c].name = n
    THEN NoContainer ELSE docker[c]]

\* The container that "docker run" makes for request r.
Made(r, isUp) ==
    [docker EXCEPT ![r] = [host |-> host[r], name |-> want[r].name,
                           port |-> want[r].port, up |-> isUp]]

\* The possible effects of "docker run" for r on the containers: it starts one,
\* or creates one it cannot start, or has no effect.
RunStarts(r) ==
    /\ ~NameTaken(host[r], want[r].name) /\ ~PortTaken(host[r], want[r].port)
    /\ docker' = Made(r, TRUE)
RunStopsShort(r) ==
    \/ ~NameTaken(host[r], want[r].name) /\ docker' = Made(r, FALSE)
    \/ UNCHANGED docker

\* Variant: an absent name is used as if it were one.
NameAsGiven(n, r) == n

build_container_name(n, r) == IF n = NoName THEN r ELSE n

-----------------------------------------------------------------------------
(* Requests arrive. *)

Begin(r, kind, d, w) ==
    /\ pc[r] = "idle"
    /\ op' = [op EXCEPT ![r] = kind]
    /\ dep' = [dep EXCEPT ![r] = d]
    /\ want' = [want EXCEPT ![r] = w]
    /\ UNCHANGED <<tables, docker, late>>

\* POST /deployments, up to enforce_plan_limit.
CreateDeployment(r, u, n, p, t) ==
    /\ Usage(u) < MaxDeployments
    /\ Begin(r, "create", r, [name |-> build_container_name(n, r),
                              port |-> p, target |-> t, user |-> u])
    /\ Goto(r, "target")
    /\ UNCHANGED <<seen, host, disturbed>>

\* Redeploy and delete first read the row they are about to change.
BeginOn(r, kind, d, w) ==
    /\ Begin(r, kind, d, w)
    /\ seen' = [seen EXCEPT ![r] = record[d]]
    /\ disturbed' = IF Busy(d) THEN disturbed \cup {d} ELSE disturbed
    /\ Goto(r, "target")
    /\ UNCHANGED host

\* POST /deployments/{id}/redeploy, up to the read of the row.
RedeployDeployment(r, u, d, n, p) ==
    /\ MayMutate(u, d)
    /\ BeginOn(r, "redeploy", d,
               [name |-> IF n = NoName THEN record[d].name ELSE n,
                port |-> p, target |-> record[d].target, user |-> u])

\* DELETE /deployments/{id}, up to the read of the row.
DeleteDeployment(r, u, d) ==
    /\ MayMutate(u, d)
    /\ BeginOn(r, "delete", d,
               [name |-> record[d].name, port |-> record[d].port,
                target |-> record[d].target, user |-> u])

BeginServer(r, kind, u, s) ==
    /\ u \in Admins /\ servers[s] # NoHost
    /\ Begin(r, kind, NoRequest,
             [name |-> r, port |-> NoPort, target |-> s, user |-> u])
    /\ Goto(r, "serverWrite")
    /\ UNCHANGED <<seen, disturbed>>

\* PATCH /servers/{id}, up to the read of the row; the payload names a host.
UpdateServer(r, u, s, h) ==
    /\ BeginServer(r, "updateServer", u, s)
    /\ host' = [host EXCEPT ![r] = h]

\* DELETE /servers/{id}, up to count_deployments_for_server.
DeleteServer(r, u, s) ==
    /\ \A d \in Requests : Exists(d) => record[d].target # s
    /\ BeginServer(r, "deleteServer", u, s)
    /\ UNCHANGED host

-----------------------------------------------------------------------------
(* The handlers go on: first the checks, none of which changes a table. *)

\* Variant: the target of the row is ignored, every container runs locally.
GetLocalTarget(r) ==
    /\ pc[r] = "target"
    /\ host' = [host EXCEPT ![r] = servers[Local]]
    /\ Goto(r, IF servers[Local] = NoHost THEN "done"
               ELSE IF op[r] = "delete" THEN "started" ELSE "port")
    /\ UNCHANGED <<tables, docker, late, op, dep, want, seen, disturbed>>

\* get_server_or_404, the access rules for targets, ensure_docker_is_available.
GetTarget(r) ==
    LET t == want[r].target
        allowed == op[r] = "create" => t = Local \/ want[r].user \in Admins
    IN  /\ pc[r] = "target"
        /\ \/ /\ servers[t] # NoHost /\ allowed
              /\ host' = [host EXCEPT ![r] = servers[t]]
              /\ Goto(r, IF op[r] = "delete" THEN "started" ELSE "port")
           \/ /\ servers[t] = NoHost \/ ~allowed
                 \/ Faults \cap {"runtime", "timeout"} # {}
              /\ Goto(r, "done")
              /\ UNCHANGED host
        /\ UNCHANGED <<tables, docker, late, op, dep, want, seen, disturbed>>

\* ensure_external_port_is_available: an unusable ss counts as "free".
CheckPort(r) ==
    LET asks == /\ want[r].port # NoPort
                /\ op[r] = "redeploy" => want[r].port # seen[r].port
        taken == PortTaken(host[r], want[r].port)
    IN  /\ pc[r] = "port"
        /\ \/ (asks => ~taken \/ "runtime" \in Faults) /\ Goto(r, "name")
           \/ asks /\ (taken \/ "timeout" \in Faults) /\ Goto(r, "done")
        /\ UNCHANGED <<tables, docker, late, op, dep, want, seen, host, disturbed>>

\* ensure_container_name_is_available: any failure of inspect counts as "free".
CheckName(r) ==
    LET asks == op[r] = "redeploy" => want[r].name # seen[r].name
        taken == NameTaken(host[r], want[r].name)
    IN  /\ pc[r] = "name"
        /\ \/ /\ asks => ~taken \/ "runtime" \in Faults
              /\ Goto(r, IF op[r] = "create" THEN "insert" ELSE "started")
           \/ asks /\ (taken \/ "timeout" \in Faults) /\ Goto(r, "done")
        /\ UNCHANGED <<tables, docker, late, op, dep, want, seen, host, disturbed>>

-----------------------------------------------------------------------------
(* Then the writes and the commands, each a step of its own. *)

\* insert_deployment_record
InsertRecord(r) ==
    /\ pc[r] = "insert"
    /\ record' = [record EXCEPT ![dep[r]] =
          [status |-> "pending", container |-> NoRequest, name |-> want[r].name,
           port |-> want[r].port, target |-> want[r].target, owner |-> want[r].user]]
    /\ Goto(r, "started")
    /\ UNCHANGED <<servers, notifications, activity, docker, late, Locals, disturbed>>

\* create_activity_event: "... started"
LogStart(r) ==
    /\ pc[r] = "started"
    /\ activity' = activity \cup {<<dep[r], "success">>}
    /\ Goto(r, IF op[r] = "create" THEN "run" ELSE "remove")
    /\ UNCHANGED <<record, servers, notifications, docker, late, Locals, disturbed>>

\* Variant: removes the container by its new name.
RemoveContainerByNewName(r) ==
    /\ pc[r] = "remove"
    /\ docker' = Without(host[r], want[r].name)
    /\ Goto(r, IF op[r] = "redeploy" THEN "configure" ELSE "notify")
    /\ UNCHANGED <<tables, late, Locals, disturbed>>

\* remove_container_if_exists succeeds; "No such container" is a success.
RemoveContainer(r) ==
    /\ pc[r] = "remove"
    /\ docker' = Without(host[r], seen[r].name)
    /\ Goto(r, IF op[r] = "redeploy" THEN "configure" ELSE "notify")
    /\ UNCHANGED <<tables, late, Locals, disturbed>>

\* Its HTTPException is caught: redeploy records the failure, delete does not.
\* After a timeout the daemon may have removed the container all the same.
RemoveFails(r) ==
    /\ pc[r] = "remove"
    /\ \/ Faults \cap {"runtime", "timeout"} # {} /\ UNCHANGED <<docker, late, disturbed>>
       \/ /\ "timeout" \in Faults /\ docker' = Without(host[r], seen[r].name)
          /\ UNCHANGED <<late, disturbed>>
       \/ /\ "late" \in Faults /\ late' = late \cup {<<r, "remove">>}
          /\ disturbed' = disturbed \cup {dep[r]} /\ UNCHANGED docker
    /\ Goto(r, IF op[r] = "redeploy" THEN "failed" ELSE "notifyFailed")
    /\ UNCHANGED <<tables, Locals>>

\* Variant: forgets the new name.
ConfigurePortOnly(r) ==
    /\ pc[r] = "configure"
    /\ UpdateRow(dep[r], [record[dep[r]] EXCEPT !.port = want[r].port])
    /\ Goto(r, "pending")
    /\ UNCHANGED <<servers, notifications, activity, docker, late, Locals, disturbed>>

\* update_deployment_configuration
Configure(r) ==
    /\ pc[r] = "configure"
    /\ UpdateRow(dep[r], [record[dep[r]] EXCEPT !.name = want[r].name, !.port = want[r].port])
    /\ Goto(r, "pending")
    /\ UNCHANGED <<servers, notifications, activity, docker, late, Locals, disturbed>>

\* The three uses of update_deployment_record.
SetStatus(r, status, container) ==
    /\ UpdateRow(dep[r], [record[dep[r]] EXCEPT !.status = status, !.container = container])
    /\ UNCHANGED <<servers, notifications, activity, docker, late, Locals, disturbed>>

\* Variant: redeploy leaves status and container_id as they were.
SkipPending(r) ==
    /\ pc[r] = "pending" /\ Goto(r, "run")
    /\ UNCHANGED <<tables, docker, late, Locals, disturbed>>

MarkPending(r) ==
    /\ pc[r] = "pending"
    /\ SetStatus(r, "pending", NoRequest) /\ Goto(r, "run")

MarkRunning(r) ==
    /\ pc[r] = "ran"
    /\ SetStatus(r, "running", r) /\ Goto(r, "notify")

\* Variant: writes the level of the notification where the status belongs.
MarkError(r) ==
    /\ pc[r] = "failed"
    /\ SetStatus(r, "error", NoRequest) /\ Goto(r, "notifyFailed")

MarkFailed(r) ==
    /\ pc[r] = "failed"
    /\ SetStatus(r, "failed", NoRequest) /\ Goto(r, "notifyFailed")

\* Variants: the return code is not looked at; a failure is only notified.
RunContainerUnchecked(r) ==
    /\ pc[r] = "run"
    /\ RunStarts(r) \/ RunStopsShort(r)
    /\ Goto(r, "ran")
    /\ UNCHANGED <<tables, late, Locals, disturbed>>

RunContainerNotRecorded(r) ==
    /\ pc[r] = "run"
    /\ \/ RunStarts(r) /\ Goto(r, "ran")
       \/ RunStopsShort(r) /\ Goto(r, "notifyFailed")
    /\ UNCHANGED <<tables, late, Locals, disturbed>>

\* run_container returns with code 0, or with another one: a name or a port
\* that is taken, an image that cannot be pulled or started.
RunContainer(r) ==
    /\ pc[r] = "run"
    /\ \/ RunStarts(r) /\ Goto(r, "ran")
       \/ RunStopsShort(r) /\ Goto(r, "failed")
    /\ UNCHANGED <<tables, late, Locals, disturbed>>

\* run_container raises 504: nobody catches it, the row stays "pending".
RunTimesOut(r) ==
    /\ pc[r] = "run"
    /\ \/ /\ "timeout" \in Faults /\ (RunStarts(r) \/ RunStopsShort(r))
          /\ UNCHANGED <<late, disturbed>>
       \/ /\ "late" \in Faults /\ late' = late \cup {<<r, "run">>}
          /\ disturbed' = disturbed \cup {dep[r]} /\ UNCHANGED docker
    /\ Goto(r, "done")
    /\ UNCHANGED <<tables, Locals>>

\* create_notification, with the outcome.
Notify(r) ==
    /\ \/ /\ pc[r] = "notify" /\ Goto(r, "event")
          /\ notifications' = notifications \cup {<<dep[r], "success">>}
       \/ /\ pc[r] = "notifyFailed" /\ Goto(r, "eventFailed")
          /\ notifications' = notifications \cup {<<dep[r], "error">>}
    /\ UNCHANGED <<record, servers, activity, docker, late, Locals, disturbed>>

\* create_activity_event, with the outcome. The final read of create and
\* redeploy only shapes the answer.
LogOutcome(r) ==
    /\ \/ /\ pc[r] = "event" /\ Goto(r, IF op[r] = "delete" THEN "deleteRow" ELSE "done")
          /\ activity' = activity \cup {<<dep[r], "success">>}
       \/ /\ pc[r] = "eventFailed" /\ Goto(r, "done")
          /\ activity' = activity \cup {<<dep[r], "error">>}
    /\ UNCHANGED <<record, servers, notifications, docker, late, Locals, disturbed>>

\* Variant: the activity events stay.
DeleteRecordOnly(r) ==
    /\ pc[r] = "deleteRow"
    /\ record' = [record EXCEPT ![dep[r]] = NoRow]
    /\ notifications' = {e \in notifications : e[1] # dep[r]}
    /\ Goto(r, "done")
    /\ UNCHANGED <<servers, activity, docker, late, Locals, disturbed>>

\* delete_deployment_record: the row and all that is logged about it, in one
\* transaction.
DeleteRecord(r) ==
    /\ pc[r] = "deleteRow"
    /\ record' = [record EXCEPT ![dep[r]] = NoRow]
    /\ notifications' = {e \in notifications : e[1] # dep[r]}
    /\ activity' = {e \in activity : e[1] # dep[r]}
    /\ Goto(r, "done")
    /\ UNCHANGED <<servers, docker, late, Locals, disturbed>>

\* update_server_record and delete_server_record.
WriteServer(r) ==
    LET s == want[r].target
        row == IF op[r] = "updateServer" /\ servers[s] # NoHost THEN host[r] ELSE NoHost
    IN  /\ pc[r] = "serverWrite"
        /\ servers' = [servers EXCEPT ![s] = row]
        /\ disturbed' = IF row = servers[s] THEN disturbed ELSE disturbed \cup OnServer(s)
        /\ Goto(r, "done")
        /\ UNCHANGED <<record, notifications, activity, docker, late, Locals>>

-----------------------------------------------------------------------------
(* Faults. *)

\* A database call of the handler raises: nobody catches it.
LoseDatabase(r) ==
    /\ "db" \in Faults
    /\ InFlight(r) /\ pc[r] \notin {"port", "name", "remove", "run"}
    /\ Goto(r, "done")
    /\ UNCHANGED <<tables, docker, late, Locals, disturbed>>

\* A command that was given up for late is carried out, or dies on the host.
LateCommand(r) ==
    /\ \E kind \in {"run", "remove"} :
          /\ <<r, kind>> \in late
          /\ late' = late \ {<<r, kind>>}
          /\ \/ kind = "run" /\ (RunStarts(r) \/ RunStopsShort(r))
             \/ kind = "remove" /\ docker' = Without(host[r], seen[r].name)
             \/ UNCHANGED docker
    /\ UNCHANGED <<tables, pc, Locals, disturbed>>

\* The process dies, with every handler in it, and starts again: init_db runs
\* _cleanup_orphaned_runtime_records.
Crash ==
    /\ "crash" \in Faults
    /\ \E r \in Requests : InFlight(r)
    /\ pc' = [r \in Requests |-> IF InFlight(r) THEN "done" ELSE pc[r]]
    /\ notifications' = {e \in notifications : Exists(e[1])}
    /\ activity' = {e \in activity : Exists(e[1])}
    /\ UNCHANGED <<record, servers, docker, late, Locals, disturbed>>

-----------------------------------------------------------------------------
(* The specification. *)

Init ==
    /\ record = [d \in Requests |-> NoRow]
    /\ servers \in [Targets -> Hosts \cup {NoHost}]
    /\ notifications = {} /\ activity = {}
    /\ docker = [c \in Requests |-> NoContainer]
    /\ late = {}
    /\ pc = [r \in Requests |-> "idle"]
    /\ op = [r \in Requests |-> "none"]
    /\ dep = [r \in Requests |-> NoRequest]
    /\ want = [r \in Requests |-> NoRow]
    /\ seen = [r \in Requests |-> NoRow]
    /\ host = [r \in Requests |-> NoHost]
    /\ disturbed = {}

Arrive(r) ==
    \/ \E u \in Users, n \in Names \cup {NoName}, p \in Ports \cup {NoPort}, t \in Targets :
          CreateDeployment(r, u, n, p, t)
    \/ \E u \in Users, d \in Requests, n \in Names \cup {NoName}, p \in Ports \cup {NoPort} :
          RedeployDeployment(r, u, d, n, p)
    \/ \E u \in Users, d \in Requests : DeleteDeployment(r, u, d)
    \/ \E u \in Users, s \in Servers, h \in Hosts : UpdateServer(r, u, s, h)
    \/ \E u \in Users, s \in Servers : DeleteServer(r, u, s)

\* One more step of the thread that handles r.
Proceed(r) ==
    \/ GetTarget(r) \/ CheckPort(r) \/ CheckName(r) \/ InsertRecord(r)
    \/ LogStart(r) \/ RemoveContainer(r) \/ RemoveFails(r) \/ Configure(r)
    \/ MarkPending(r) \/ RunContainer(r) \/ RunTimesOut(r) \/ MarkRunning(r)
    \/ MarkFailed(r) \/ Notify(r) \/ LogOutcome(r) \/ DeleteRecord(r)
    \/ WriteServer(r)

\* Nothing is in flight: the backend may wait forever.
Quiet == (\A r \in Requests : ~InFlight(r)) /\ UNCHANGED vars

Next ==
    \/ \E r \in Requests : Arrive(r) \/ Proceed(r) \/ LoseDatabase(r) \/ LateCommand(r)
    \/ Crash
    \/ Quiet

Spec == Init /\ [][Next]_vars

\* The thread pool runs every handler it has started; clients, hosts and
\* faults owe nothing.
FairSpec == Spec /\ \A r \in Requests : WF_vars(Proceed(r))

-----------------------------------------------------------------------------
(* Properties. *)

TypeOK ==
    /\ record \in [Requests -> Row \cup {NoRow}]
    /\ servers \in [Targets -> Hosts \cup {NoHost}]
    /\ notifications \subseteq Requests \X Levels
    /\ activity \subseteq Requests \X Levels
    /\ docker \in [Requests -> Container \cup {NoContainer}]
    /\ late \subseteq Requests \X {"run", "remove"}
    /\ pc \in [Requests -> PCs]
    /\ op \in [Requests -> Ops]
    /\ dep \in [Requests -> Requests \cup {NoRequest}]
    /\ want \in [Requests -> Wish \cup {NoRow}]
    /\ seen \in [Requests -> Row \cup {NoRow}]
    /\ host \in [Requests -> Hosts \cup {NoHost}]
    /\ disturbed \subseteq Requests

\* A container can always be found again through its deployment: as long as
\* handlers of one deployment do not overlap, its server row is left alone and
\* no command outlives its deadline, every container on a host belongs to a row
\* that still exists and that names it and its host, so that a later redeploy
\* or delete removes it. Failed, timed-out and crashed handlers included.
NoOrphanContainer == \A c \in Requests :
    Live(c) /\ dep[c] \notin disturbed =>
        /\ Exists(dep[c])
        /\ record[dep[c]].name = docker[c].name
        /\ servers[record[dep[c]].target] = docker[c].host

\* Under the same conditions a deployment never has two containers: redeploy
\* removes the old one, whatever happened to earlier handlers, before it runs
\* the new one.
OneContainerPerDeployment == \A c1, c2 \in Requests :
    Live(c1) /\ Live(c2) /\ dep[c1] = dep[c2] /\ dep[c1] \notin disturbed => c1 = c2

\* A row that says "running" names, with container_id, the only container its
\* deployment can have: no handler, however it ended, leaves an older or a
\* newer container behind the one the row shows.
RunningNamesTheContainer == \A d \in Requests :
    Exists(d) /\ d \notin disturbed /\ record[d].status = "running" =>
        \A c \in Requests : Live(c) /\ dep[c] = d => record[d].container = c

\* What is logged about a deployment goes with its row: a notification or an
\* activity event never outlives the deployment that it is about.
NothingLoggedAboutTheDead == \A e \in notifications \cup activity :
    e[1] \notin disturbed => Exists(e[1])

\* As long as names are generated, commands end in time and the database and
\* the process live, when no handler is busy with it, a "running" row is backed
\* by a container that runs, where and under the name and port the row says.
RunningIsBacked == \A d \in Requests :
    Exists(d) /\ d \notin disturbed /\ ~Busy(d) /\ record[d].status = "running" =>
        docker[record[d].container] =
            [host |-> servers[record[d].target], name |-> record[d].name,
             port |-> record[d].port, up |-> TRUE]

\* A handler removes no container but those of the deployment it works on.
RemovesOnlyItsOwn == [][\A c \in Requests : Live(c) /\ docker'[c] = NoContainer =>
    \E r \in Requests : dep[r] = dep[c] /\ pc[r] = "remove" /\ pc'[r] # "remove"]_vars

\* A row points at the local target or at a saved server.
NoDanglingServer == \A d \in Requests :
    Exists(d) => record[d].target = Local \/ servers[record[d].target] # NoHost

\* What a client sees of deployment d, and what its host has.
PhaseOf(d) ==
    IF d \in disturbed THEN "disturbed"
    ELSE IF Exists(d) THEN record[d].status
    ELSE IF \E r \in Requests : dep[r] = d /\ op[r] # "create" THEN "deleted"
    ELSE "unborn"
ContainerOf(d) ==
    LET mine == {c \in Requests : Live(c) /\ dep[c] = d}
    IN  IF d \in disturbed \/ mine = {} THEN "none"
        ELSE IF Cardinality(mine) > 1 THEN "several"
        ELSE IF \E c \in mine : docker[c].up THEN "up" ELSE "created"

Lifecycle == INSTANCE DeploymentLifecycle WITH
    Deployments <- Requests,
    phase <- [d \in Requests |-> PhaseOf(d)],
    container <- [d \in Requests |-> ContainerOf(d)]

\* The handlers implement the life of a deployment: when names are generated,
\* and whatever fails, a container is started only for a deployment that is
\* "pending" and has none, "running" is written only over a container that is
\* up, and a deletion is final and leaves no container.
ImplementsLifecycle == Lifecycle!Spec

\* Every deployment that is pending is settled in the end: it runs, it failed,
\* or it is gone.
PendingSettles == \A d \in Requests :
    (Exists(d) /\ record[d].status = "pending") ~>
        (~Exists(d) \/ record[d].status # "pending")

=============================================================================
