------------------------------- MODULE Overview -------------------------------
(***************************************************************************)
(* The page a user starts from (app/app/page.js). It loads the user, and   *)
(* then at once the deployments, the servers, and a summary of both that   *)
(* the backend makes ("ops overview"); all of it again every eight seconds *)
(* whether or not the last answers have arrived. From the summary, or from *)
(* the lists while there is none, it derives which of three steps the user *)
(* is to take first: 1 prepare a server, 2 start a deployment, 3 review    *)
(* what runs.                                                              *)
(*                                                                         *)
(* Notifications, templates and the release report are loaded the same way *)
(* and decide nothing; they are left out.                                  *)
(***************************************************************************)
EXTENDS Naturals, SequencesExt, Functions

CONSTANTS
    MaxRefreshes,   \* how many refreshes are under way at a time (a bound)
    MaxTroubles     \* how often the backend changes or a request fails (a bound)

ASSUME OverviewAssumption == MaxRefreshes \in Nat \ {0} /\ MaxTroubles \in Nat

VARIABLES
    local,          \* localDeploymentsEnabled, of the build
    backend,        \* what the backend has, for this user
    currentUser,    \* what the page has loaded: the role of the user,
    deployments,    \* the deployments,
    servers,        \* the number of servers
    opsOverview,    \* and the summary, or NotLoaded
    refreshes,      \* the refreshes under way
    authChecked,    \* whether the page is shown
    left,           \* the user has been sent to the sign-in
    troubles        \* how often something has changed or failed

overviewVars == <<local, backend, currentUser, deployments, servers, opsOverview,
                  refreshes, authChecked, left, troubles>>

\* No deployment, some, or some of which one has failed; no server, or some.
Backends == [role : {"admin", "member"}, deployments : {"none", "some", "failed"},
           servers : {0, 1}, session : BOOLEAN]

NotLoaded == [deployments |-> "none", servers |-> 0, loaded |-> FALSE]
Summary(b) == [deployments |-> b.deployments, servers |-> b.servers, loaded |-> TRUE]

-----------------------------------------------------------------------------
(* What the page derives. *)

\* opsSnapshot: the summary, or one made of the lists.
Snapshot ==
    IF opsOverview.loaded THEN opsOverview
    ELSE [deployments |-> deployments, servers |-> servers, loaded |-> FALSE]

IsAdmin == currentUser = "admin"
HasLive == Snapshot.deployments # "none"

\* buildOverviewPrimaryPath
Reason ==
    IF Snapshot.deployments = "failed" THEN "incident"
    ELSE IF IsAdmin /\ Snapshot.servers = 0 THEN "server-setup"
    ELSE IF ~IsAdmin /\ ~local /\ ~HasLive THEN "admin-target-needed"
    ELSE IF ~HasLive THEN "first-deploy" ELSE "steady-state"

MemberHasLive == ~IsAdmin /\ ~local /\ HasLive
Waiting == Reason \in {"server-setup", "admin-target-needed"}

\* beginnerSteps: which are disabled, and which is the primary one.
Blocked == {s \in {2, 3} : Waiting \/ (s = 2 /\ MemberHasLive) \/ (s = 3 /\ ~HasLive)}

ReviewsFirst ==
    HasLive /\ 3 \notin Blocked /\ (MemberHasLive \/ Reason \in {"incident", "steady-state"})

Primary ==
    {s \in 1..3 : \/ s = 1 /\ Waiting
                  \/ s = 2 /\ ~Waiting /\ ~ReviewsFirst
                  \/ s = 3 /\ ReviewsFirst}

-----------------------------------------------------------------------------
(* Requests. *)

Lists == {"deployments", "servers", "opsOverview"}

\* refreshPage: "of" are the answers on their way, as they will be.
RefreshPage(silent) ==
    refreshes' = Append(refreshes, [silent |-> silent, of |-> [k \in {"user"} |-> backend]])

\* The interval.
Refresh ==
    /\ authChecked /\ Len(refreshes) < MaxRefreshes
    /\ RefreshPage(TRUE)
    /\ UNCHANGED <<local, backend, currentUser, deployments, servers, opsOverview,
                   authChecked, left, troubles>>

\* The page is left: its requests go on, but nobody sees what they bring.
Leave ==
    /\ left' = TRUE /\ authChecked' = FALSE /\ refreshes' = <<>>
    /\ UNCHANGED <<local, backend, currentUser, deployments, servers, opsOverview>>

\* The i-th refresh goes on without the answer k, or is over.
Answered(i, k) ==
    LET rest == Restrict(refreshes[i].of, DOMAIN refreshes[i].of \ {k})
    IN  IF rest = <<>>
        THEN refreshes' = RemoveAt(refreshes, i) /\ authChecked' = TRUE
        ELSE refreshes' = [refreshes EXCEPT ![i].of = rest] /\ UNCHANGED authChecked

\* Variant: the summary is loaded with the page only.
AskedAtFirst(role) == (IF role = "admin" THEN Lists ELSE Lists \ {"servers"})
                          \ {k \in {"opsOverview"} : authChecked}

\* What is loaded for a user; who has no right to see the servers has none.
Asked(role) == IF role = "admin" THEN Lists ELSE Lists \ {"servers"}

\* fetchCurrentUser, and the requests that follow it.
UserArrives(i) ==
    /\ i \in DOMAIN refreshes /\ "user" \in DOMAIN refreshes[i].of
    /\ refreshes[i].of["user"].session
    /\ LET role == refreshes[i].of["user"].role
       IN  /\ currentUser' = role
           /\ servers' = IF role = "admin" THEN servers ELSE 0
           /\ refreshes' = [refreshes EXCEPT ![i].of = [k \in Asked(role) |-> backend]]
    /\ UNCHANGED <<local, backend, deployments, opsOverview, authChecked, left, troubles>>

\* The user cannot be loaded: the first time the page is left; the callback of the
\* interval ends, and the page stays as it is.
UserFails(i) ==
    /\ i \in DOMAIN refreshes /\ "user" \in DOMAIN refreshes[i].of
    /\ \/ ~refreshes[i].of["user"].session /\ UNCHANGED troubles
       \/ troubles < MaxTroubles /\ troubles' = troubles + 1
    /\ IF ~refreshes[i].silent THEN Leave
       ELSE /\ refreshes' = RemoveAt(refreshes, i)
            /\ UNCHANGED <<local, backend, currentUser, deployments, servers, opsOverview,
                           authChecked, left>>

\* loadDeployments, loadServers, loadOpsOverview: what arrives is shown.
ListArrives(i, k) ==
    /\ i \in DOMAIN refreshes /\ k \in Lists \cap DOMAIN refreshes[i].of
    /\ refreshes[i].of[k].session
    /\ LET b == refreshes[i].of[k]
       IN  /\ deployments' = IF k = "deployments" THEN b.deployments ELSE deployments
           /\ servers' = IF k = "servers" THEN b.servers ELSE servers
           /\ opsOverview' = IF k = "opsOverview" THEN Summary(b) ELSE opsOverview
    /\ Answered(i, k)
    /\ UNCHANGED <<local, backend, currentUser, left, troubles>>

\* _collection_or_empty: for the summary, a list that the backend cannot read is empty.
SummaryDegraded(i) ==
    /\ i \in DOMAIN refreshes /\ "opsOverview" \in DOMAIN refreshes[i].of
    /\ refreshes[i].of["opsOverview"].session
    /\ troubles < MaxTroubles /\ troubles' = troubles + 1
    /\ LET b == refreshes[i].of["opsOverview"]
       IN  \E d \in {b.deployments, "none"}, n \in {b.servers, 0} :
             opsOverview' = Summary([b EXCEPT !.deployments = d, !.servers = n])
    /\ Answered(i, "opsOverview")
    /\ UNCHANGED <<local, backend, currentUser, deployments, servers, left>>

\* A failure leaves the page as it is, or, the first time, with nothing.
ListUnknown(i, k) ==
    /\ i \in DOMAIN refreshes /\ k \in Lists \cap DOMAIN refreshes[i].of
    /\ refreshes[i].of[k].session
    /\ troubles < MaxTroubles /\ troubles' = troubles + 1
    /\ LET empties == {k} \ {l \in Lists : refreshes[i].silent}
       IN  /\ deployments' = IF "deployments" \in empties THEN "none" ELSE deployments
           /\ servers' = IF "servers" \in empties THEN 0 ELSE servers
           /\ opsOverview' = IF "opsOverview" \in empties THEN NotLoaded ELSE opsOverview
    /\ Answered(i, k)
    /\ UNCHANGED <<local, backend, currentUser, left>>

\* The session is over: 401.
ListRefused(i, k) ==
    /\ i \in DOMAIN refreshes /\ k \in Lists \cap DOMAIN refreshes[i].of
    /\ ~refreshes[i].of[k].session
    /\ Leave /\ UNCHANGED troubles

\* Others change what the backend has, or the session ends.
BackendChanges ==
    /\ ~left /\ troubles < MaxTroubles /\ troubles' = troubles + 1
    /\ backend' \in {b \in Backends : (~b.session => [b EXCEPT !.session = TRUE] = backend)}
    /\ UNCHANGED <<local, currentUser, deployments, servers, opsOverview, refreshes,
                   authChecked, left>>

OverviewInit ==
    /\ local \in BOOLEAN /\ backend \in {b \in Backends : b.session}
    /\ currentUser = "nobody" /\ deployments = "none" /\ servers = 0 /\ opsOverview = NotLoaded
    /\ refreshes = <<[silent |-> FALSE, of |-> [k \in {"user"} |-> backend]]>>
    /\ authChecked = FALSE /\ left = FALSE /\ troubles = 0

OverviewNext ==
    \/ Refresh \/ BackendChanges
    \/ \E i \in DOMAIN refreshes : UserArrives(i) \/ UserFails(i) \/ SummaryDegraded(i)
    \/ \E i \in DOMAIN refreshes, k \in Lists :
        ListArrives(i, k) \/ ListUnknown(i, k) \/ ListRefused(i, k)

-----------------------------------------------------------------------------
(* Properties. *)

\* What a user is to do first, by what the backend has: look into a failure; then
\* see to a server, if there must be one first; start the first deployment; and then
\* review what runs.
FirstThingToDo(b) ==
    IF b.deployments = "failed" THEN 3
    ELSE IF b.role = "admin" /\ b.servers = 0 THEN 1
    ELSE IF b.deployments = "some" THEN 3
    ELSE IF b.role = "member" /\ ~local THEN 1 ELSE 2

=============================================================================
