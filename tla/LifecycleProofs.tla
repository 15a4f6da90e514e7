-------------------------- MODULE LifecycleProofs --------------------------
(***************************************************************************)
(* What Deployments guarantees when no payload asks for a container name,  *)
(* so that every container bears the name that build_container_name makes  *)
(* of its deployment: handlers keep out of each other's way, a row that    *)
(* says "running" is true, and the life of a deployment is the one that    *)
(* DeploymentLifecycle describes.                                          *)
(***************************************************************************)
EXTENDS DeploymentsProofs, FiniteSetTheorems

(* The inductive invariant, on top of IInv. *)

\* Every name is that of the deployment.
Generated ==
    /\ \A d \in Requests : Exists(d) => record[d].name = d
    /\ \A c \in Requests : Live(c) => docker[c].name = dep[c]
    /\ \A r \in Requests : dep[r] \in Requests =>
          want[r].name = dep[r] /\ (op[r] # "create" => seen[r].name = dep[r])
    /\ \A r \in Requests : <<r, "remove">> \in late => op[r] # "create"

\* The container that handler r starts is the one its row describes.
AsAsked(r) == docker[r] = [host |-> host[r], name |-> want[r].name,
                           port |-> want[r].port, up |-> TRUE]

\* What the only handler of a deployment has prepared.
Prepares(r) ==
    LET row == record[dep[r]]
    IN  /\ (\/ pc[r] \in {"pending", "run", "ran"}
            \/ op[r] = "create" /\ pc[r] = "started") => row.port = want[r].port
        /\ (\/ pc[r] \in {"run", "ran"}
            \/ op[r] = "create" /\ pc[r] = "started") => row.status = "pending"
        /\ pc[r] = "ran" => AsAsked(r)

Preparation == \A r \in Requests :
    pc[r] \in AtWork /\ dep[r] \notin disturbed => Prepares(r)

GInv == IInv /\ Generated /\ Preparation

USE ConstantsAssumption, NullsAssumption DEF Targets

-----------------------------------------------------------------------------
(* Names. *)

LEMMA NamesAreIds == ASSUME Names = {} PROVE ContainerNames = Requests
BY DEF ContainerNames

LEMMA GeneratedInit == Init => Generated
BY DEF Init, Generated, Exists, Live

LEMMA GeneratedArrival ==
    ASSUME Names = {}, Typing, Typing', Generated, NEW r \in Requests, Arrive(r)
    PROVE  Generated'
<1>1. /\ Arrival(r) /\ TypeOK /\ Control /\ TypeOK'
      /\ \A c \in Requests : Live(c) => c # r
  BY ArriveIsArrival DEF Typing, Control, Arrival
<1>2. dep'[r] \in Requests => want'[r].name = dep'[r] /\ (op'[r] # "create" => seen'[r].name = dep'[r])
  <2> USE DEF Begin, TypeOK
  <2>1. ASSUME NEW u \in Users, NEW n \in Names \cup {NoName}, NEW p \in Ports \cup {NoPort},
               NEW t \in Targets, CreateDeployment(r, u, n, p, t)
        PROVE  /\ dep'[r] = r /\ op'[r] = "create" /\ want'[r].name = r
    BY <1>1, <2>1 DEF CreateDeployment, build_container_name
  <2>2. ASSUME NEW u \in Users, NEW d \in Requests, NEW n \in Names \cup {NoName},
               NEW p \in Ports \cup {NoPort}, RedeployDeployment(r, u, d, n, p)
        PROVE  dep'[r] = d /\ want'[r].name = d /\ seen'[r].name = d
    BY <1>1, <2>2 DEF RedeployDeployment, BeginOn, MayMutate, Generated
  <2>3. ASSUME NEW u \in Users, NEW d \in Requests, DeleteDeployment(r, u, d)
        PROVE  dep'[r] = d /\ want'[r].name = d /\ seen'[r].name = d
    BY <1>1, <2>3 DEF DeleteDeployment, BeginOn, MayMutate, Generated
  <2>4. ASSUME NEW u \in Users, NEW s \in Servers, NEW h \in Hosts, UpdateServer(r, u, s, h)
        PROVE  dep'[r] = NoRequest
    BY <1>1, <2>4 DEF UpdateServer, BeginServer
  <2>5. ASSUME NEW u \in Users, NEW s \in Servers, DeleteServer(r, u, s)
        PROVE  dep'[r] = NoRequest
    BY <1>1, <2>5 DEF DeleteServer, BeginServer
  <2> QED BY <2>1, <2>2, <2>3, <2>4, <2>5 DEF Arrive
<1>3. <<r, "remove">> \notin late
  BY <1>1 DEF Typing, LateInv, Arrival
<1>4. (\A d \in Requests : Exists(d) => record[d].name = d)'
  BY <1>1 DEF Generated, Arrival, Exists
<1>5. (\A c \in Requests : Live(c) => docker[c].name = dep[c])'
  BY <1>1 DEF Generated, Arrival, Live
<1>6. (\A q \in Requests : dep[q] \in Requests =>
          want[q].name = dep[q] /\ (op[q] # "create" => seen[q].name = dep[q]))'
  BY <1>1, <1>2 DEF Generated, Arrival
<1>7. (\A q \in Requests : <<q, "remove">> \in late => op[q] # "create")'
  BY <1>1, <1>3 DEF Generated, Arrival
<1> QED BY <1>4, <1>5, <1>6, <1>7 DEF Generated

\* What a step does to the containers: nothing, or it removes those with the
\* name of its deployment, or it makes one.
LEMMA ContainersOfStep ==
    ASSUME Typing, Generated, NEW r \in Requests, Step(r)
    PROVE  \/ UNCHANGED docker
           \/ docker' = Without(host[r], seen[r].name) /\ seen[r].name = dep[r]
           \/ dep[r] \in Requests /\ \E b \in BOOLEAN : docker' = Made(r, b)
<1> USE DEF Typing, Control, AtWork, RunStarts, RunStopsShort
<1>1. CASE RunContainer(r) \/ RunTimesOut(r)
  BY <1>1 DEF RunContainer, RunTimesOut
<1>2. CASE RemoveContainer(r) \/ RemoveFails(r)
  BY <1>2 DEF RemoveContainer, RemoveFails, Generated
<1>3. CASE LateCommand(r)
  <2>1. dep[r] \in Requests
    BY <1>3 DEF LateCommand, LateInv, TypeOK
  <2>2. <<r, "remove">> \in late => seen[r].name = dep[r]
    BY <2>1 DEF Generated
  <2> QED BY <1>3, <2>1, <2>2 DEF LateCommand
<1>4. CASE UNCHANGED docker
  BY <1>4
<1> QED
  BY <1>1, <1>2, <1>3, <1>4 DEF Step, Proceed, LoseDatabase, GetTarget, CheckPort, CheckName,
     InsertRecord, LogStart, Configure, SetStatus, MarkPending, MarkRunning, MarkFailed,
     Notify, LogOutcome, DeleteRecord, WriteServer, tables

\* So no step touches the containers of another deployment.
LEMMA ContainersOfOthers ==
    ASSUME Typing, Generated, NEW r \in Requests, Step(r),
           NEW c \in Requests, dep[c] # dep[r]
    PROVE  docker'[c] = docker[c]
BY ContainersOfStep DEF Generated, Without, Made, Typing, TypeOK

\* The row that a step leaves.
LEMMA NameOfRow ==
    ASSUME Names = {}, Typing, Generated, NEW r \in Requests, Step(r),
           NEW d \in Requests, Exists(d)'
    PROVE  record'[d].name = d
<1>1. Frame(r) /\ TypeOK /\ Control
  BY FrameStep DEF Typing
<1>2. CASE d # dep[r]
  BY <1>1, <1>2 DEF Frame, Generated, Exists
<1>3. CASE d = dep[r]
  <2>1. want[r].name = d
    BY <1>3 DEF Generated
  <2>2. CASE Configure(r)
    <3>1. want[r] \in Wish /\ Exists(d)
      BY <1>1, <1>3, <2>2, ConfigureWrite DEF Control, AtWork, Configure
    <3> QED BY <1>1, <1>3, <2>1, <2>2, <3>1, ConfigureWrite
  <2>3. CASE \E st \in {"pending", "running", "failed"}, c \in Requests \cup {NoRequest} :
               SetStatus(r, st, c)
    BY <1>1, <1>3, <2>3, StatusWrite DEF Generated
  <2>4. CASE InsertRecord(r)
    BY <1>1, <1>3, <2>1, <2>4 DEF InsertRecord, TypeOK
  <2>5. CASE DeleteRecord(r)
    BY <1>1, <1>3, <2>5 DEF DeleteRecord, TypeOK, Exists
  <2>6. CASE UNCHANGED record
    BY <2>6 DEF Generated, Exists
  <2>7. MarkPending(r) \/ MarkRunning(r) \/ MarkFailed(r) =>
          \E st \in {"pending", "running", "failed"}, c \in Requests \cup {NoRequest} :
             SetStatus(r, st, c)
    BY DEF MarkPending, MarkRunning, MarkFailed
  <2> QED
    BY <2>2, <2>3, <2>4, <2>5, <2>6, <2>7 DEF Step, Proceed, LoseDatabase, LateCommand, GetTarget,
       CheckPort, CheckName, LogStart, RemoveContainer, RemoveFails, RunContainer, RunTimesOut,
       Notify, LogOutcome, WriteServer, tables
<1> QED BY <1>2, <1>3

LEMMA GeneratedStep ==
    ASSUME Names = {}, Typing, Generated, NEW r \in Requests, Step(r)
    PROVE  Generated'
<1>1. Frame(r) /\ TypeOK /\ Control
  BY FrameStep DEF Typing
<1>2. (\A d \in Requests : Exists(d) => record[d].name = d)'
  BY NameOfRow
<1>3. (\A c \in Requests : Live(c) => docker[c].name = dep[c])'
  <2>1. CASE UNCHANGED docker
    BY <1>1, <2>1 DEF Generated, Live, Frame
  <2>2. CASE docker' = Without(host[r], seen[r].name)
    BY <1>1, <2>2 DEF Generated, Live, Frame, Without
  <2>3. CASE dep[r] \in Requests /\ \E b \in BOOLEAN : docker' = Made(r, b)
    BY <1>1, <2>3 DEF Generated, Live, Frame, Made, TypeOK
  <2> QED BY <2>1, <2>2, <2>3, ContainersOfStep
<1>4. (\A q \in Requests : dep[q] \in Requests =>
          want[q].name = dep[q] /\ (op[q] # "create" => seen[q].name = dep[q]))'
  BY <1>1 DEF Generated, Frame
<1>5. (\A q \in Requests : <<q, "remove">> \in late => op[q] # "create")'
  <2>1. \A q \in Requests : <<q, "remove">> \in late' =>
          <<q, "remove">> \in late \/ (q = r /\ op[r] # "create")
    <3>1. CASE RemoveFails(r)
      BY <1>1, <3>1 DEF RemoveFails, Control
    <3>2. CASE RunTimesOut(r)
      BY <3>2 DEF RunTimesOut
    <3>3. CASE late' \subseteq late
      BY <3>3
    <3> QED
      BY <3>1, <3>2, <3>3 DEF Step, Proceed, LoseDatabase, LateCommand, GetTarget, CheckPort,
         CheckName, InsertRecord, LogStart, RemoveContainer, Configure, SetStatus, MarkPending,
         RunContainer, MarkRunning, MarkFailed, Notify, LogOutcome, DeleteRecord, WriteServer
  <2> QED BY <1>1, <2>1 DEF Generated, Frame
<1> QED BY <1>2, <1>3, <1>4, <1>5 DEF Generated

-----------------------------------------------------------------------------
(* What handlers prepare. *)

LEMMA PreparationInit == Init => Preparation
BY DEF Init, Preparation, AtWork

LEMMA PreparationArrival ==
    ASSUME Typing, Preparation, NEW r \in Requests, Arrive(r)
    PROVE  Preparation'
<1>1. Arrival(r)
  BY ArriveIsArrival DEF Typing
<1> SUFFICES ASSUME NEW q \in Requests, pc'[q] \in AtWork, dep'[q] \notin disturbed'
             PROVE  Prepares(q)'
  BY DEF Preparation
<1>2. CASE q = r
  BY <1>1, <1>2 DEF Prepares, Arrival
<1>3. CASE q # r
  BY <1>1, <1>3 DEF Prepares, Arrival, Preparation, AsAsked
<1> QED BY <1>2, <1>3

LEMMA PreparationOfOthers ==
    ASSUME IInv, Generated, Preparation, NEW r \in Requests, Step(r),
           NEW q \in Requests \ {r}, pc'[q] \in AtWork, dep'[q] \notin disturbed'
    PROVE  Prepares(q)'
<1>1. Frame(r) /\ Typing
  BY FrameStep DEF IInv
<1>2. pc[q] = pc'[q] /\ dep'[q] = dep[q] /\ dep[q] \in Requests \ disturbed' /\ InFlight(q)
  BY <1>1 DEF Frame, Typing, Control, InFlight, AtWork
<1>3. dep[q] # dep[r]
  BY <1>2, OthersElsewhere
<1>4. record'[dep[q]] = record[dep[q]] /\ docker'[q] = docker[q]
  BY <1>1, <1>2, <1>3, ContainersOfOthers DEF Frame
<1>5. Prepares(q)
  BY <1>1, <1>2 DEF Preparation, Frame
<1> QED BY <1>1, <1>2, <1>4, <1>5 DEF Prepares, Frame, AsAsked

LEMMA PreparationOfOne ==
    ASSUME IInv, Preparation, NEW r \in Requests, Step(r),
           pc'[r] \in AtWork, dep'[r] \in Requests \ disturbed'
    PROVE  Prepares(r)'
<1> DEFINE d == dep[r]
<1>1. /\ Frame(r) /\ Typing /\ TypeOK /\ Control /\ LateInv
      /\ dep'[r] = d /\ d \in Requests \ disturbed
  BY FrameStep DEF IInv, Typing, Frame
<1>2. ~LateCommand(r)
  BY <1>1 DEF LateCommand, LateInv
<1>3. ~LoseDatabase(r)
  BY <1>1 DEF LoseDatabase, Goto, TypeOK, AtWork
<1>4. pc[r] \in AtWork => Knows(r) /\ Prepares(r)
  BY <1>1 DEF IInv, Knowledge, Preparation
<1>5. CASE \/ pc'[r] \notin {"pending", "run", "ran", "started"}
           \/ pc'[r] = "started" /\ op[r] # "create"
  BY <1>1, <1>5 DEF Prepares, Frame
<1>6. CASE InsertRecord(r)
  <2>1. /\ record'[d].port = want[r].port /\ record'[d].status = "pending"
        /\ pc'[r] = "started"
    BY <1>1, <1>6 DEF InsertRecord, TypeOK, Goto
  <2> QED BY <1>1, <2>1 DEF Prepares, Frame
<1>7. CASE LogStart(r)
  BY <1>1, <1>4, <1>7 DEF LogStart, Prepares, Frame, Goto, TypeOK, Locals, AtWork
<1>8. CASE Configure(r)
  <2>1. want[r] \in Wish /\ Exists(d) /\ pc'[r] = "pending" /\ pc[r] = "configure" /\ op[r] # "create"
    BY <1>1, <1>4, <1>8, Known DEF Configure, Control, AtWork, Goto, TypeOK
  <2>2. record'[d].port = want[r].port
    BY <1>1, <1>8, <2>1, ConfigureWrite
  <2> QED BY <1>1, <2>1, <2>2 DEF Prepares, Frame
<1>9. CASE MarkPending(r)
  <2>1. /\ Exists(d) /\ pc'[r] = "run" /\ pc[r] = "pending"
        /\ SetStatus(r, "pending", NoRequest) /\ record[d].port = want[r].port
    BY <1>1, <1>4, <1>9, Known DEF MarkPending, Goto, TypeOK, AtWork, Prepares
  <2>2. record'[d].port = want[r].port /\ record'[d].status = "pending"
    BY <1>1, <2>1, StatusWrite
  <2> QED BY <1>1, <2>1, <2>2 DEF Prepares, Frame
<1>10. CASE RunContainer(r)
  <2>1. pc[r] = "run" /\ UNCHANGED <<record, host>> /\ record[d].port = want[r].port
        /\ record[d].status = "pending"
    BY <1>4, <1>10 DEF RunContainer, AtWork, Prepares, tables, Locals
  <2>2. ASSUME pc'[r] = "ran" PROVE AsAsked(r)'
    <3>1. docker' = Made(r, TRUE)
      BY <1>1, <1>10, <2>2 DEF RunContainer, RunStarts, Goto, TypeOK
    <3>2. UNCHANGED <<want, host>>
      BY <1>10 DEF RunContainer, Locals
    <3> QED BY <1>1, <3>1, <3>2 DEF Made, AsAsked, TypeOK
  <2> QED BY <1>1, <1>10, <2>1, <2>2 DEF Prepares, Frame, RunContainer, Goto, TypeOK
<1> QED
  BY <1>1, <1>2, <1>3, <1>5, <1>6, <1>7, <1>8, <1>9, <1>10 DEF Step, Proceed, GetTarget, CheckPort,
     CheckName, RemoveContainer, RemoveFails, RunTimesOut, MarkRunning, MarkFailed,
     Notify, LogOutcome, DeleteRecord, WriteServer, Goto, TypeOK

\* A restart leaves nobody at work.
LEMMA CrashKeepsGenerated == Generated /\ Crash => Generated' /\ Preparation'
<1> SUFFICES ASSUME Generated, Crash PROVE Generated' /\ Preparation'
  OBVIOUS
<1>1. UNCHANGED <<record, docker, late, op, dep, want, seen, host>>
  BY DEF Crash, Locals
<1>2. \A r \in Requests : pc'[r] \notin AtWork
  BY DEF Crash, InFlight, AtWork
<1>3. Generated'
  BY <1>1 DEF Generated, Exists, Live
<1> QED BY <1>2, <1>3 DEF Preparation

LEMMA GInvInit == Init => GInv
BY IInvInit, GeneratedInit, PreparationInit DEF GInv

LEMMA GInvStep == ASSUME Names = {} PROVE GInv /\ [Next]_vars => GInv'
<1> SUFFICES ASSUME GInv, [Next]_vars PROVE GInv'
  OBVIOUS
<1>1. IInv /\ IInv' /\ Typing /\ Typing' /\ Generated /\ Preparation
  BY IInvStep DEF GInv, IInv
<1>2. ASSUME NEW r \in Requests, Arrive(r) PROVE Generated' /\ Preparation'
  BY <1>1, <1>2, GeneratedArrival, PreparationArrival
<1>3. ASSUME NEW r \in Requests, Step(r) PROVE Generated' /\ Preparation'
  <2>1. Generated'
    BY <1>1, <1>3, GeneratedStep
  <2>2. \A q \in Requests : pc'[q] \in AtWork => dep'[q] \in Requests
    BY <1>1 DEF Typing, Control
  <2>3. Preparation'
    BY <1>1, <1>3, <2>2, PreparationOfOne, PreparationOfOthers DEF Preparation
  <2> QED BY <2>1, <2>3
<1>4. ASSUME Crash PROVE Generated' /\ Preparation'
  BY <1>1, <1>4, CrashKeepsGenerated
<1>5. ASSUME Quiet \/ UNCHANGED vars PROVE Generated' /\ Preparation'
  BY <1>1, <1>5 DEF Quiet, vars, Generated, Preparation, Prepares, AsAsked, Exists, Live
<1>6. Generated' /\ Preparation'
  BY <1>2, <1>3, <1>4, <1>5 DEF Next, Step
<1> QED BY <1>1, <1>6 DEF GInv

\* A handler removes the containers of its own deployment, and no others, when
\* names are generated and no command outlives its deadline.
THEOREM HandlersKeepApart ==
    ASSUME Names = {}, "late" \notin Faults
    PROVE  Spec => RemovesOnlyItsOwn
<1> DEFINE Kept == \A c \in Requests : Live(c) /\ docker'[c] = NoContainer =>
              \E r \in Requests : dep[r] = dep[c] /\ pc[r] = "remove" /\ pc'[r] # "remove"
           NoLate == late = {}
<1>1. Init => GInv /\ NoLate
  BY GInvInit DEF Init
<1>2. GInv /\ NoLate /\ [Next]_vars => GInv' /\ NoLate'
  <2>1. GInv /\ [Next]_vars => GInv'
    BY GInvStep
  <2> SUFFICES ASSUME GInv, NoLate, [Next]_vars PROVE NoLate'
    BY <2>1
  <2>2. TypeOK /\ late = {}
    BY DEF GInv, IInv, Typing
  <2>3. ASSUME NEW r \in Requests, Arrive(r) PROVE late' = {}
    BY <2>2, <2>3, ArriveIsArrival DEF Arrival
  <2>4. ASSUME NEW r \in Requests, Step(r) PROVE late' = {}
    BY <2>2, <2>4 DEF Step, Proceed, LoseDatabase, LateCommand, GetTarget, CheckPort, CheckName,
       InsertRecord, LogStart, RemoveContainer, RemoveFails, Configure, SetStatus, MarkPending,
       RunContainer, RunTimesOut, MarkRunning, MarkFailed, Notify, LogOutcome, DeleteRecord,
       WriteServer
  <2>5. CASE Crash \/ Quiet \/ UNCHANGED vars
    BY <2>2, <2>5 DEF Crash, Quiet, vars
  <2> QED BY <2>3, <2>4, <2>5 DEF Next, Step
<1>3. GInv /\ NoLate /\ [Next]_vars => [Kept]_vars
  <2> SUFFICES ASSUME GInv, NoLate, Next PROVE Kept
    OBVIOUS
  <2>1. Typing /\ TypeOK /\ Control /\ Generated
    BY DEF GInv, IInv, Typing
  <2>2. ASSUME NEW r \in Requests, Arrive(r) PROVE Kept
    BY <2>1, <2>2, ArriveIsArrival DEF Arrival, Live
  <2>3. ASSUME NEW r \in Requests, Step(r) PROVE Kept
    <3>1. CASE RemoveContainer(r) \/ RemoveFails(r)
      <4>1. pc[r] = "remove" /\ pc'[r] # "remove"
        BY <2>1, <3>1 DEF RemoveContainer, RemoveFails, Goto, TypeOK
      <4> QED BY <2>1, <2>3, <4>1, ContainersOfOthers DEF Live
    <3>2. CASE RunContainer(r) \/ RunTimesOut(r)
      <4>1. UNCHANGED docker \/ \E b \in BOOLEAN : docker' = Made(r, b)
        BY <3>2 DEF RunContainer, RunTimesOut, RunStarts, RunStopsShort
      <4>2. host[r] \in Hosts /\ want[r] \in Wish
        BY <2>1, <3>2 DEF RunContainer, RunTimesOut, Control, AtWork
      <4>3. ASSUME NEW b \in BOOLEAN PROVE [host |-> host[r], name |-> want[r].name,
                                      port |-> want[r].port, up |-> b] \in Container
        BY <4>2 DEF Wish, Container
      <4> QED BY <2>1, <4>1, <4>3 DEF Made, TypeOK, Live
    <3>3. CASE UNCHANGED docker
      BY <3>3 DEF Live
    <3> QED
      BY <2>3, <3>1, <3>2, <3>3 DEF Step, Proceed, LoseDatabase, LateCommand, GetTarget,
         CheckPort, CheckName, InsertRecord, LogStart, Configure, SetStatus, MarkPending,
         MarkRunning, MarkFailed, Notify, LogOutcome, DeleteRecord, WriteServer, tables
  <2>4. CASE Crash \/ Quiet
    BY <2>4 DEF Crash, Quiet, vars, Live
  <2> QED BY <2>2, <2>3, <2>4 DEF Next, Step
<1>4. RemovesOnlyItsOwn <=> [][Kept]_vars
  BY DEF RemovesOnlyItsOwn
<1> HIDE DEF Kept, NoLate
<1> QED BY <1>1, <1>2, <1>3, <1>4, PTL DEF Spec

-----------------------------------------------------------------------------
(* The life of a deployment: what a client sees, and what the hosts have.    *)

Mine(d) == {c \in Requests : Live(c) /\ dep[c] = d}

LEMMA ContainerSeen ==
    ASSUME NEW d \in Requests \ disturbed
    PROVE  /\ Mine(d) = {} => ContainerOf(d) = "none"
           /\ Mine(d) # {} => ContainerOf(d) # "none"
           /\ \A c : Mine(d) = {c} => ContainerOf(d) = IF docker[c].up THEN "up" ELSE "created"
<1>1. /\ Mine(d) = {} => ContainerOf(d) = "none"
      /\ Mine(d) # {} => ContainerOf(d) # "none"
  BY DEF ContainerOf, Mine
<1>2. ASSUME NEW c, Mine(d) = {c}
      PROVE  ContainerOf(d) = IF docker[c].up THEN "up" ELSE "created"
  <2>1. Cardinality(Mine(d)) = 1
    BY <1>2, FS_Singleton
  <2>2. ContainerOf(d) = IF Cardinality(Mine(d)) > 1 THEN "several"
                         ELSE IF \E x \in Mine(d) : docker[x].up THEN "up" ELSE "created"
    BY <1>2 DEF ContainerOf, Mine
  <2> QED BY <1>2, <2>1, <2>2
<1> QED BY <1>1, <1>2

\* A step that a client of undisturbed deployments does not see.
LEMMA Unseen ==
    ASSUME \A d \in Requests \ disturbed' :
              PhaseOf(d)' = PhaseOf(d) /\ ContainerOf(d)' = ContainerOf(d),
           disturbed' \subseteq Requests
    PROVE  Lifecycle!Next
<1>1. \A d \in disturbed' : PhaseOf(d)' = "disturbed"
  BY DEF PhaseOf
<1>2. \A d \in disturbed' : ContainerOf(d)' = "none"
  BY DEF ContainerOf
<1>3. Lifecycle!Disturb(disturbed')
  BY <1>1, <1>2 DEF Lifecycle!Disturb
<1> QED BY <1>3 DEF Lifecycle!Next

\* A step that such a client sees at one deployment.
LEMMA SeenAtOne ==
    ASSUME NEW d \in Requests,
           \A e \in Requests \ {d} : PhaseOf(e)' = PhaseOf(e) /\ ContainerOf(e)' = ContainerOf(e)
    PROVE  /\ ContainerOf(d)' = ContainerOf(d) => \A p : PhaseOf(d)' = p => Lifecycle!To(d, p)
           /\ PhaseOf(d)' = PhaseOf(d) => \A c : ContainerOf(d)' = c => Lifecycle!Put(d, c)
BY DEF Lifecycle!To, Lifecycle!Put

\* What the client sees depends on no more than this.
LEMMA SameSight ==
    ASSUME NEW d \in Requests \ disturbed', disturbed \subseteq disturbed', UNCHANGED <<op, dep>>
    PROVE  /\ record'[d] = record[d] => PhaseOf(d)' = PhaseOf(d)
           /\ (\A c \in Requests : dep[c] = d => docker'[c] = docker[c]) =>
                  ContainerOf(d)' = ContainerOf(d)
<1>1. record'[d] = record[d] => PhaseOf(d)' = PhaseOf(d)
  BY DEF PhaseOf, Exists
<1>2. ASSUME \A c \in Requests : dep[c] = d => docker'[c] = docker[c]
      PROVE  ContainerOf(d)' = ContainerOf(d)
  <2>1. Mine(d)' = Mine(d) /\ \A c \in Mine(d) : docker'[c] = docker[c]
    BY <1>2 DEF Mine, Live
  <2>2. ContainerOf(d) = IF Mine(d) = {} THEN "none"
                         ELSE IF Cardinality(Mine(d)) > 1 THEN "several"
                         ELSE IF \E c \in Mine(d) : docker[c].up THEN "up" ELSE "created"
    BY DEF ContainerOf, Mine
  <2>3. ContainerOf(d)' = IF Mine(d)' = {} THEN "none"
                          ELSE IF Cardinality(Mine(d)') > 1 THEN "several"
                          ELSE IF \E c \in Mine(d)' : docker'[c].up THEN "up" ELSE "created"
    BY DEF ContainerOf, Mine
  <2> QED BY <2>1, <2>2, <2>3
<1> QED BY <1>1, <1>2

LEMMA OthersUnseen ==
    ASSUME GInv, NEW r \in Requests, Step(r), NEW d \in Requests \ disturbed', d # dep[r]
    PROVE  PhaseOf(d)' = PhaseOf(d) /\ ContainerOf(d)' = ContainerOf(d)
<1>1. Frame(r) /\ Typing /\ Generated
  BY FrameStep DEF GInv, IInv
<1>2. record'[d] = record[d] /\ UNCHANGED <<op, dep>> /\ disturbed \subseteq disturbed'
  BY <1>1 DEF Frame
<1>3. \A c \in Requests : dep[c] = d => docker'[c] = docker[c]
  BY <1>1, ContainersOfOthers
<1> QED BY <1>2, <1>3, SameSight

LEMMA LifeBegins == Init => Lifecycle!Init
<1> SUFFICES ASSUME Init PROVE Lifecycle!Init
  OBVIOUS
<1>1. ASSUME NEW d \in Requests PROVE PhaseOf(d) = "unborn" /\ ContainerOf(d) = "none"
  <2>1. Mine(d) = {} /\ d \notin disturbed
    BY DEF Mine, Live, Init
  <2>2. ContainerOf(d) = "none"
    BY <2>1, ContainerSeen
  <2> QED BY <2>1, <2>2, ConstantsAssumption DEF PhaseOf, Init, Exists
<1> QED BY <1>1 DEF Lifecycle!Init

LEMMA ArrivalUnseen ==
    ASSUME Typing, Typing', NEW r \in Requests, Arrive(r)
    PROVE  Lifecycle!Next
<1>1. Arrival(r) /\ TypeOK /\ Control /\ TypeOK' /\ Control'
  BY ArriveIsArrival DEF Typing
<1>2. \A c \in Requests : Live(c) => dep'[c] = dep[c] /\ dep[c] \in Requests
  BY <1>1 DEF Control, Arrival, Live
<1>3. ASSUME NEW d \in Requests \ disturbed'
      PROVE  PhaseOf(d)' = PhaseOf(d) /\ ContainerOf(d)' = ContainerOf(d)
  <2>1. d \notin disturbed /\ record' = record /\ docker' = docker
    BY <1>1 DEF Arrival
  <2>2. ContainerOf(d)' = ContainerOf(d)
    <3>1. Mine(d)' = Mine(d)
      BY <1>1, <1>2, <2>1 DEF Mine, Live, Arrival, Control
    <3>2. ContainerOf(d) = IF Mine(d) = {} THEN "none"
                           ELSE IF Cardinality(Mine(d)) > 1 THEN "several"
                           ELSE IF \E c \in Mine(d) : docker[c].up THEN "up" ELSE "created"
      BY <2>1 DEF ContainerOf, Mine
    <3>3. ContainerOf(d)' = IF Mine(d)' = {} THEN "none"
                            ELSE IF Cardinality(Mine(d)') > 1 THEN "several"
                            ELSE IF \E c \in Mine(d)' : docker'[c].up THEN "up" ELSE "created"
      BY DEF ContainerOf, Mine
    <3> QED BY <2>1, <3>1, <3>2, <3>3
  <2>3. ASSUME ~Exists(d)
        PROVE  (\E q \in Requests : dep[q] = d /\ op[q] # "create")'
                 <=> \E q \in Requests : dep[q] = d /\ op[q] # "create"
    <3>1. ~(dep'[r] = d /\ op'[r] # "create")
      BY <1>1, <2>3 DEF Arrival
    <3>2. dep[r] # d
      BY <1>1 DEF Arrival, Control
    <3> QED BY <1>1, <3>1, <3>2 DEF Arrival
  <2> QED BY <2>1, <2>2, <2>3 DEF PhaseOf, Exists
<1> QED BY <1>1, <1>3, Unseen DEF TypeOK

\* The handler of an undisturbed deployment moves: each of its steps is a step
\* of the life of the deployment, or is not seen.
LEMMA OwnStepsAreSteps ==
    ASSUME GInv, NEW r \in Requests, Step(r), NEW d \in Requests \ disturbed', d = dep[r]
    PROVE  Lifecycle!Next
<1>1. /\ Frame(r) /\ Typing /\ TypeOK /\ Control /\ LateInv /\ Generated
      /\ d \in Requests \ disturbed /\ dep[r] = d /\ dep'[r] = d
  BY FrameStep DEF GInv, IInv, Typing, Frame
<1>2. ~LateCommand(r) /\ ~WriteServer(r)
  BY <1>1 DEF LateCommand, LateInv, WriteServer, Control
<1>3. pc[r] \in AtWork => Knows(r) /\ Prepares(r)
  BY <1>1 DEF GInv, IInv, Knowledge, Preparation
<1>4. disturbed' = disturbed
  BY <1>1, <1>2 DEF Step, Proceed, LoseDatabase, GetTarget, CheckPort, CheckName,
     InsertRecord, LogStart, RemoveContainer, RemoveFails, Configure, SetStatus, MarkPending,
     RunContainer, RunTimesOut, MarkRunning, MarkFailed, Notify, LogOutcome, DeleteRecord
<1>5. \A e \in Requests \ {d} : PhaseOf(e)' = PhaseOf(e) /\ ContainerOf(e)' = ContainerOf(e)
  <2>1. \A e \in disturbed : /\ PhaseOf(e)' = "disturbed" /\ PhaseOf(e) = "disturbed"
                             /\ ContainerOf(e)' = "none" /\ ContainerOf(e) = "none"
    BY <1>4 DEF PhaseOf, ContainerOf
  <2>2. \A e \in Requests \ disturbed' : e # d =>
          PhaseOf(e)' = PhaseOf(e) /\ ContainerOf(e)' = ContainerOf(e)
    BY OthersUnseen
  <2> QED BY <1>4, <2>1, <2>2
<1>6. /\ record'[d] = record[d] => PhaseOf(d)' = PhaseOf(d)
      /\ (\A c \in Requests : dep[c] = d => docker'[c] = docker[c]) =>
             ContainerOf(d)' = ContainerOf(d)
  BY <1>1, <1>4, SameSight DEF Frame
<1>7. /\ Exists(d) => /\ PhaseOf(d) = record[d].status
                      /\ PhaseOf(d) \in {"pending", "running", "failed"}
      /\ Exists(d)' => PhaseOf(d)' = record'[d].status
  <2>1. Exists(d) => PhaseOf(d) = record[d].status
    BY <1>1 DEF PhaseOf
  <2>2. Exists(d)' => PhaseOf(d)' = record'[d].status
    BY <1>1, <1>4 DEF PhaseOf, Exists
  <2>3. Exists(d) => record[d].status \in {"pending", "running", "failed"}
    BY <1>1 DEF TypeOK, Exists, Row
  <2> QED BY <2>1, <2>2, <2>3
<1>8. /\ ContainerOf(d)' = ContainerOf(d) => \A p : PhaseOf(d)' = p => Lifecycle!To(d, p)
      /\ PhaseOf(d)' = PhaseOf(d) => \A c : ContainerOf(d)' = c => Lifecycle!Put(d, c)
  BY <1>1, <1>5, SeenAtOne
<1>9. ASSUME PhaseOf(d)' = PhaseOf(d), ContainerOf(d)' = ContainerOf(d) PROVE Lifecycle!Next
  <2>1. \A e \in Requests \ disturbed' : PhaseOf(e)' = PhaseOf(e) /\ ContainerOf(e)' = ContainerOf(e)
    BY <1>5, <1>9
  <2>2. disturbed' \subseteq Requests
    BY <1>1, <1>4 DEF TypeOK
  <2> QED BY <2>1, <2>2, Unseen
<1>10. /\ Mine(d) = {} => ContainerOf(d) = "none"
       /\ Mine(d) # {} => ContainerOf(d) # "none"
       /\ \A c : Mine(d) = {c} => ContainerOf(d) = IF docker[c].up THEN "up" ELSE "created"
  BY <1>1, ContainerSeen
<1>11. /\ Mine(d)' = {} => ContainerOf(d)' = "none"
       /\ \A c : Mine(d)' = {c} => ContainerOf(d)' = IF docker'[c].up THEN "up" ELSE "created"
  <2>1. (d \in Requests \ disturbed)'
    BY <1>1, <1>4
  <2>2. /\ (Mine(d) = {} => ContainerOf(d) = "none")'
        /\ (\A c : Mine(d) = {c} => ContainerOf(d) = IF docker[c].up THEN "up" ELSE "created")'
    BY <2>1, ContainerSeen, PTL
  <2> QED BY <2>2
<1>12. CASE InsertRecord(r)
  <2>1. Unborn(d) /\ dep[r] = r /\ pc[r] \in AtWork \cap Early /\ op[r] = "create"
    BY <1>1, <1>12 DEF InsertRecord, Control, Unborn, Early, AtWork
  <2>2. PhaseOf(d) = "unborn"
    BY <1>1, <2>1 DEF GInv, IInv, Fresh, PhaseOf
  <2>3. Mine(d) = {}
    BY <1>3, <2>1 DEF Knows, ContainersIn, Mine
  <2>4. PhaseOf(d)' = "pending"
    <3>1. record'[d].status = "pending" /\ record'[d] \in Row
      BY <1>1, <1>12, <2>1 DEF InsertRecord, TypeOK, Control, Wish, Row
    <3> QED BY <1>7, <3>1 DEF Exists
  <2>5. ContainerOf(d)' = ContainerOf(d)
    BY <1>6, <1>12 DEF InsertRecord
  <2>6. Lifecycle!Create(d)
    BY <1>8, <1>10, <2>2, <2>3, <2>4, <2>5 DEF Lifecycle!Create
  <2> QED BY <1>1, <2>6 DEF Lifecycle!Next
<1>13. CASE RemoveContainer(r) \/ RemoveFails(r)
  <2>1. record' = record /\ pc[r] = "remove" /\ op[r] # "create" /\ pc[r] \in AtWork
    BY <1>1, <1>13 DEF RemoveContainer, RemoveFails, Control, tables, AtWork
  <2>2. CASE UNCHANGED docker
    BY <1>6, <1>9, <2>1, <2>2
  <2>3. CASE docker' = Without(host[r], seen[r].name)
    <3>1. /\ Exists(d) /\ servers[record[d].target] = host[r] /\ seen[r].name = record[d].name
      BY <1>3, <2>1 DEF Knows
    <3>2. \A c \in Requests : Live(c) /\ dep[c] = d =>
             docker[c].host = host[r] /\ docker[c].name = seen[r].name
      BY <1>1, <3>1 DEF GInv, IInv, NoOrphanContainer
    <3>3. Mine(d)' = {}
      BY <1>1, <2>3, <3>2 DEF Mine, Live, Without, Frame
    <3>4. CASE Mine(d) = {}
      BY <1>6, <1>9, <1>10, <1>11, <2>1, <3>3, <3>4
    <3>5. CASE Mine(d) # {}
      <4>1. Lifecycle!Remove(d)
        BY <1>6, <1>7, <1>8, <1>10, <1>11, <2>1, <3>1, <3>3, <3>5
           DEF Lifecycle!Remove, Lifecycle!Alive
      <4> QED BY <1>1, <4>1 DEF Lifecycle!Next
    <3> QED BY <3>4, <3>5
  <2>4. \/ UNCHANGED docker \/ docker' = Without(host[r], seen[r].name)
    BY <1>13 DEF RemoveContainer, RemoveFails
  <2> QED BY <2>2, <2>3, <2>4
<1>14. CASE Configure(r)
  <2>1. pc[r] = "configure" /\ want[r] \in Wish /\ pc[r] \in AtWork /\ UNCHANGED docker
    BY <1>1, <1>14 DEF Configure, Control, AtWork
  <2>2. Exists(d)
    BY <1>1, <1>3, <2>1, Known
  <2>3. Exists(d)' /\ record'[d].status = record[d].status
    BY <1>1, <1>14, <2>1, <2>2, ConfigureWrite
  <2> QED BY <1>6, <1>7, <1>9, <2>1, <2>2, <2>3
<1>15. CASE MarkPending(r) \/ MarkRunning(r) \/ MarkFailed(r)
  <2>1. pc[r] \in {"pending", "ran", "failed"} /\ pc[r] \in AtWork
    BY <1>15 DEF MarkPending, MarkRunning, MarkFailed, AtWork
  <2>2. Exists(d)
    BY <1>1, <1>3, <2>1, Known
  <2>3. ASSUME NEW st \in {"pending", "running", "failed"}, NEW c \in Requests \cup {NoRequest},
               SetStatus(r, st, c)
        PROVE  Lifecycle!To(d, st) /\ ContainerOf(d)' = ContainerOf(d)
    <3>1. Exists(d)' /\ record'[d].status = st
      BY <1>1, <2>2, <2>3, StatusWrite
    <3>2. ContainerOf(d)' = ContainerOf(d)
      BY <1>6, <2>3 DEF SetStatus
    <3> QED BY <1>7, <1>8, <3>1, <3>2
  <2>4. CASE MarkPending(r)
    <3>1. pc[r] = "pending" /\ SetStatus(r, "pending", NoRequest)
      BY <2>4 DEF MarkPending
    <3>2. Mine(d) = {}
      BY <1>1, <1>3, <2>1, <3>1, Known DEF ContainersIn, Mine
    <3>3. Lifecycle!Restart(d)
      BY <1>7, <1>10, <2>2, <2>3, <3>1, <3>2 DEF Lifecycle!Restart, Lifecycle!Alive
    <3> QED BY <1>1, <3>3 DEF Lifecycle!Next
  <2>5. CASE MarkRunning(r)
    <3>1. pc[r] = "ran" /\ SetStatus(r, "running", r)
      BY <2>5 DEF MarkRunning
    <3>2. record[d].status = "pending" /\ AsAsked(r)
      BY <1>3, <2>1, <3>1 DEF Prepares
    <3>3. ContainersIn(d, {r}) /\ want[r] \in Wish /\ host[r] \in Hosts
      BY <1>1, <1>3, <2>1, <3>1, Known DEF Control, AtWork
    <3>4. docker[r].up = TRUE
      BY <3>2 DEF AsAsked
    <3>5. Live(r)
      <4>1. docker[r] \in Container
        BY <3>2, <3>3 DEF AsAsked, Container, Wish
      <4> QED BY <4>1 DEF Live
    <3>6. Mine(d) = {r}
      BY <3>3, <3>5 DEF ContainersIn, Mine
    <3>7. Lifecycle!Succeed(d)
      BY <1>7, <1>10, <2>2, <2>3, <3>1, <3>2, <3>4, <3>6 DEF Lifecycle!Succeed
    <3> QED BY <1>1, <3>7 DEF Lifecycle!Next
  <2>6. CASE MarkFailed(r)
    <3>1. SetStatus(r, "failed", NoRequest)
      BY <2>6 DEF MarkFailed
    <3>2. Lifecycle!Fail(d)
      BY <1>7, <2>2, <2>3, <3>1 DEF Lifecycle!Fail, Lifecycle!Alive
    <3> QED BY <1>1, <3>2 DEF Lifecycle!Next
  <2> QED BY <1>15, <2>4, <2>5, <2>6
<1>16. CASE RunContainer(r) \/ RunTimesOut(r)
  <2>1. pc[r] = "run" /\ record' = record /\ pc[r] \in AtWork
    BY <1>16 DEF RunContainer, RunTimesOut, tables, AtWork
  <2>2. CASE UNCHANGED docker
    BY <1>6, <1>9, <2>1, <2>2
  <2>3. ASSUME NEW b \in BOOLEAN, docker' = Made(r, b) PROVE Lifecycle!Next
    <3>1. /\ Exists(d) /\ record[d].status = "pending" /\ Mine(d) = {}
          /\ want[r] \in Wish /\ host[r] \in Hosts
      BY <1>1, <1>3, <2>1, Known DEF Prepares, ContainersIn, Mine, Control, AtWork
    <3>2. [host |-> host[r], name |-> want[r].name, port |-> want[r].port, up |-> b] \in Container
      BY <3>1 DEF Container, Wish
    <3>3. /\ docker'[r].up = b /\ docker'[r] # NoContainer
          /\ \A c \in Requests \ {r} : docker'[c] = docker[c]
      BY <1>1, <2>3, <3>2 DEF Made, TypeOK
    <3>4. Mine(d)' = {r}
      BY <1>1, <3>1, <3>3 DEF Mine, Live, Frame
    <3>5. ContainerOf(d)' = IF b THEN "up" ELSE "created"
      BY <1>11, <3>3, <3>4
    <3>6. Lifecycle!Run(d)
      BY <1>6, <1>7, <1>8, <1>10, <2>1, <3>1, <3>5 DEF Lifecycle!Run
    <3> QED BY <1>1, <3>6 DEF Lifecycle!Next
  <2>4. UNCHANGED docker \/ \E b \in BOOLEAN : docker' = Made(r, b)
    BY <1>16 DEF RunContainer, RunTimesOut, RunStarts, RunStopsShort
  <2> QED BY <2>2, <2>3, <2>4
<1>17. CASE DeleteRecord(r)
  <2>1. pc[r] = "deleteRow" /\ pc[r] \in AtWork /\ op[r] = "delete" /\ UNCHANGED docker
    BY <1>1, <1>17 DEF DeleteRecord, Control, AtWork
  <2>2. Exists(d) /\ Mine(d) = {}
    BY <1>1, <1>3, <2>1, Known DEF ContainersIn, Mine
  <2>3. ~Exists(d)' /\ dep'[r] = d /\ op'[r] = "delete"
    BY <1>1, <1>17, <2>1 DEF DeleteRecord, Exists, TypeOK, Frame
  <2>4. PhaseOf(d)' = "deleted"
    BY <1>1, <1>4, <2>3 DEF PhaseOf, Exists
  <2>5. Lifecycle!Delete(d)
    BY <1>6, <1>7, <1>8, <1>10, <2>1, <2>2, <2>4 DEF Lifecycle!Delete, Lifecycle!Alive
  <2> QED BY <1>1, <2>5 DEF Lifecycle!Next
<1>18. CASE record' = record /\ docker' = docker
  BY <1>6, <1>9, <1>18
<1> QED
  BY <1>2, <1>12, <1>13, <1>14, <1>15, <1>16, <1>17, <1>18 DEF Step, Proceed, LoseDatabase, GetTarget,
     CheckPort, CheckName, LogStart, Notify, LogOutcome, tables

LEMMA LifeGoesOn == ASSUME Names = {} PROVE GInv /\ [Next]_vars => [Lifecycle!Next]_Lifecycle!vars
<1> SUFFICES ASSUME GInv, [Next]_vars PROVE Lifecycle!Next
  OBVIOUS
<1>1. Typing /\ Typing' /\ disturbed' \subseteq Requests
  BY IInvStep DEF GInv, IInv, Typing, TypeOK
<1>2. ASSUME NEW r \in Requests, Arrive(r) PROVE Lifecycle!Next
  BY <1>1, <1>2, ArrivalUnseen
<1>3. ASSUME NEW r \in Requests, Step(r) PROVE Lifecycle!Next
  <2>1. CASE dep[r] \in Requests \ disturbed'
    BY <1>3, <2>1, OwnStepsAreSteps
  <2>2. CASE dep[r] \notin Requests \ disturbed'
    <3>1. \A d \in Requests \ disturbed' : PhaseOf(d)' = PhaseOf(d) /\ ContainerOf(d)' = ContainerOf(d)
      BY <1>3, <2>2, OthersUnseen
    <3> QED BY <1>1, <3>1, Unseen
  <2> QED BY <2>1, <2>2
<1>4. ASSUME Crash \/ Quiet \/ UNCHANGED vars PROVE Lifecycle!Next
  <2>1. UNCHANGED <<record, docker, op, dep, disturbed>>
    BY <1>4 DEF Crash, Quiet, vars, Locals
  <2>2. \A d \in Requests \ disturbed' : PhaseOf(d)' = PhaseOf(d) /\ ContainerOf(d)' = ContainerOf(d)
    BY <2>1, SameSight
  <2> QED BY <1>1, <2>2, Unseen
<1> QED BY <1>2, <1>3, <1>4 DEF Next, Step

\* With generated names, and under every fault, the handlers implement the life
\* of a deployment: no container is started over another one, "running" is
\* written over a container that is up, and what is deleted stays deleted.
THEOREM HandlersImplementLifecycle == ASSUME Names = {} PROVE Spec => ImplementsLifecycle
<1>1. Init => Lifecycle!Init
  BY LifeBegins
<1>2. Init => GInv
  BY GInvInit
<1>3. GInv /\ [Next]_vars => GInv'
  BY GInvStep
<1>4. GInv /\ [Next]_vars => [Lifecycle!Next]_Lifecycle!vars
  BY LifeGoesOn
<1> QED BY <1>1, <1>2, <1>3, <1>4, PTL DEF Spec, ImplementsLifecycle, Lifecycle!Spec

-----------------------------------------------------------------------------
(* A row that says "running", when no call of a handler is lost.             *)

\* A redeploy or a delete has removed the container of a row that may still
\* say "running", and goes on to change or delete the row.
Between(r) == \/ pc[r] \in {"configure", "pending"}
              \/ op[r] = "delete" /\ pc[r] \in {"notify", "event", "deleteRow"}

BackedRow(d) ==
    /\ Exists(d) /\ record[d].status = "running"
    /\ \A r \in Requests : dep[r] = d => ~Between(r)
    => LET c == record[d].container
       IN  /\ c \in Requests /\ dep[c] = d
           /\ docker[c] = [host |-> servers[record[d].target], name |-> record[d].name,
                           port |-> record[d].port, up |-> TRUE]

Backed == \A d \in Requests \ disturbed : BackedRow(d)

LEMMA BackedArrival ==
    ASSUME Typing, Backed, NEW r \in Requests, Arrive(r)
    PROVE  Backed'
<1>1. Arrival(r) /\ Control
  BY ArriveIsArrival DEF Typing
<1> SUFFICES ASSUME NEW d \in Requests \ disturbed' PROVE BackedRow(d)'
  BY DEF Backed
<1>2. BackedRow(d) /\ dep[r] # d
  BY <1>1 DEF Backed, Arrival, Control
<1>3. ~Between(r)'
  BY <1>1 DEF Between, Arrival
<1>4. \A q \in Requests \ {r} : dep'[q] = dep[q] /\ (Between(q)' <=> Between(q))
  BY <1>1 DEF Between, Arrival
<1> QED BY <1>1, <1>2, <1>3, <1>4 DEF BackedRow, Arrival, Exists

LEMMA BackedOthers ==
    ASSUME GInv, Backed, NEW r \in Requests, Step(r), NEW d \in Requests \ disturbed', d # dep[r]
    PROVE  BackedRow(d)'
<1>1. Frame(r) /\ Typing /\ Generated /\ BackedRow(d)
  BY FrameStep DEF GInv, IInv, Backed, Frame
<1>2. Exists(d) => servers'[record[d].target] = servers[record[d].target]
  BY ServersKept DEF GInv
<1>3. \A c \in Requests : dep[c] = d => docker'[c] = docker[c]
  BY <1>1, ContainersOfOthers
<1>4. \A q \in Requests : dep[q] = d => dep'[q] = d /\ (Between(q)' <=> Between(q))
  BY <1>1 DEF Between, Frame
<1>5. record'[d] = record[d]
  BY <1>1 DEF Frame
<1>6. CASE Exists(d) /\ record[d].status = "running" /\ \A q \in Requests : dep[q] = d => ~Between(q)
  <2>1. record[d].container \in Requests /\ dep[record[d].container] = d
    BY <1>1, <1>6 DEF BackedRow
  <2>2. /\ docker'[record[d].container] = docker[record[d].container]
        /\ dep'[record[d].container] = d
    BY <1>3, <1>4, <2>1
  <2> QED BY <1>1, <1>2, <1>5, <1>6, <2>1, <2>2 DEF BackedRow
<1>7. CASE ~(Exists(d) /\ record[d].status = "running" /\ \A q \in Requests : dep[q] = d => ~Between(q))
  BY <1>4, <1>5, <1>7 DEF BackedRow, Exists
<1> QED BY <1>6, <1>7

LEMMA BackedOwn ==
    ASSUME Faults \subseteq {"runtime"}, GInv, Backed, NEW r \in Requests, Step(r),
           NEW d \in Requests \ disturbed', d = dep[r]
    PROVE  BackedRow(d)'
<1>1. /\ Frame(r) /\ Typing /\ TypeOK /\ Control /\ LateInv /\ BackedRow(d)
      /\ d \in Requests \ disturbed /\ dep[r] = d /\ dep'[r] = d /\ UNCHANGED <<dep, op>>
  BY FrameStep DEF GInv, IInv, Typing, Frame, Backed
<1>2. ~LateCommand(r) /\ ~WriteServer(r) /\ ~LoseDatabase(r) /\ ~RunTimesOut(r)
  BY <1>1 DEF LateCommand, LateInv, WriteServer, Control, LoseDatabase, RunTimesOut
<1>3. pc[r] \in AtWork => Knows(r) /\ Prepares(r)
  BY <1>1 DEF GInv, IInv, Knowledge, Preparation
<1>4. ASSUME Between(r)' PROVE BackedRow(d)'
  BY <1>1, <1>4 DEF BackedRow
<1>5. ASSUME UNCHANGED <<record, docker, servers>>, ~Between(r) PROVE BackedRow(d)'
  <2>1. \A q \in Requests \ {r} : dep[q] = d => (Between(q)' <=> Between(q))
    BY <1>1 DEF Between, Frame
  <2> QED BY <1>1, <1>5, <2>1 DEF BackedRow, Exists
<1>6. ASSUME ~Exists(d)' \/ record'[d].status # "running" PROVE BackedRow(d)'
  BY <1>6 DEF BackedRow, Exists
<1>7. CASE MarkRunning(r)
  <2>1. pc[r] = "ran" /\ SetStatus(r, "running", r) /\ pc[r] \in AtWork
    BY <1>7 DEF MarkRunning, AtWork
  <2>2. /\ Exists(d) /\ record[d].target = want[r].target /\ record[d].name = want[r].name
        /\ servers[want[r].target] = host[r] /\ record[d].port = want[r].port /\ AsAsked(r)
    BY <1>1, <1>3, <2>1, Known DEF Prepares
  <2>3. /\ record'[d].name = record[d].name /\ record'[d].target = record[d].target
        /\ record'[d].port = record[d].port /\ record'[d].container = r
    BY <1>1, <2>1, <2>2, StatusWrite
  <2>4. UNCHANGED <<docker, servers>>
    BY <2>1 DEF SetStatus
  <2>5. /\ dep[r] = d
        /\ docker[r] = [host |-> servers[record[d].target], name |-> record[d].name,
                        port |-> record[d].port, up |-> TRUE]
    BY <1>1, <2>2 DEF AsAsked
  <2>6. LET c == record'[d].container
        IN  /\ c \in Requests /\ dep'[c] = d
            /\ docker'[c] = [host |-> servers'[record'[d].target], name |-> record'[d].name,
                             port |-> record'[d].port, up |-> TRUE]
    BY <1>1, <2>3, <2>4, <2>5
  <2> QED BY <2>6 DEF BackedRow
<1>8. CASE MarkPending(r) \/ MarkFailed(r)
  <2>1. \E st \in {"pending", "failed"} : SetStatus(r, st, NoRequest)
    BY <1>8 DEF MarkPending, MarkFailed
  <2>2. pc[r] \in {"pending", "failed"} /\ pc[r] \in AtWork
    BY <1>8 DEF MarkPending, MarkFailed, AtWork
  <2>3. Exists(d)
    BY <1>1, <1>3, <2>2, Known
  <2>4. record'[d].status # "running"
    BY <1>1, <2>1, <2>3, StatusWrite
  <2> QED BY <1>6, <2>4
<1>9. CASE RunContainer(r)
  <2>1. record' = record /\ pc[r] = "run" /\ pc[r] \in AtWork
    BY <1>9 DEF RunContainer, tables, AtWork
  <2> QED BY <1>1, <1>3, <1>6, <2>1 DEF Prepares
<1>10. CASE InsertRecord(r)
  <2>1. record'[d].status = "pending"
    BY <1>1, <1>10 DEF InsertRecord, TypeOK
  <2> QED BY <1>6, <2>1
<1>11. CASE DeleteRecord(r)
  BY <1>1, <1>6, <1>11 DEF DeleteRecord, TypeOK, Exists
<1>12. CASE RemoveContainer(r) \/ Configure(r)
  <2>1. Between(r)'
    BY <1>1, <1>12 DEF RemoveContainer, Configure, Between, Control, Goto, TypeOK, Frame, AtWork
  <2> QED BY <1>4, <2>1
<1>13. CASE RemoveFails(r)
  BY <1>1, <1>5, <1>13 DEF RemoveFails, Between, tables
<1>14. CASE Notify(r) \/ LogOutcome(r)
  <2>1. UNCHANGED <<record, docker, servers>>
    BY <1>14 DEF Notify, LogOutcome
  <2>2. Between(r)' \/ ~Between(r)
    BY <1>1, <1>14 DEF Notify, LogOutcome, Between, Goto, TypeOK
  <2> QED BY <1>4, <1>5, <2>1, <2>2
<1>15. CASE GetTarget(r) \/ CheckPort(r) \/ CheckName(r) \/ LogStart(r)
  BY <1>1, <1>5, <1>15 DEF GetTarget, CheckPort, CheckName, LogStart, Between, tables
<1> QED
  BY <1>2, <1>7, <1>8, <1>9, <1>10, <1>11, <1>12, <1>13, <1>14, <1>15 DEF Step, Proceed

\* As long as commands end in time and the database and the process live, a row
\* that says "running" and that nobody works on has its container, up, on its
\* host and with its name and port. A command that fails changes nothing in it.
THEOREM RunningRowsAreBacked ==
    ASSUME Names = {}, Faults \subseteq {"runtime"}
    PROVE  Spec => []RunningIsBacked
<1>1. Init => GInv /\ Backed
  BY GInvInit DEF Init, Backed, BackedRow, Exists
<1>2. GInv /\ Backed /\ [Next]_vars => GInv' /\ Backed'
  <2>1. GInv /\ [Next]_vars => GInv'
    BY GInvStep
  <2> SUFFICES ASSUME GInv, Backed, [Next]_vars PROVE Backed'
    BY <2>1
  <2>2. Typing
    BY DEF GInv, IInv
  <2>3. ASSUME NEW r \in Requests, Arrive(r) PROVE Backed'
    BY <2>2, <2>3, BackedArrival
  <2>4. ASSUME NEW r \in Requests, Step(r) PROVE Backed'
    BY <2>4, BackedOthers, BackedOwn DEF Backed
  <2>5. ~Crash
    BY DEF Crash
  <2>6. ASSUME Quiet \/ UNCHANGED vars PROVE Backed'
    BY <2>6 DEF Quiet, vars, Backed, BackedRow, Between, Exists
  <2> QED BY <2>3, <2>4, <2>5, <2>6 DEF Next, Step
<1>3. Backed => RunningIsBacked
  <2>1. \A r \in Requests : Between(r) => InFlight(r)
    BY DEF Between, InFlight
  <2> QED BY <2>1 DEF Backed, BackedRow, RunningIsBacked, Busy
<1> QED BY <1>1, <1>2, <1>3, PTL DEF Spec

=============================================================================
