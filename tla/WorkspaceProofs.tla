--------------------------- MODULE WorkspaceProofs ---------------------------
(***************************************************************************)
(* The pages of the rollout path, for any number of rows, servers,         *)
(* requests, answers under way and other users: what is typed, what is     *)
(* started and what is edited go where the user sees them.                 *)
(***************************************************************************)
EXTENDS Workspace, TLAPS

USE ListingAssumption, WorkflowAssumption, DetailAssumption

-----------------------------------------------------------------------------
(* Types. *)

Held == Contents \cup {NoRow}
RowOrNone == Rows \cup {NoRow}
Targets == Servers \cup {NoServer}
Rendered == [filter : {"all", "running", "failed"}, server : Targets, ports : Targets,
             editing : Templates \cup {NoRow}]

PageCall ==
    [op : {"create", "deploy", "save", "duplicate", "delete", "redeploy", "update", "check"},
     about : RowOrNone, row : RowOrNone, value : Held, seen : {"form"} \cup Kinds \cup Rendered,
     stage : {"sent", "done", "refused", "loading"}, noted : BOOLEAN]

Answer == [rows : Table, waits : SUBSET PageCall, silent : BOOLEAN, seen : RowOrNone]

\* What a request of each page is about.
Sound(c) ==
    /\ c.stage = "done" => c.row \in Rows
    /\ page = "workflow" =>
        /\ c.op \in {"create", "deploy", "save", "duplicate", "delete"}
        /\ c.seen \in Rendered /\ c.value \in (Contents \ {Bad}) \cup {NoRow}
        /\ c.op = "save" => c.row \in Templates \cup {NoRow}
        /\ c.op = "save" /\ c.stage = "done" => c.row \in Templates
    /\ page = "detail" => c.op \in {"redeploy", "delete", "save"}
    /\ page = "servers" /\ c.op = "check" =>
        c.row \in Rows /\ c.seen \in Kinds /\ (c.stage = "done" => c.value \in Contents)

CallsInv == calls \subseteq PageCall /\ \A c \in calls : Sound(c)

\* The lists of the pages.
ListsInv ==
    /\ page \in Pages /\ table \in Table /\ list \in Table /\ checked \in BOOLEAN
    /\ loads \in Seq(Answer) /\ CallsInv /\ others \in 0..MaxOthers

LEMMA SameTables ==
    ASSUME page' = page PROVE Table' = Table /\ Answer' = Answer /\ \A c : Sound(c)' = Sound(c)
BY DEF Answer, Table, MayHold, Sound

\* What a row may hold on a page.
LEMMA StoredIsTable ==
    ASSUME NEW t \in Table, NEW r, NEW v \in Held, page = "workflow" => v # Bad
    PROVE  [t EXCEPT ![r] = v] \in Table
BY DEF Table, MayHold, Held

LEMMA NothingIsTable == Nothing \in Table
BY DEF Nothing, Table, MayHold

\* One thing that is on its way arrives before others.
LEMMA Removed ==
    ASSUME NEW S, NEW s \in Seq(S), NEW i \in DOMAIN s
    PROVE  RemoveAt(s, i) \in Seq(S) /\ Len(RemoveAt(s, i)) = Len(s) - 1
<1> DEFINE a == SubSeq(s, 1, i - 1)
           b == SubSeq(s, i + 1, Len(s))
<1>1. i \in 1..Len(s) /\ Len(s) \in Nat
  OBVIOUS
<1>2. a \in Seq(S) /\ Len(a) = i - 1
  BY <1>1
<1>3. b \in Seq(S) /\ Len(b) = Len(s) - i
  BY <1>1
<1>4. RemoveAt(s, i) = a \o b
  BY DEF RemoveAt
<1> HIDE DEF a, b
<1>5. a \o b \in Seq(S) /\ Len(a \o b) = Len(s) - 1
  BY <1>1, <1>2, <1>3
<1> QED BY <1>4, <1>5

\* One more answer is on its way.
LEMMA FetchIsAnswer ==
    ASSUME NEW rows \in Table, NEW waits \in SUBSET PageCall, NEW silent \in BOOLEAN,
           NEW seen \in RowOrNone
    PROVE  Fetch(rows, waits, silent, seen) \in Answer
BY DEF Fetch, Answer

LEMMA OneMoreAnswer ==
    ASSUME NEW s \in Seq(Answer), NEW a \in Answer, NEW t, t = Append(s, a)
    PROVE  t \in Seq(Answer) /\ Len(t) = Len(s) + 1
OBVIOUS

\* What is on its way when one has arrived: the page may ask once more.
LEMMA StillAskedTypes ==
    ASSUME loads \in Seq(Answer), table \in Table, NEW i \in DOMAIN loads
    PROVE  StillAsked(i) \in Seq(Answer)
<1>1. RemoveAt(loads, i) \in Seq(Answer)
  BY Removed
<1>2. FirstFetch \in Answer
  BY FetchIsAnswer DEF FirstFetch, RowOrNone
<1>3. Append(RemoveAt(loads, i), FirstFetch) \in Seq(Answer)
  BY ONLY <1>1, <1>2, OneMoreAnswer
<1> QED BY <1>1, <1>3 DEF StillAsked

-----------------------------------------------------------------------------
(* Requests. *)

\* Two requests differ in their buttons, at most.
Alike(c, d) ==
    /\ c.op = d.op /\ c.row = d.row /\ c.value = d.value /\ c.seen = d.seen /\ c.stage = d.stage
    /\ d = [c EXCEPT !.noted = d.noted]

LEMMA Forgotten ==
    ASSUME NEW S \in SUBSET PageCall, NEW ops
    PROVE  /\ Forget(S, ops) \subseteq PageCall
           /\ \A d \in Forget(S, ops) :
                \E c \in S : Alike(c, d) /\ (c.op \in ops => d.noted = FALSE) /\ (d.noted => c.noted)
<1> SUFFICES ASSUME NEW d \in Forget(S, ops)
             PROVE  /\ d \in PageCall
                    /\ \E c \in S : Alike(c, d) /\ (c.op \in ops => d.noted = FALSE)
                                                /\ (d.noted => c.noted)
  OBVIOUS
<1>1. PICK c \in S : d = [c EXCEPT !.noted = @ /\ c.op \notin ops]
  BY DEF Forget
<1> DEFINE b == c.noted /\ c.op \notin ops
<1>2. b \in BOOLEAN /\ c \in PageCall /\ c.noted \in BOOLEAN
  BY DEF PageCall
<1>3. d = [c EXCEPT !.noted = b]
  BY <1>1
<1>4. (c.op \in ops => b = FALSE) /\ (b => c.noted)
  BY <1>2
<1> HIDE DEF b
<1>5. d \in PageCall /\ d.noted = b /\ Alike(c, d)
  BY <1>2, <1>3 DEF PageCall, Alike
<1> QED BY <1>4, <1>5

LEMMA Restaged ==
    ASSUME NEW c \in PageCall, NEW stage \in {"sent", "done", "refused", "loading"}
    PROVE  LET d == [c EXCEPT !.stage = stage]
           IN  /\ d \in PageCall /\ d.stage = stage
               /\ d.op = c.op /\ d.row = c.row /\ d.value = c.value /\ d.seen = c.seen
BY DEF PageCall

LEMMA OverIsSound == ASSUME CallsInv, NEW done \in SUBSET calls, calls' = Over(done), page' = page
                     PROVE  CallsInv'
<1> DEFINE ops == {c.op : c \in done}
<1>1. calls \ done \in SUBSET PageCall /\ calls' = Forget(calls \ done, ops)
  BY DEF CallsInv, Over
<1> HIDE DEF ops
<1>2. calls' \subseteq PageCall /\ \A d \in calls' : \E c \in calls : Alike(c, d)
  BY <1>1, Forgotten
<1> QED BY <1>2 DEF CallsInv, Sound, Alike

LEMMA OneIsSound ==
    ASSUME CallsInv, NEW c, NEW n \in PageCall, Sound(n), calls' = (calls \ {c}) \cup {n},
           page' = page
    PROVE  CallsInv'
BY DEF CallsInv, Sound

LEMMA AtIsSound ==
    ASSUME CallsInv, NEW c \in calls, NEW stage \in {"refused", "loading"}, calls' = At(c, stage),
           page' = page
    PROVE  CallsInv'
<1> DEFINE n == [c EXCEPT !.stage = stage]
<1>1. /\ n \in PageCall /\ n.stage = stage
      /\ n.op = c.op /\ n.row = c.row /\ n.value = c.value /\ n.seen = c.seen
  <2>1. c \in PageCall /\ stage \in {"sent", "done", "refused", "loading"}
    BY DEF CallsInv
  <2> QED BY ONLY <2>1, Restaged
<1>2. calls' = (calls \ {c}) \cup {n}
  BY DEF At
<1> HIDE DEF n
<1>3. Sound(n)
  BY <1>1 DEF CallsInv, Sound
<1> QED BY <1>1, <1>2, <1>3, OneIsSound

LEMMA AwaitedIsCall == ASSUME NEW c \in PageCall PROVE {Awaited(c)} \in SUBSET PageCall
BY DEF Awaited, PageCall

\* A request that is sent, and what was sent before.
LEMMA SendIsSound ==
    ASSUME CallsInv, NEW op, NEW about, NEW r, NEW value, NEW seen, Send(op, about, r, value, seen),
           NEW n, n = [op |-> op, about |-> about, row |-> r, value |-> value,
                       seen |-> seen, stage |-> "sent", noted |-> TRUE],
           n \in PageCall, Sound(n), page' = page
    PROVE  CallsInv' /\ \A d \in calls' : d = n \/ \E c \in calls : Alike(c, d)
<1>1. calls \in SUBSET PageCall /\ calls' = Forget(calls, {op}) \cup {n}
  BY DEF CallsInv, Send
<1>2. /\ Forget(calls, {op}) \subseteq PageCall
      /\ \A d \in Forget(calls, {op}) : \E c \in calls : Alike(c, d)
  BY <1>1, Forgotten
<1>3. calls' \subseteq PageCall /\ \A d \in calls' : d = n \/ \E c \in calls : Alike(c, d)
  BY <1>1, <1>2
<1> QED BY <1>3 DEF CallsInv, Sound, Alike

\* A step that leaves the lists alone but for the requests.
LEMMA CallsStep ==
    ASSUME ListsInv, CallsInv', UNCHANGED <<page, table, list, checked, loads, others>>
    PROVE  ListsInv'
<1>1. Table' = Table /\ Answer' = Answer
  BY SameTables
<1> QED BY <1>1 DEF ListsInv

\* The server answers.
LEMMA ServeKeeps ==
    ASSUME ListsInv, NEW c \in calls, NEW new, new \subseteq Rows, Serve(c, new),
           page = "workflow" /\ c.op = "save" => new \subseteq Templates,
           page = "servers" => c.op # "check"
    PROVE  ListsInv' /\ UNCHANGED <<page, list, checked, loads, others, acts>>
<1>1. UNCHANGED <<page, list, checked, loads, others, acts>>
  BY DEF Serve
<1>2. Table' = Table /\ Answer' = Answer
  BY <1>1, SameTables
<1>3. c \in PageCall /\ Sound(c) /\ CallsInv
  BY DEF ListsInv, CallsInv
<1>4. CASE UNCHANGED table /\ calls' = At(c, "refused")
  <2>1. CallsInv'
    BY <1>1, <1>3, <1>4, AtIsSound
  <2> QED BY <1>1, <1>2, <1>4, <2>1 DEF ListsInv
<1>5. ASSUME NEW r \in IF c.row = NoRow THEN {n \in new : table[n] = NoRow}
                       ELSE {n \in {c.row} : table[n] # NoRow},
             table' = [table EXCEPT ![r] = c.value],
             \/ calls' = (calls \ {c}) \cup {[c EXCEPT !.stage = "done", !.row = r]}
             \/ calls' = At(c, "refused")
      PROVE  ListsInv'
  <2> DEFINE n == [c EXCEPT !.stage = "done", !.row = r]
  <2>1. r \in Rows /\ (r \in new \/ r = c.row)
    <3>1. c.row \in Rows \cup {NoRow}
      BY <1>3 DEF PageCall, RowOrNone
    <3> QED BY <1>5, <3>1
  <2>2. /\ n \in PageCall /\ n.stage = "done" /\ n.row = r
        /\ n.op = c.op /\ n.value = c.value /\ n.seen = c.seen
    BY <1>3, <2>1 DEF PageCall, RowOrNone
  <2> HIDE DEF n
  <2>3. r \in new => (page = "workflow" /\ c.op = "save" => r \in Templates)
    OBVIOUS
  <2>4. page = "workflow" /\ c.op = "save" => r \in Templates
    BY <1>3, <2>1, <2>3 DEF Sound
  <2>5. Sound(n)
    BY <1>3, <2>1, <2>2, <2>4 DEF Sound
  <2>6. CallsInv'
    <3>1. CASE calls' = (calls \ {c}) \cup {[c EXCEPT !.stage = "done", !.row = r]}
      BY <1>1, <1>3, <2>2, <2>5, <3>1, OneIsSound DEF n
    <3>2. CASE calls' = At(c, "refused")
      BY <1>1, <1>3, <3>2, AtIsSound
    <3> QED BY <1>5, <3>1, <3>2
  <2>7. c.value \in Held /\ (page = "workflow" => c.value # Bad)
    BY <1>3 DEF PageCall, Sound
  <2>8. table' \in Table
    BY <1>5, <2>7, StoredIsTable DEF ListsInv
  <2> QED BY <1>1, <1>2, <2>6, <2>8 DEF ListsInv
<1> QED BY <1>1, <1>4, <1>5 DEF Serve

LEMMA OthersKeep ==
    ASSUME ListsInv, Others PROVE ListsInv' /\ UNCHANGED <<page, list, checked, loads, calls, acts>>
<1>1. UNCHANGED <<page, list, checked, loads, calls, acts>>
  BY DEF Others
<1>2. Table' = Table /\ Answer' = Answer /\ \A c : Sound(c)' = Sound(c)
  BY <1>1, SameTables
<1>3. table' \in Table
  BY DEF Others, ListsInv, Table, MayHold
<1>4. others' \in 0..MaxOthers
  BY DEF Others, ListsInv
<1> QED BY <1>1, <1>2, <1>3, <1>4 DEF ListsInv, CallsInv

\* A list arrives, or does not.
LEMMA ShowKeeps ==
    ASSUME ListsInv, NEW i, NEW rows \in Table, Show(i, rows), others' \in 0..MaxOthers
    PROVE  ListsInv' /\ \A d \in calls' : \E c \in calls : Alike(c, d)
<1>1. /\ i \in DOMAIN loads /\ loads' = StillAsked(i) /\ loads \in Seq(Answer) /\ table \in Table
      /\ list' = rows /\ checked' = TRUE /\ UNCHANGED <<page, table>> /\ CallsInv
  BY DEF Show, ListsInv
<1>2. loads' \in Seq(Answer)
  BY <1>1, StillAskedTypes
<1>3. PICK done \in SUBSET calls : calls' = Over(done)
  BY DEF Show
<1>4. CallsInv'
  BY <1>1, <1>3, OverIsSound
<1>5. \A d \in calls' : \E c \in calls : Alike(c, d)
  <2>1. calls \ done \in SUBSET PageCall /\ calls' = Forget(calls \ done, {c.op : c \in done})
    BY <1>1, <1>3 DEF CallsInv, Over
  <2> QED BY <2>1, Forgotten
<1>6. Table' = Table /\ Answer' = Answer
  BY <1>1, SameTables
<1> QED BY <1>1, <1>2, <1>4, <1>5, <1>6 DEF ListsInv

LEMMA AnswersAreTables ==
    ASSUME ListsInv, NEW i \in DOMAIN loads
    PROVE  /\ loads[i].rows \in Table /\ loads[i].silent \in BOOLEAN /\ Fallback(i) \in Table
<1>1. loads[i] \in Answer /\ list \in Table
  BY DEF ListsInv
<1> QED BY <1>1, NothingIsTable DEF Answer, Fallback

\* GETs of a page that shows every answer.
LEMMA AnsweredKeeps ==
    ASSUME ListsInv, NEW i, Arrived(i) \/ Failed(i)
    PROVE  /\ ListsInv' /\ UNCHANGED <<page, table, acts>>
           /\ i \in DOMAIN loads /\ list' \in Table /\ \A d \in calls' : \E c \in calls : Alike(c, d)
<1>1. i \in DOMAIN loads /\ UNCHANGED <<page, table, acts>>
  BY DEF Arrived, Failed, Show
<1>2. loads[i].rows \in Table /\ Fallback(i) \in Table
  BY <1>1, AnswersAreTables
<1>3. others' \in 0..MaxOthers
  BY DEF Arrived, Failed, ListsInv
<1>4. PICK rows \in Table : Show(i, rows)
  BY <1>2 DEF Arrived, Failed
<1>5. list' = rows
  BY <1>4 DEF Show
<1> QED BY <1>1, <1>3, <1>4, <1>5, ShowKeeps

\* A step that leaves alone what the page has loaded and asked for.
LEMMA WorldKeeps == ASSUME ListsInv, UNCHANGED world PROVE ListsInv'
<1>1. Table' = Table /\ Answer' = Answer /\ \A c : Sound(c)' = Sound(c)
  BY SameTables DEF world
<1> QED BY <1>1 DEF ListsInv, CallsInv, world

\* A GET goes out.
LEMMA FetchKeeps ==
    ASSUME ListsInv, NEW a \in Answer, loads' = Append(loads, a), CallsInv',
           UNCHANGED <<page, table, list, checked, others>>
    PROVE  ListsInv' /\ Len(loads') = Len(loads) + 1
<1>1. loads' \in Seq(Answer) /\ Len(loads') = Len(loads) + 1
  <2>1. loads \in Seq(Answer)
    BY DEF ListsInv
  <2> QED BY ONLY <2>1, OneMoreAnswer, a \in Answer, loads' = Append(loads, a)
<1>2. Table' = Table /\ Answer' = Answer
  BY SameTables
<1> QED BY <1>1, <1>2 DEF ListsInv

LEMMA GetKeeps ==
    ASSUME ListsInv, NEW rows \in Table, NEW waits \in SUBSET PageCall, NEW silent \in BOOLEAN,
           Get(rows, waits, silent), CallsInv', UNCHANGED <<page, table, list, checked, others>>
    PROVE  ListsInv' /\ Len(loads') = Len(loads) + 1
<1>1. Fetch(rows, waits, silent, NoRow) \in Answer
  BY FetchIsAnswer DEF RowOrNone
<1> QED BY <1>1, FetchKeeps DEF Get

LEMMA SameCalls == ASSUME CallsInv, UNCHANGED <<page, calls>> PROVE CallsInv'
BY DEF CallsInv, Sound

-----------------------------------------------------------------------------
(* The deployment workflow page. *)

Form == [image : {"", "typed", "template"}, server : Servers \cup {NoServer},
         port : {"", "typed", "template"} \cup Servers, title : {"", "typed", "template"}]

\* While a deployment has failed the page shows the list, or, after a link to a server,
\* the form.
Shows(t) == t = "live" \/ (t = "create" /\ handoff = "server")

WorkflowInv ==
    /\ WorkflowTypeOK /\ handoff \in Handoffs \cup {"none"}
    /\ page = "workflow" /\ NeedsReview(list) => Shows(tab)

\* The filter alone changes, or nothing of the page.
LEMMA SameForm ==
    ASSUME WorkflowTypeOK, filter' \in {"all", "running", "failed"},
           UNCHANGED <<form, editing, tab, asks, ports>>
    PROVE  WorkflowTypeOK'
<1>1. UNCHANGED form /\ UNCHANGED editing /\ UNCHANGED tab /\ UNCHANGED asks /\ UNCHANGED ports
  OBVIOUS
<1>2. form' \in Form
  <2>1. form \in Form
    BY DEF WorkflowTypeOK, Form
  <2> QED BY ONLY <1>1, <2>1
<1>3. /\ tab' \in {"create", "live", "templates"} /\ editing' \in Templates \cup {NoRow}
      /\ asks' \in Seq(Servers) /\ ports' \in Servers \cup {NoServer}
  <2>1. /\ tab \in {"create", "live", "templates"} /\ editing \in Templates \cup {NoRow}
        /\ asks \in Seq(Servers) /\ ports \in Servers \cup {NoServer}
    BY DEF WorkflowTypeOK
  <2> QED BY ONLY <1>1, <2>1
<1> QED BY <1>2, <1>3 DEF WorkflowTypeOK, Form

LEMMA SameWorkflow ==
    ASSUME WorkflowInv, UNCHANGED <<page, list, workflowVars>>
    PROVE  WorkflowInv'
<1>1. UNCHANGED <<page, list, handoff, tab>>
  BY DEF workflowVars
<1>2. WorkflowTypeOK'
  <2>1. WorkflowTypeOK /\ filter' = filter /\ UNCHANGED <<form, editing, tab, asks, ports>>
    BY DEF WorkflowInv, workflowVars
  <2>2. filter \in {"all", "running", "failed"}
    BY <2>1 DEF WorkflowTypeOK
  <2> QED BY ONLY <2>1, <2>2, SameForm
<1> QED BY <1>1, <1>2 DEF WorkflowInv, NeedsReview, Deployments, Shows

\* What a step may not do to the form, and what it may not start.
FormStays ==
    \A f \in DOMAIN form : page = "workflow" /\ form'[f] # form[f] =>
        /\ list' # list \/ Len(loads') < Len(loads) => f \in Relinked
        /\ Len(asks') < Len(asks) => f = "port" /\ form[f] = ""

Rollout(c) == c.op \in Barred /\ c.stage = "sent"

NothingStarts ==
    \A c \in calls' : page = "workflow" /\ NeedsReview(list) /\ Rollout(c) =>
        \E d \in calls : Alike(d, c)

LEMMA FilteredIsTable == ASSUME NEW rows \in Table, NEW f PROVE Filtered(f, rows) \in Table
BY DEF Filtered, Table, MayHold

LEMMA TabEffectTypes ==
    ASSUME NEW rows, NEW t \in {"create", "live", "templates"}
    PROVE  /\ TabEffect(rows, t) \in {"create", "live", "templates"}
           /\ NeedsReview(rows) => TabEffect(rows, t) = "live"
BY DEF TabEffect

\* The tab after the user asks for another, and after a list has arrived.
LEMMA TurnedTypes ==
    ASSUME tab \in {"create", "live", "templates"}, NEW t \in {"create", "live", "templates"}
    PROVE  /\ Turned(list, t) \in {"create", "live", "templates"}
           /\ NeedsReview(list) => Turned(list, t) \in {tab, "live"}
BY TabEffectTypes DEF Turned

LEMMA AfterListTypes ==
    ASSUME NEW t \in {"create", "live", "templates"}
    PROVE  /\ AfterList(t) \in {"create", "live", "templates"}
           /\ NeedsReview(list') => AfterList(t) = "live" \/ (NeedsReview(list) /\ AfterList(t) = t)
<1>1. TabEffect(list', t) \in {"create", "live", "templates"}
      /\ (NeedsReview(list') => TabEffect(list', t) = "live")
  BY TabEffectTypes
<1> QED BY <1>1 DEF AfterList

LEMMA HandedTypes ==
    ASSUME tab \in {"create", "live", "templates"}, NEW t \in HandedTab
    PROVE  /\ t \in {"create", "live", "templates"}
           /\ NeedsReview(list') => t \in {"create", "live"}
<1>1. ASSUME NEW rows, NEW u \in {"create", "live", "templates"}
      PROVE  /\ Handed(rows, u) \in {"create", "live", "templates"}
             /\ NeedsReview(rows) => Handed(rows, u) \in {"create", "live"}
  BY TabEffectTypes DEF Handed
<1>2. AfterList(tab) \in {"create", "live", "templates"}
  BY AfterListTypes
<1>3. t \in {Handed(list', tab), Handed(list', AfterList(tab))} \/ t = AfterList(Handed(list, tab))
  BY DEF HandedTab
<1>4. CASE t \in {Handed(list', tab), Handed(list', AfterList(tab))}
  BY <1>1, <1>2, <1>4
<1>5. CASE t = AfterList(Handed(list, tab))
  <2> DEFINE u == Handed(list, tab)
  <2>1. u \in {"create", "live", "templates"} /\ (NeedsReview(list) => u \in {"create", "live"})
    BY <1>1
  <2> HIDE DEF u
  <2>2. /\ AfterList(u) \in {"create", "live", "templates"}
        /\ NeedsReview(list') => AfterList(u) = "live" \/ (NeedsReview(list) /\ AfterList(u) = u)
    BY <2>1, AfterListTypes
  <2>3. t = AfterList(u)
    BY <1>5 DEF u
  <2> QED BY <2>1, <2>2, <2>3
<1> QED BY <1>3, <1>4, <1>5

LEMMA PortsEffectTypes ==
    ASSUME asks \in Seq(Servers), ports \in Targets, NEW s \in Targets, PortsEffect(s)
    PROVE  asks' \in Seq(Servers) /\ ports' \in Targets /\ Len(asks') >= Len(asks)
<1>1. CASE UNCHANGED asks
  <2>1. Len(asks) \in Nat
    OBVIOUS
  <2> QED BY <1>1, <2>1 DEF PortsEffect, Targets
<1>2. CASE s \in Servers /\ asks' = Append(asks, s) /\ UNCHANGED ports
  BY <1>2
<1> QED BY <1>1, <1>2 DEF PortsEffect, Targets

LEMMA Lengths ==
    ListsInv /\ WorkflowTypeOK => /\ asks \in Seq(Servers) /\ Len(asks) \in Nat
                                 /\ loads \in Seq(Answer) /\ Len(loads) \in Nat
<1> SUFFICES ASSUME ListsInv, WorkflowTypeOK
             PROVE  asks \in Seq(Servers) /\ Len(asks) \in Nat
                    /\ loads \in Seq(Answer) /\ Len(loads) \in Nat
  OBVIOUS
<1>1. asks \in Seq(Servers)
  BY DEF WorkflowTypeOK
<1>2. loads \in Seq(Answer)
  BY DEF ListsInv
<1> QED BY ONLY <1>1, <1>2

\* What a step keeps to that only sends GETs.
LEMMA Calm ==
    ASSUME ListsInv, WorkflowTypeOK, ListsInv', WorkflowTypeOK',
           UNCHANGED <<list, calls>>, Len(loads') >= Len(loads), Len(asks') >= Len(asks)
    PROVE  FormStays /\ NothingStarts
<1>1. FormStays
  <2>1. Len(loads) \in Nat /\ Len(asks) \in Nat
    BY Lengths
  <2>2. Len(loads') \in Nat /\ Len(asks') \in Nat
    <3>1. asks' \in Seq(Servers)
      BY DEF WorkflowTypeOK
    <3>2. loads' \in Seq(Answer')
      BY DEF ListsInv
    <3> QED BY ONLY <3>1, <3>2
  <2>3. ~(Len(loads') < Len(loads)) /\ ~(Len(asks') < Len(asks))
    BY <2>1, <2>2
  <2> QED BY <2>3 DEF FormStays
<1>2. NothingStarts
  <2>1. \A c \in calls : Alike(c, c)
    BY DEF Alike, ListsInv, CallsInv, PageCall
  <2> QED BY <2>1 DEF NothingStarts
<1> QED BY <1>1, <1>2

\* What the user types and chooses.
LEMMA UserKeeps ==
    ASSUME page = "workflow", ListsInv, WorkflowInv, UNCHANGED world, WorkflowTypeOK',
           UNCHANGED handoff, Len(asks') >= Len(asks), NeedsReview(list) => tab' \in {tab, "live"}
    PROVE  ListsInv' /\ WorkflowInv' /\ FormStays /\ NothingStarts
<1>1. ListsInv'
  BY WorldKeeps
<1>2. WorkflowInv'
  BY DEF WorkflowInv, world, NeedsReview, Deployments, Shows
<1>3. Len(loads') >= Len(loads) /\ UNCHANGED <<list, calls>>
  <2>1. loads' = loads /\ Len(loads) \in Nat /\ UNCHANGED <<list, calls>>
    BY DEF world, ListsInv
  <2> QED BY <2>1
<1> QED BY <1>1, <1>2, <1>3, Calm DEF WorkflowInv

LEMMA FormKeeps ==
    ASSUME page = "workflow", ListsInv, WorkflowInv,
           \/ TypeImage \/ TypePort \/ TypeTitle \/ UseSuggestedPort
           \/ \E s \in Servers \cup {NoServer} : ChooseServer(s)
    PROVE  ListsInv' /\ WorkflowInv' /\ FormStays /\ NothingStarts
<1>1. Len(asks) \in Nat /\ WorkflowTypeOK
  BY Lengths DEF WorkflowInv
<1>2. CASE TypeImage
  <2>1. UNCHANGED <<world, handoff, tab, asks>> /\ WorkflowTypeOK'
    BY <1>1, <1>2 DEF TypeImage, WorkflowTypeOK
  <2> QED BY ONLY <1>1, <2>1, UserKeeps, page = "workflow", ListsInv, WorkflowInv
<1>3. CASE TypePort
  <2>1. UNCHANGED <<world, handoff, tab, asks>> /\ WorkflowTypeOK'
    BY <1>1, <1>3 DEF TypePort, WorkflowTypeOK
  <2> QED BY ONLY <1>1, <2>1, UserKeeps, page = "workflow", ListsInv, WorkflowInv
<1>4. CASE UseSuggestedPort
  <2>1. UNCHANGED <<world, handoff, tab, asks>> /\ WorkflowTypeOK'
    BY <1>1, <1>4 DEF UseSuggestedPort, WorkflowTypeOK
  <2> QED BY ONLY <1>1, <2>1, UserKeeps, page = "workflow", ListsInv, WorkflowInv
<1>5. ASSUME NEW s \in Servers \cup {NoServer}, ChooseServer(s)
      PROVE  ListsInv' /\ WorkflowInv' /\ FormStays /\ NothingStarts
  <2>1. UNCHANGED <<world, handoff, tab, filter, editing>> /\ PortsEffect(s)
        /\ form' = [form EXCEPT !.server = s]
    BY <1>5 DEF ChooseServer
  <2>2. asks' \in Seq(Servers) /\ ports' \in Targets /\ Len(asks') >= Len(asks)
    BY <1>1, <2>1, PortsEffectTypes DEF Targets, WorkflowTypeOK
  <2>3. WorkflowTypeOK'
    BY <1>1, <2>1, <2>2 DEF Targets, WorkflowTypeOK
  <2> QED BY ONLY <2>1, <2>2, <2>3, UserKeeps, page = "workflow", ListsInv, WorkflowInv
<1>6. CASE TypeTitle
  <2>1. UNCHANGED <<world, handoff, tab, asks>> /\ WorkflowTypeOK'
    BY <1>1, <1>6 DEF TypeTitle, WorkflowTypeOK
  <2> QED BY ONLY <1>1, <2>1, UserKeeps, page = "workflow", ListsInv, WorkflowInv
<1> QED BY <1>2, <1>3, <1>4, <1>5, <1>6

LEMMA TabKeeps ==
    ASSUME page = "workflow", ListsInv, WorkflowInv,
           \/ \E t \in {"create", "live", "templates"} : ShowTab(t)
           \/ FollowNextStep \/ CancelEditing
           \/ \E r \in Templates : EditTemplate(r, TRUE) \/ EditTemplate(r, FALSE)
    PROVE  ListsInv' /\ WorkflowInv' /\ FormStays /\ NothingStarts
<1>1. Len(asks) \in Nat /\ WorkflowTypeOK
  BY Lengths DEF WorkflowInv
<1>2. ASSUME NEW t \in {"create", "live", "templates"}, tab' = Turned(list, t),
             UNCHANGED <<world, handoff, filter, form, editing, asks, ports>>
      PROVE  ListsInv' /\ WorkflowInv' /\ FormStays /\ NothingStarts
  <2>1. tab' \in {"create", "live", "templates"} /\ (NeedsReview(list) => tab' \in {tab, "live"})
    BY <1>1, <1>2, TurnedTypes DEF WorkflowTypeOK
  <2>2. WorkflowTypeOK'
    BY <1>1, <1>2, <2>1 DEF WorkflowTypeOK
  <2> QED BY ONLY <1>1, <1>2, <2>1, <2>2, UserKeeps, page = "workflow", ListsInv, WorkflowInv
<1>3. CASE \E t \in {"create", "live", "templates"} : ShowTab(t)
  BY <1>2, <1>3 DEF ShowTab
<1>4. CASE FollowNextStep
  BY <1>2, <1>4 DEF FollowNextStep, NextStep
<1>5. CASE CancelEditing
  <2>1. UNCHANGED <<world, handoff, tab, asks>> /\ WorkflowTypeOK'
    BY <1>1, <1>5 DEF CancelEditing, WorkflowTypeOK
  <2> QED BY ONLY <1>1, <2>1, UserKeeps, page = "workflow", ListsInv, WorkflowInv
<1>6. ASSUME NEW r \in Templates, NEW edit \in BOOLEAN, EditTemplate(r, edit)
      PROVE  ListsInv' /\ WorkflowInv' /\ FormStays /\ NothingStarts
  <2>1. UNCHANGED <<world, handoff, filter, tab>> /\ ApplyTemplate(r) /\ editing' \in {r, NoRow}
    BY <1>6 DEF EditTemplate
  <2>2. asks' \in Seq(Servers) /\ ports' \in Targets /\ Len(asks') >= Len(asks)
    BY <1>1, <2>1, PortsEffectTypes DEF ApplyTemplate, Targets, WorkflowTypeOK
  <2>3. WorkflowTypeOK'
    BY <1>1, <2>1, <2>2 DEF ApplyTemplate, Targets, WorkflowTypeOK
  <2> QED BY ONLY <2>1, <2>2, <2>3, UserKeeps, page = "workflow", ListsInv, WorkflowInv
<1> QED BY <1>3, <1>4, <1>5, <1>6

\* A port that is suggested takes the place of none.
LEMMA PortsKeep ==
    ASSUME page = "workflow", ListsInv, WorkflowInv, NEW i, PortsAnswered(i)
    PROVE  ListsInv' /\ WorkflowInv' /\ FormStays /\ NothingStarts
<1>1. /\ i \in DOMAIN asks /\ asks' = RemoveAt(asks, i)
      /\ UNCHANGED <<listingVars, handoff, filter, editing, tab>>
      /\ \/ ports' = asks[i] /\ form' = Suggest(asks[i])
         \/ ports' = NoServer /\ UNCHANGED form
  BY DEF PortsAnswered
<1>2. WorkflowTypeOK
  BY DEF WorkflowInv
<1>3. asks' \in Seq(Servers) /\ asks[i] \in Servers
  <2>1. asks \in Seq(Servers)
    BY <1>2 DEF WorkflowTypeOK
  <2> QED BY ONLY <1>1, <2>1, Removed
<1>4. WorkflowTypeOK'
  BY <1>1, <1>2, <1>3 DEF WorkflowTypeOK, Suggest
<1>5. FormStays
  <2>1. \A f \in DOMAIN form : form'[f] # form[f] => f = "port" /\ form[f] = ""
    BY <1>1, <1>2, <1>3 DEF WorkflowTypeOK, Suggest
  <2>2. list' = list /\ ~(Len(loads') < Len(loads))
    <3>1. list' = list /\ loads' = loads /\ Len(loads) \in Nat
      BY <1>1, <1>2, Lengths DEF listingVars, world
    <3> QED BY ONLY <3>1
  <2> QED BY <2>1, <2>2 DEF FormStays
<1>6. ListsInv'
  BY <1>1, WorldKeeps DEF listingVars
<1>7. WorkflowInv'
  BY <1>1, <1>4 DEF WorkflowInv, listingVars, world, NeedsReview, Deployments, Shows
<1>8. NothingStarts
  <2>1. UNCHANGED calls
    BY <1>1 DEF listingVars, world
  <2>2. \A c \in calls : Alike(c, c)
    BY DEF Alike, ListsInv, CallsInv, PageCall
  <2> QED BY <2>1, <2>2 DEF NothingStarts
<1> QED BY <1>5, <1>6, <1>7, <1>8

\* The GETs of the list.
LEMMA LoadKeeps ==
    ASSUME page = "workflow", ListsInv, WorkflowInv,
           Refresh \/ RefreshNow \/ \E f \in {"all", "running", "failed"} : SetFilter(f)
    PROVE  ListsInv' /\ WorkflowInv' /\ FormStays /\ NothingStarts
<1>1. PICK f \in {"all", "running", "failed"}, silent \in BOOLEAN :
        /\ Load(f, {}, silent) /\ filter' \in {filter, f}
        /\ UNCHANGED <<page, table, list, checked, calls, others>>
        /\ UNCHANGED <<handoff, form, editing, tab, asks, ports>>
  <2>1. CASE Refresh
    <3>1. /\ Load("all", {}, TRUE) /\ filter' = filter
          /\ UNCHANGED <<page, table, list, checked, calls, others>>
          /\ UNCHANGED <<handoff, form, editing, tab, asks, ports>>
      BY <2>1 DEF Refresh, workflowVars
    <3> QED BY <3>1
  <2>2. ASSUME NEW f \in {"all", "running", "failed"}, SetFilter(f)
        PROVE  /\ Load(f, {}, FALSE) /\ filter' = f
               /\ UNCHANGED <<page, table, list, checked, calls, others>>
               /\ UNCHANGED <<handoff, form, editing, tab, asks, ports>>
    BY <2>2 DEF SetFilter
  <2>3. CASE RefreshNow
    <3>1. /\ Load(filter, {}, FALSE) /\ filter' = filter
          /\ UNCHANGED <<page, table, list, checked, calls, others>>
          /\ UNCHANGED <<handoff, form, editing, tab, asks, ports>>
      BY <2>3 DEF RefreshNow, workflowVars
    <3>2. filter \in {"all", "running", "failed"}
      BY DEF WorkflowInv, WorkflowTypeOK
    <3> QED BY <3>1, <3>2
  <2> QED BY <2>1, <2>2, <2>3
<1>2. WorkflowTypeOK /\ WorkflowTypeOK'
  <2>1. WorkflowTypeOK /\ filter \in {"all", "running", "failed"}
    BY DEF WorkflowInv, WorkflowTypeOK
  <2>2. filter' \in {"all", "running", "failed"} /\ UNCHANGED <<form, editing, tab, asks, ports>>
    BY <1>1, <2>1
  <2> QED BY ONLY <2>1, <2>2, SameForm
<1>3. ListsInv' /\ Len(loads') = Len(loads) + 1
  <2>1. Filtered(f, table) \in Table /\ CallsInv
    BY FilteredIsTable DEF ListsInv
  <2>2. CallsInv'
    BY <1>1, <2>1, SameCalls
  <2> QED BY <1>1, <2>1, <2>2, GetKeeps DEF Load
<1>4. WorkflowInv'
  BY <1>1, <1>2 DEF WorkflowInv, NeedsReview, Deployments, Shows
<1>5. Len(loads') >= Len(loads) /\ Len(asks') >= Len(asks)
  <2>1. Len(loads) \in Nat /\ Len(asks) \in Nat /\ asks' = asks
    BY <1>1, <1>2, Lengths
  <2> QED BY <1>3, <2>1
<1> QED BY <1>1, <1>2, <1>3, <1>4, <1>5, Calm

\* A list is answered, and a link has its effect.
LEMMA ListAnsweredKeeps ==
    ASSUME page = "workflow", ListsInv, WorkflowInv, NEW i, ListAnswered(i)
    PROVE  ListsInv' /\ WorkflowInv' /\ FormStays /\ NothingStarts
<1>1. /\ ListsInv' /\ UNCHANGED <<page, table, acts>>
      /\ \A d \in calls' : \E c \in calls : Alike(c, d)
  BY AnsweredKeeps DEF ListAnswered
<1>2. /\ WorkflowTypeOK /\ UNCHANGED <<handoff, filter>>
      /\ ServerHandoff \/ TemplateHandoff(Requested(Templates)) \/ NoHandoff
  BY DEF ListAnswered, WorkflowInv
<1>3. handoff = "server" => Requested(Servers) \in Servers
  BY DEF WorkflowInv, Requested
<1>4. handoff \in {"preview", "edit"} => Requested(Templates) \in Templates
  BY DEF WorkflowInv, Requested
<1>5. asks \in Seq(Servers) /\ ports \in Targets /\ form \in Form
  BY <1>2 DEF WorkflowTypeOK, Targets, Form
<1>6. /\ asks' \in Seq(Servers) /\ ports' \in Targets /\ Len(asks') >= Len(asks)
  <2>1. CASE UNCHANGED <<asks, ports>>
    <3>1. Len(asks) \in Nat
      BY <1>5
    <3> QED BY <1>5, <2>1, <3>1
  <2>2. CASE handoff = "server" /\ PortsEffect(Requested(Servers))
    BY <1>3, <1>5, <2>2, PortsEffectTypes DEF Targets
  <2>3. CASE PortsEffect(NoServer)
    BY <1>5, <2>3, PortsEffectTypes DEF Targets
  <2> QED BY <1>2, <2>1, <2>2, <2>3 DEF ServerHandoff, TemplateHandoff, NoHandoff, ApplyTemplate
<1>7. form' \in Form /\ \A f \in DOMAIN form : form'[f] # form[f] => f \in Relinked
  <2>1. CASE UNCHANGED form
    BY <1>5, <2>1
  <2>2. CASE ServerHandoff
    <3>1. handoff = "server" /\ form' = [form EXCEPT !.server = Requested(Servers)]
      BY <2>2 DEF ServerHandoff
    <3> QED BY <1>3, <1>5, <3>1 DEF Form, Relinked
  <2>3. CASE TemplateHandoff(Requested(Templates))
    <3>1. CASE handoff = "edit"
      <4>1. form' = [image |-> "template", port |-> "template", server |-> NoServer,
                     title |-> "template"]
        BY <2>3, <3>1 DEF TemplateHandoff, ApplyTemplate
      <4> QED BY <3>1, <4>1 DEF Form, Relinked
    <3>2. CASE handoff = "preview"
      <4>1. form' = [form EXCEPT !.title = "template"]
        BY <2>3, <3>2 DEF TemplateHandoff
      <4> QED BY <1>5, <3>2, <4>1 DEF Form, Relinked
    <3> QED BY <2>3, <3>1, <3>2 DEF TemplateHandoff
  <2> QED BY <1>2, <2>1, <2>2, <2>3 DEF NoHandoff
<1>8. editing' \in Templates \cup {NoRow}
  BY <1>2, <1>4 DEF ServerHandoff, TemplateHandoff, NoHandoff, WorkflowTypeOK
<1>9. tab' \in {"create", "live", "templates"} /\ (NeedsReview(list') => Shows(tab'))
  <2>1. tab \in {"create", "live", "templates"} /\ (NeedsReview(list) => Shows(tab))
    BY <1>2 DEF WorkflowTypeOK, WorkflowInv
  <2>2. CASE ServerHandoff
    <3>1. handoff = "server" /\ tab' \in HandedTab
      BY <2>2 DEF ServerHandoff
    <3> QED BY <2>1, <3>1, HandedTypes DEF Shows
  <2>3. CASE tab' = AfterList(tab)
    BY <2>1, <2>3, AfterListTypes DEF Shows
  <2> QED BY <1>2, <2>2, <2>3 DEF TemplateHandoff, NoHandoff
<1>10. WorkflowInv'
  <2>1. WorkflowTypeOK'
    BY <1>2, <1>6, <1>7, <1>8, <1>9 DEF WorkflowTypeOK, Targets, Form
  <2> QED BY <1>1, <1>2, <1>9, <2>1 DEF WorkflowInv, NeedsReview, Deployments, Shows
<1>11. FormStays
  <2>1. ~(Len(asks') < Len(asks))
    <3>1. Len(asks) \in Nat /\ Len(asks') \in Nat
      BY <1>5, <1>6
    <3> QED BY <1>6, <3>1
  <2> QED BY <1>7, <2>1 DEF FormStays
<1>12. NothingStarts
  BY <1>1 DEF NothingStarts
<1> QED BY <1>1, <1>10, <1>11, <1>12

\* A request goes out.
LEMMA SendsKeep ==
    ASSUME page = "workflow", ListsInv, WorkflowInv,
           NEW op \in {"create", "deploy", "save", "duplicate", "delete"}, NEW about \in RowOrNone,
           NEW r \in RowOrNone, NEW value \in (Contents \ {Bad}) \cup {NoRow},
           NEW seen \in Rendered, Sends(op, about, r, value, seen),
           op = "save" => r \in Templates \cup {NoRow},
           op = "create" => tab = "create", op = "deploy" => tab = "templates"
    PROVE  ListsInv' /\ WorkflowInv' /\ FormStays /\ NothingStarts
<1> DEFINE n == [op |-> op, about |-> about, row |-> r, value |-> value,
                 seen |-> seen, stage |-> "sent", noted |-> TRUE]
<1>1. /\ Send(op, about, r, value, seen)
      /\ UNCHANGED <<page, table, list, checked, loads, others, handoff, filter, form, editing, tab,
                     asks, ports>>
  BY DEF Sends, Unsent, workflowVars
<1>2. seen \in Rendered
  OBVIOUS
<1>3. n \in PageCall /\ n.op = op /\ n.row = r /\ n.value = value /\ n.seen = seen /\ n.stage = "sent"
  BY <1>2 DEF PageCall, Held
<1>4. n = [op |-> op, about |-> about, row |-> r, value |-> value,
           seen |-> seen, stage |-> "sent", noted |-> TRUE]
  OBVIOUS
<1> HIDE DEF n
<1>5. Sound(n)
  BY <1>2, <1>3 DEF Sound
<1>6. CallsInv /\ page' = page
  BY <1>1 DEF ListsInv
<1>7. CallsInv' /\ \A d \in calls' : d = n \/ \E c \in calls : Alike(c, d)
  BY <1>1, <1>3, <1>4, <1>5, <1>6, SendIsSound
<1>8. ListsInv'
  BY <1>1, <1>7, CallsStep
<1>9. WorkflowInv'
  BY <1>1, SameWorkflow DEF workflowVars
<1>10. FormStays
  <2>1. Len(loads') = Len(loads) /\ Len(asks') = Len(asks)
    BY <1>1
  <2>2. Len(loads) \in Nat /\ Len(asks) \in Nat
    BY Lengths DEF WorkflowInv
  <2>3. ~(Len(loads') < Len(loads)) /\ ~(Len(asks') < Len(asks)) /\ list' = list
    BY <1>1, <2>1, <2>2
  <2> QED BY <2>3 DEF FormStays
<1>11. NothingStarts
  <2>1. Rollout(n) => ~NeedsReview(list)
    BY <1>3 DEF Rollout, Barred, WorkflowInv, Shows
  <2> QED BY <1>7, <2>1 DEF NothingStarts
<1> QED BY <1>8, <1>9, <1>10, <1>11

LEMMA RememberedTypes ==
    ASSUME WorkflowTypeOK
    PROVE  /\ Remembered \in Rendered
           /\ [Remembered EXCEPT !.server = form.server, !.ports = ports] \in Rendered
           /\ [Remembered EXCEPT !.editing = editing] \in Rendered
BY DEF WorkflowTypeOK, Remembered, Rendered, Targets

LEMMA RequestKeeps ==
    ASSUME page = "workflow", ListsInv, WorkflowInv,
           \/ Submit \/ SaveTemplate
           \/ \E r \in Templates : DeployTemplate(r) \/ DuplicateTemplate(r)
           \/ \E r \in Rows : Delete(r)
    PROVE  ListsInv' /\ WorkflowInv' /\ FormStays /\ NothingStarts
<1>1. Fresh \in (Contents \ {Bad}) \cup {NoRow}
  BY DEF Fresh
<1>2. editing \in Templates \cup {NoRow} /\ editing \in RowOrNone
  BY DEF WorkflowInv, WorkflowTypeOK, RowOrNone
<1>3. /\ Remembered \in Rendered
      /\ [Remembered EXCEPT !.server = form.server, !.ports = ports] \in Rendered
      /\ [Remembered EXCEPT !.editing = editing] \in Rendered
  BY RememberedTypes DEF WorkflowInv
<1>4. CASE Submit
  BY <1>1, <1>3, <1>4, SendsKeep DEF Submit, RowOrNone
<1>5. CASE SaveTemplate
  BY <1>1, <1>2, <1>3, <1>5, SendsKeep DEF SaveTemplate, RowOrNone
<1>6. ASSUME NEW r \in Templates, DeployTemplate(r)
      PROVE  ListsInv' /\ WorkflowInv' /\ FormStays /\ NothingStarts
  BY <1>1, <1>3, <1>6, SendsKeep DEF DeployTemplate, RowOrNone
<1>7. ASSUME NEW r \in Templates, DuplicateTemplate(r)
      PROVE  ListsInv' /\ WorkflowInv' /\ FormStays /\ NothingStarts
  BY <1>1, <1>3, <1>7, SendsKeep DEF DuplicateTemplate, RowOrNone
<1>8. ASSUME NEW r \in Rows, Delete(r)
      PROVE  ListsInv' /\ WorkflowInv' /\ FormStays /\ NothingStarts
  BY <1>3, <1>8, SendsKeep DEF Delete, RowOrNone
<1> QED BY <1>4, <1>5, <1>6, <1>7, <1>8

\* What is under way when a request is over.
LEMMA OverFollows ==
    ASSUME CallsInv, NEW done \in SUBSET calls, calls' = Over(done)
    PROVE  NothingStarts
<1>1. calls \ done \in SUBSET PageCall /\ calls' = Forget(calls \ done, {c.op : c \in done})
  BY DEF CallsInv, Over
<1>2. \A d \in calls' : \E c \in calls : Alike(c, d)
  BY <1>1, Forgotten
<1> QED BY <1>2 DEF NothingStarts

\* And when one moves on.
LEMMA MovedFollows ==
    ASSUME CallsInv, NEW c \in calls, NEW n, n.stage # "sent", calls' = (calls \ {c}) \cup {n}
    PROVE  NothingStarts
<1>1. \A d \in calls : Alike(d, d)
  BY DEF Alike, CallsInv, PageCall
<1> QED BY <1>1 DEF NothingStarts, Rollout

\* A request is answered.
LEMMA RequestAnsweredKeeps ==
    ASSUME page = "workflow", ListsInv, WorkflowInv, NEW c \in calls, Answered(c)
    PROVE  ListsInv' /\ WorkflowInv' /\ FormStays /\ NothingStarts
<1>1. /\ c.stage = "done" /\ calls' = At(c, "loading")
      /\ Load(c.seen.filter, {Awaited(c)}, FALSE)
      /\ UNCHANGED <<page, table, list, checked, others, acts, handoff, filter>>
  BY DEF Answered
<1>2. WorkflowTypeOK /\ CallsInv /\ c \in PageCall /\ Sound(c) /\ c.seen \in Rendered
  BY DEF WorkflowInv, ListsInv, CallsInv, Sound
<1>3. CallsInv' /\ ListsInv' /\ Len(loads') = Len(loads) + 1
  <2>1. CallsInv'
    BY <1>1, <1>2, AtIsSound
  <2>2. Filtered(c.seen.filter, table) \in Table /\ {Awaited(c)} \in SUBSET PageCall
    BY <1>2, FilteredIsTable, AwaitedIsCall DEF ListsInv
  <2> QED BY <1>1, <2>1, <2>2, GetKeeps DEF Load
<1>4. asks \in Seq(Servers) /\ ports \in Targets /\ form \in Form
  BY <1>2 DEF WorkflowTypeOK, Targets, Form
<1>5. asks' \in Seq(Servers) /\ ports' \in Targets /\ Len(asks') >= Len(asks)
  <2>1. CASE c.op # "create"
    <3>1. UNCHANGED <<asks, ports>> /\ Len(asks) \in Nat
      BY <1>2, <2>1, Lengths DEF Answered
    <3>2. Len(asks') >= Len(asks)
      BY ONLY <3>1
    <3> QED BY <1>4, <3>1, <3>2
  <2>2. CASE c.op = "create"
    <3>1. c.seen.server \in Targets /\ PortsEffect(c.seen.server)
      BY <1>2, <2>2 DEF Rendered, Answered
    <3> QED BY <1>4, <3>1, PortsEffectTypes
  <2> QED BY <2>1, <2>2
<1>6. form' \in Form
  <2>1. c.seen.server \in Targets /\ c.seen.ports \in Targets
    BY <1>2 DEF Rendered
  <2>2. CASE c.op = "create"
    BY <1>4, <2>1, <2>2 DEF Answered, AnsweredForm, EmptyForm, Targets, Form
  <2>3. CASE c.op # "create"
    BY <1>4, <2>3 DEF Answered, AnsweredForm, Form
  <2> QED BY <2>2, <2>3
<1>7. tab' \in {"create", "live", "templates"} /\ (NeedsReview(list) => tab' \in {tab, "live"})
  BY <1>2, TurnedTypes DEF Answered, WorkflowTypeOK
<1>8. WorkflowTypeOK'
  <2>1. editing' \in Templates \cup {NoRow}
    BY <1>1, <1>2 DEF Answered, Sound, WorkflowTypeOK
  <2> QED BY <1>1, <1>2, <1>5, <1>6, <1>7, <2>1 DEF WorkflowTypeOK, Targets, Form
<1>9. WorkflowInv'
  BY <1>1, <1>7, <1>8 DEF WorkflowInv, NeedsReview, Deployments, Shows
<1>10. NothingStarts
  <2> DEFINE n == [c EXCEPT !.stage = "loading"]
  <2>1. n.stage # "sent" /\ calls' = (calls \ {c}) \cup {n}
    BY <1>1, <1>2 DEF At, PageCall
  <2> HIDE DEF n
  <2> QED BY <1>2, <2>1, MovedFollows
<1>11. FormStays
  <2>1. Len(loads) \in Nat /\ Len(asks) \in Nat
    BY <1>2, Lengths
  <2>2. Len(asks') \in Nat
    <3>1. asks' \in Seq(Servers)
      BY <1>5
    <3> QED BY ONLY <3>1
  <2>3. Len(loads') = Len(loads) + 1 /\ Len(asks') >= Len(asks)
    BY <1>3, <1>5
  <2>4. ~(Len(loads') < Len(loads)) /\ ~(Len(asks') < Len(asks))
    BY ONLY <2>1, <2>2, <2>3
  <2> QED BY <1>1, <2>4 DEF FormStays
<1> QED BY <1>3, <1>9, <1>10, <1>11

LEMMA ServedFollows ==
    ASSUME ListsInv, NEW c \in calls, NEW new, Serve(c, new) PROVE NothingStarts
<1>1. CallsInv /\ c \in PageCall
  BY DEF ListsInv, CallsInv
<1>2. CASE calls' = At(c, "refused")
  <2> DEFINE n == [c EXCEPT !.stage = "refused"]
  <2>1. n.stage # "sent" /\ calls' = (calls \ {c}) \cup {n}
    BY <1>1, <1>2 DEF At, PageCall
  <2> HIDE DEF n
  <2> QED BY <1>1, <2>1, MovedFollows
<1>3. ASSUME NEW r, calls' = (calls \ {c}) \cup {[c EXCEPT !.stage = "done", !.row = r]}
      PROVE  NothingStarts
  <2> DEFINE n == [c EXCEPT !.stage = "done", !.row = r]
  <2>1. n.stage # "sent" /\ calls' = (calls \ {c}) \cup {n}
    BY <1>1, <1>3 DEF PageCall
  <2> HIDE DEF n
  <2> QED BY <1>1, <2>1, MovedFollows
<1> QED BY <1>2, <1>3 DEF Serve

\* The table is changed, and the page does not know yet.
LEMMA UnseenKeeps ==
    ASSUME page = "workflow", ListsInv, WorkflowInv, NothingStarts, ListsInv',
           UNCHANGED <<page, list, loads, workflowVars>>
    PROVE  WorkflowInv' /\ FormStays
<1>1. WorkflowInv'
  BY SameWorkflow
<1>2. FormStays
  BY DEF FormStays, workflowVars
<1> QED BY <1>1, <1>2

LEMMA WorkflowStep ==
    ASSUME page = "workflow", ListsInv, WorkflowInv, WorkflowNext
    PROVE  ListsInv' /\ WorkflowInv' /\ FormStays /\ NothingStarts
<1>1. CASE Refresh \/ RefreshNow \/ \E f \in {"all", "running", "failed"} : SetFilter(f)
  BY <1>1, LoadKeeps
<1>2. CASE \E i \in DOMAIN loads : ListAnswered(i)
  BY <1>2, ListAnsweredKeeps
<1>3. CASE \E i \in DOMAIN asks : PortsAnswered(i)
  BY <1>3, PortsKeep
<1>4. CASE \/ TypeImage \/ TypePort \/ TypeTitle \/ UseSuggestedPort
           \/ \E s \in Servers \cup {NoServer} : ChooseServer(s)
  BY <1>4, FormKeeps
<1>5. CASE \/ \E t \in {"create", "live", "templates"} : ShowTab(t)
           \/ FollowNextStep \/ CancelEditing
           \/ \E r \in Templates : EditTemplate(r, TRUE) \/ EditTemplate(r, FALSE)
  BY <1>5, TabKeeps
<1>6. CASE \/ Submit \/ SaveTemplate
           \/ \E r \in Templates : DeployTemplate(r) \/ DuplicateTemplate(r)
           \/ \E r \in Rows : Delete(r)
  BY <1>6, RequestKeeps
<1>7. ASSUME NEW c \in calls, Answered(c)
      PROVE  ListsInv' /\ WorkflowInv' /\ FormStays /\ NothingStarts
  BY <1>7, RequestAnsweredKeeps
<1>8. ASSUME NEW c \in calls, Refused(c)
      PROVE  ListsInv' /\ WorkflowInv' /\ FormStays /\ NothingStarts
  <2>1. /\ calls' = Over({c}) /\ {c} \in SUBSET calls /\ CallsInv
        /\ UNCHANGED <<page, table, list, checked, loads, others, workflowVars>>
    BY <1>8 DEF Refused, Unsent, ListsInv
  <2>2. CallsInv' /\ NothingStarts
    BY <2>1, OverIsSound, OverFollows
  <2>3. ListsInv'
    BY <2>1, <2>2, CallsStep
  <2> QED BY <2>1, <2>2, <2>3, UnseenKeeps
<1>9. CASE Others /\ UNCHANGED workflowVars
  <2>1. ListsInv' /\ UNCHANGED <<page, list, loads, calls>>
    BY <1>9, OthersKeep
  <2>2. NothingStarts
    <3>1. \A c \in calls : Alike(c, c)
      BY DEF Alike, ListsInv, CallsInv, PageCall
    <3> QED BY <2>1, <3>1 DEF NothingStarts
  <2> QED BY <1>9, <2>1, <2>2, UnseenKeeps
<1>10. ASSUME NEW c \in calls, Serve(c, New(c.op)), UNCHANGED workflowVars
       PROVE  ListsInv' /\ WorkflowInv' /\ FormStays /\ NothingStarts
  <2>1. New(c.op) \subseteq Rows /\ (c.op = "save" => New(c.op) \subseteq Templates)
    BY DEF New
  <2>2. ListsInv' /\ UNCHANGED <<page, list, loads>>
    BY <1>10, <2>1, ServeKeeps
  <2>3. NothingStarts
    BY <1>10, ServedFollows
  <2> QED BY <1>10, <2>2, <2>3, UnseenKeeps
<1> QED BY <1>1, <1>2, <1>3, <1>4, <1>5, <1>6, <1>7, <1>8, <1>9, <1>10 DEF WorkflowNext

-----------------------------------------------------------------------------
(* The page of one deployment. *)

DetailInv == draft \in Held

LEMMA IdIsRow == page \in Pages /\ page = "detail" => Id \in Rows
BY DEF Id

LEMMA DetailsKeep ==
    ASSUME page = "detail", ListsInv, DetailInv, NEW i, DetailsAnswered(i)
    PROVE  ListsInv' /\ DetailInv'
<1>1. /\ i \in DOMAIN loads /\ loads[i].rows \in Table /\ loads[i].silent \in BOOLEAN
      /\ Fallback(i) \in Table
  BY AnswersAreTables DEF DetailsAnswered
<1>2. CASE DetailsArrived(i)
  <2>1. /\ loads' = RemoveAt(loads, i) /\ list' = loads[i].rows /\ checked' = TRUE
        /\ draft' = loads[i].rows[Id] /\ UNCHANGED <<page, table, calls, others, acts>>
    BY <1>2 DEF DetailsArrived
  <2>2. draft' \in Held
    BY <1>1, <2>1, IdIsRow DEF Table, Held, ListsInv
  <2>3. loads' \in Seq(Answer)
    BY <1>1, <2>1, Removed DEF ListsInv
  <2>4. CallsInv'
    BY <2>1, SameCalls DEF ListsInv
  <2>5. Table' = Table /\ Answer' = Answer
    BY <2>1, SameTables
  <2> QED BY <1>1, <2>1, <2>2, <2>3, <2>4, <2>5 DEF ListsInv, DetailInv
<1>3. CASE DetailsFailed(i)
  <2>1. Show(i, Fallback(i)) /\ others' \in 0..MaxOthers /\ UNCHANGED draft
    BY <1>3 DEF DetailsFailed, Failed, ListsInv
  <2> QED BY <1>1, <2>1, ShowKeeps DEF DetailInv
<1> QED BY <1>2, <1>3 DEF DetailsAnswered

LEMMA ChecksKeep ==
    ASSUME page = "detail", ListsInv, DetailInv, NEW i, ChecksAnswered(i)
    PROVE  ListsInv' /\ DetailInv'
<1>1. UNCHANGED <<page, table, loads, checked, acts, draft>>
  BY DEF ChecksAnswered
<1>2. list' \in Table
  BY NothingIsTable DEF ChecksAnswered, ChecksSettled, ActivityFailed, ListsInv
<1>3. others' \in 0..MaxOthers
  BY DEF ChecksAnswered, ChecksSettled, ActivityFailed, ListsInv
<1>4. CallsInv'
  <2>1. PICK done \in SUBSET calls : calls' = Over(done)
    BY DEF ChecksAnswered
  <2> QED BY <1>1, <2>1, OverIsSound DEF ListsInv
<1>5. Table' = Table /\ Answer' = Answer
  BY <1>1, SameTables
<1> QED BY <1>1, <1>2, <1>3, <1>4, <1>5 DEF ListsInv, DetailInv

LEMMA RequestedKeeps ==
    ASSUME page = "detail", ListsInv, DetailInv, NEW op \in {"redeploy", "delete", "save"},
           NEW r \in {Id, NoRow}, NEW value \in Held, Request(op, r, value)
    PROVE  ListsInv' /\ DetailInv'
<1> DEFINE n == [op |-> op, about |-> Id, row |-> r, value |-> value,
                 seen |-> "form", stage |-> "sent", noted |-> TRUE]
<1>1. /\ Send(op, Id, r, value, "form")
      /\ UNCHANGED <<page, table, list, checked, loads, others, draft>>
  BY DEF Request
<1>2. n \in PageCall /\ n.stage = "sent" /\ n.op = op
  BY IdIsRow DEF PageCall, RowOrNone, ListsInv
<1>3. n = [op |-> op, about |-> Id, row |-> r, value |-> value,
           seen |-> "form", stage |-> "sent", noted |-> TRUE]
  OBVIOUS
<1> HIDE DEF n
<1>4. Sound(n)
  BY <1>2 DEF Sound
<1>5. CallsInv'
  BY <1>1, <1>2, <1>3, <1>4, SendIsSound DEF ListsInv
<1> QED BY <1>1, <1>5, CallsStep DEF DetailInv

LEMMA DetailDoneKeeps ==
    ASSUME page = "detail", ListsInv, DetailInv, NEW c \in calls, DetailDone(c)
    PROVE  ListsInv' /\ DetailInv'
<1>1. UNCHANGED <<page, table, others, acts, draft>>
  BY DEF DetailDone
<1>2. Table' = Table /\ Answer' = Answer
  BY <1>1, SameTables
<1>3. CallsInv /\ c \in PageCall
  BY DEF ListsInv, CallsInv
<1>4. CASE c.op = "redeploy"
  <2>1. calls' = At(c, "loading") /\ Get(table, {Awaited(c)}, FALSE) /\ UNCHANGED <<list, checked>>
    BY <1>4 DEF DetailDone
  <2>2. CallsInv'
    BY <1>1, <1>3, <2>1, AtIsSound
  <2>3. {Awaited(c)} \in SUBSET PageCall /\ table \in Table
    BY <1>3, AwaitedIsCall DEF ListsInv
  <2> QED BY <1>1, <2>1, <2>2, <2>3, GetKeeps DEF DetailInv
<1>5. CASE c.op = "delete"
  <2>1. calls' = {} /\ loads' = <<>> /\ list' = Nothing /\ checked' = FALSE
    BY <1>5 DEF DetailDone
  <2>2. loads' \in Seq(Answer)
    BY <2>1
  <2> QED BY <1>1, <1>2, <2>1, <2>2, NothingIsTable DEF ListsInv, CallsInv, DetailInv
<1>6. CASE c.op = "save"
  <2>1. calls' = Over({c}) /\ UNCHANGED <<list, checked, loads>>
    BY <1>6 DEF DetailDone
  <2>2. CallsInv'
    BY <1>1, <1>3, <2>1, OverIsSound
  <2> QED BY <1>1, <2>1, <2>2, CallsStep DEF DetailInv
<1>7. c.op \in {"redeploy", "delete", "save"}
  BY <1>3 DEF CallsInv, Sound
<1> QED BY <1>4, <1>5, <1>6, <1>7

LEMMA DetailStep ==
    ASSUME page = "detail", ListsInv, DetailInv, DetailNext PROVE ListsInv' /\ DetailInv'
<1>1. CASE \E i \in DOMAIN loads : DetailsAnswered(i)
  BY <1>1, DetailsKeep
<1>2. CASE \E i \in DOMAIN checks : ChecksAnswered(i)
  BY <1>2, ChecksKeep
<1>3. ASSUME NEW s \in BOOLEAN, RefreshDetails(s) PROVE ListsInv' /\ DetailInv'
  <2>1. Get(table, {}, s) /\ UNCHANGED <<page, table, list, checked, calls, others, draft>>
    BY <1>3 DEF RefreshDetails, detailVars
  <2>2. CallsInv'
    BY <2>1, SameCalls DEF ListsInv
  <2> QED BY <2>1, <2>2, GetKeeps DEF DetailInv, ListsInv
<1>4. ASSUME NEW v \in Contents \cup {NoRow}, EditDraft(v) PROVE ListsInv' /\ DetailInv'
  BY <1>4, WorldKeeps DEF EditDraft, DetailInv, Held
<1>5. ASSUME NEW what \in Reviewed, OpenReview(what) \/ CancelReview(what) \/ TypePhrase(what)
      PROVE  ListsInv' /\ DetailInv'
  BY <1>5, WorldKeeps DEF OpenReview, CancelReview, TypePhrase, DetailInv
<1>6. CASE Redeploy
  BY <1>6, RequestedKeeps DEF Redeploy, DetailInv
<1>7. CASE DeleteDeployment
  BY <1>7, RequestedKeeps DEF DeleteDeployment, Held
<1>8. CASE SaveAsTemplate
  BY <1>8, RequestedKeeps DEF SaveAsTemplate, DetailInv
<1>9. ASSUME NEW c \in calls, DetailDone(c) PROVE ListsInv' /\ DetailInv'
  BY <1>9, DetailDoneKeeps
<1>10. ASSUME NEW c \in calls, DetailRefused(c) PROVE ListsInv' /\ DetailInv'
  <2>1. calls' = Over({c}) /\ UNCHANGED <<page, table, list, checked, loads, others, draft>>
    BY <1>10 DEF DetailRefused, detailVars
  <2>2. CallsInv'
    BY <2>1, OverIsSound DEF ListsInv
  <2> QED BY <2>1, <2>2, CallsStep DEF DetailInv
<1>11. CASE Others /\ UNCHANGED draft
  BY <1>11, OthersKeep DEF DetailInv
<1>12. ASSUME NEW c \in calls, DetailServed(c), UNCHANGED draft PROVE ListsInv' /\ DetailInv'
  <2>1. Templates \subseteq Rows
    OBVIOUS
  <2> QED BY <1>12, <2>1, ServeKeeps DEF DetailServed, DetailInv
<1> QED BY <1>1, <1>2, <1>3, <1>4, <1>5, <1>6, <1>7, <1>8, <1>9, <1>10, <1>11, <1>12
        DEF DetailNext

-----------------------------------------------------------------------------
(* The server review page. *)

Forms == [of : RowOrNone, text : Held]
Results == [Kinds -> [Rows -> Held]]

ReviewInv ==
    edits \in Forms /\ results \in Results /\ selectedId \in RowOrNone /\ EditsGoHome

LEMMA FirstIsRow == ASSUME NEW S \in SUBSET Rows PROVE First(S) \in RowOrNone
BY DEF First, RowOrNone

LEMMA RefillIsForm ==
    ASSUME NEW rows \in Table, NEW sel, NEW seg, NEW res
    PROVE  /\ SelectedItem(rows, sel, seg, res) \in RowOrNone
           /\ Refill(rows, sel, seg, res) \in Forms
           /\ Refill(rows, sel, seg, res).of = SelectedItem(rows, sel, seg, res)
<1>1. ASSUME NEW S \in SUBSET Rows PROVE First(S) \in RowOrNone
  BY FirstIsRow
<1>2. SelectedItem(rows, sel, seg, res) \in RowOrNone
  <2> DEFINE items == {r \in Rows : rows[r] # NoRow}
             filtered == {r \in items : seg = "all" \/ (seg = "ready" <=> Ready(res, r))}
  <2>1. items \in SUBSET Rows /\ filtered \in SUBSET Rows
    OBVIOUS
  <2>2. First(items) \in RowOrNone /\ First(filtered) \in RowOrNone
    BY <1>1, <2>1
  <2>3. SelectedItem(rows, sel, seg, res) =
          IF sel \in items THEN sel ELSE IF filtered # {} THEN First(filtered) ELSE First(items)
    BY DEF SelectedItem
  <2>4. sel \in items => sel \in RowOrNone
    BY <2>1 DEF RowOrNone
  <2> HIDE DEF items, filtered
  <2> QED BY <2>2, <2>3, <2>4
<1>3. ASSUME NEW r \in RowOrNone PROVE EditForm(rows, r) \in Forms /\ EditForm(rows, r).of = r
  BY DEF EditForm, Forms, RowOrNone, Held, Table
<1> QED BY <1>2, <1>3 DEF Refill

\* A step after which the form is that of the item that is selected then.
LEMMA RefilledKeeps ==
    ASSUME ListsInv', page' = page, results' \in Results, selectedId' \in RowOrNone,
           edits' = Refill(list', selectedId', segment', results')
    PROVE  ReviewInv'
<1>1. list' \in Table
  <2>1. list' \in Table' /\ Table' = Table
    BY SameTables DEF ListsInv
  <2> QED BY <2>1
<1>2. edits' \in Forms /\ edits'.of = SelectedItem(list', selectedId', segment', results')
  BY <1>1, RefillIsForm
<1> QED BY <1>2 DEF ReviewInv, EditsGoHome, Selected

LEMMA UntouchedKeeps ==
    ASSUME ReviewInv, UNCHANGED <<page, list, reviewVars>> PROVE ReviewInv'
BY DEF ReviewInv, EditsGoHome, Selected, reviewVars

\* The user selects a server, or others to look at.
LEMMA ClickKeeps ==
    ASSUME page = "servers", ListsInv, ReviewInv, NEW sel \in RowOrNone, NEW seg, UNCHANGED <<world, results>>,
           selectedId' = sel, segment' = seg, edits' = EditEffect(sel, seg)
    PROVE  ListsInv' /\ ReviewInv'
<1>1. ListsInv'
  BY WorldKeeps
<1>2. page' = page /\ list' = list /\ results' = results /\ results' \in Results /\ list \in Table
  BY DEF world, ReviewInv, ListsInv
<1>3. CASE sel = selectedId /\ SelectedItem(list, sel, seg, results) = Selected
  <2>1. edits' = edits
    BY <1>3 DEF EditEffect
  <2>2. Selected' = Selected
    BY <1>2, <1>3 DEF Selected
  <2> QED BY <1>1, <1>2, <2>1, <2>2 DEF ReviewInv, EditsGoHome
<1>4. CASE ~(sel = selectedId /\ SelectedItem(list, sel, seg, results) = Selected)
  <2>1. edits' = Refill(list', selectedId', segment', results')
    BY <1>2, <1>4 DEF EditEffect
  <2> QED BY <1>1, <1>2, <2>1, RefilledKeeps
<1> QED BY <1>3, <1>4

\* A request of the page goes out.
LEMMA AskedKeeps ==
    ASSUME page = "servers", ListsInv, ReviewInv, NEW op \in {"create", "update", "delete", "check"},
           NEW about \in RowOrNone, NEW r \in RowOrNone, NEW value \in Held,
           NEW seen \in {"form"} \cup Kinds, op = "check" => r \in Rows /\ seen \in Kinds,
           Send(op, about, r, value, seen), UNCHANGED Asked
    PROVE  ListsInv' /\ ReviewInv'
<1> DEFINE n == [op |-> op, about |-> about, row |-> r, value |-> value,
                 seen |-> seen, stage |-> "sent", noted |-> TRUE]
<1>1. n \in PageCall /\ n.op = op /\ n.row = r /\ n.seen = seen /\ n.stage = "sent"
  BY DEF PageCall
<1>2. n = [op |-> op, about |-> about, row |-> r, value |-> value,
           seen |-> seen, stage |-> "sent", noted |-> TRUE]
  OBVIOUS
<1> HIDE DEF n
<1>3. Sound(n)
  BY <1>1 DEF Sound
<1>4. UNCHANGED <<page, table, list, checked, loads, others, reviewVars>>
  BY DEF Asked
<1>5. CallsInv'
  BY <1>1, <1>2, <1>3, <1>4, SendIsSound DEF ListsInv
<1> QED BY <1>4, <1>5, CallsStep, UntouchedKeeps

LEMMA CheckServedKeeps ==
    ASSUME page = "servers", ListsInv, ReviewInv, NEW c \in calls, ServeCheck(c)
    PROVE  ListsInv' /\ ReviewInv'
<1>1. /\ c \in PageCall /\ Sound(c) /\ c.row \in Rows /\ c.seen \in Kinds /\ CallsInv
  BY DEF ListsInv, CallsInv, Sound, ServeCheck
<1>2. PICK v \in {table[c.row], Bad} : calls' =
        (calls \ {c}) \cup {[c EXCEPT !.value = v,
                                      !.stage = IF table[c.row] = NoRow THEN "refused" ELSE "done"]}
  BY DEF ServeCheck
<1> DEFINE stage == IF table[c.row] = NoRow THEN "refused" ELSE "done"
           n == [c EXCEPT !.value = v, !.stage = stage]
<1>3. stage \in {"refused", "done"} /\ v \in Held /\ (stage = "done" => v \in Contents)
  BY <1>1 DEF ListsInv, Table, Held
<1>4. calls' = (calls \ {c}) \cup {n}
  BY <1>2
<1> HIDE DEF stage
<1>5. /\ n \in PageCall /\ n.op = c.op /\ n.row = c.row /\ n.seen = c.seen
      /\ n.value = v /\ n.stage = stage
  BY <1>1, <1>3 DEF PageCall
<1> HIDE DEF n
<1>6. Sound(n)
  BY <1>1, <1>3, <1>5 DEF Sound
<1>7. UNCHANGED <<page, table, list, checked, loads, others, reviewVars>>
  BY DEF ServeCheck
<1>8. CallsInv'
  BY <1>1, <1>4, <1>5, <1>6, <1>7, OneIsSound
<1> QED BY <1>7, <1>8, CallsStep, UntouchedKeeps

LEMMA ServerAnsweredKeeps ==
    ASSUME page = "servers", ListsInv, ReviewInv, NEW c \in calls, ServerAnswered(c)
    PROVE  ListsInv' /\ ReviewInv'
<1>1. /\ c \in PageCall /\ Sound(c) /\ c.stage = "done" /\ c.row \in Rows /\ CallsInv
      /\ UNCHANGED <<page, table, checked, others, acts, segment>>
  BY DEF ListsInv, CallsInv, Sound, ServerAnswered
<1>2. Table' = Table /\ Answer' = Answer
  BY <1>1, SameTables
<1>3. CASE c.op = "create"
  <2>1. /\ calls' = At(c, "loading") /\ Get(table, {Awaited(c)}, TRUE)
        /\ UNCHANGED <<list, selectedId, edits, results>>
    BY <1>3 DEF ServerAnswered
  <2>2. CallsInv'
    BY <1>1, <2>1, AtIsSound
  <2>3. {Awaited(c)} \in SUBSET PageCall /\ table \in Table
    BY <1>1, AwaitedIsCall DEF ListsInv
  <2>4. ListsInv'
    BY <1>1, <2>1, <2>2, <2>3, GetKeeps
  <2> QED BY <1>1, <2>1, <2>4, UntouchedKeeps DEF reviewVars
<1>4. CASE c.op # "create"
  <2>1. /\ calls' = Over({c}) /\ UNCHANGED loads
        /\ list' = IF c.op = "check" \/ list[c.row] = NoRow THEN list
                   ELSE [list EXCEPT ![c.row] = c.value]
        /\ results' = IF c.op = "check" THEN ResultFor(c)
                      ELSE IF c.op = "delete"
                      THEN [k \in Kinds |-> [results[k] EXCEPT ![c.row] = NoRow]] ELSE results
        /\ edits' = Refill(list', selectedId', segment, results')
    BY <1>4 DEF ServerAnswered
  <2>2. CallsInv'
    BY <1>1, <2>1, OverIsSound
  <2>3. list' \in Table
    <3>1. c.value \in Held /\ list \in Table
      BY <1>1 DEF PageCall, ListsInv
    <3> QED BY <2>1, <3>1, StoredIsTable
  <2>4. ListsInv'
    BY <1>1, <1>2, <2>1, <2>2, <2>3 DEF ListsInv
  <2>5. results' \in Results
    <3>1. results \in Results /\ c.value \in Held
      BY <1>1 DEF ReviewInv, PageCall
    <3>2. CASE c.op = "check"
      <4>1. results' = [results EXCEPT ![c.seen][c.row] = c.value]
        BY <2>1, <3>2 DEF ResultFor
      <4> QED BY <1>1, <3>1, <4>1 DEF Results
    <3>3. CASE c.op = "delete"
      <4>1. results' = [k \in Kinds |-> [results[k] EXCEPT ![c.row] = NoRow]]
        BY <2>1, <3>3
      <4> QED BY <1>1, <3>1, <4>1 DEF Results, Held
    <3> QED BY <2>1, <3>1, <3>2, <3>3
  <2>6. selectedId' \in RowOrNone
    BY <1>1, <1>4 DEF ServerAnswered, ReviewInv, RowOrNone
  <2> QED BY <1>1, <2>1, <2>4, <2>5, <2>6, RefilledKeeps
<1> QED BY <1>3, <1>4

LEMMA ReviewStep ==
    ASSUME page = "servers", ListsInv, ReviewInv, ReviewNext PROVE ListsInv' /\ ReviewInv'
<1>1. ASSUME NEW i \in DOMAIN loads, ServersAnswered(i) PROVE ListsInv' /\ ReviewInv'
  <2>1. ListsInv' /\ page' = page
    BY <1>1, AnsweredKeeps DEF ServersAnswered
  <2>2. edits' = Refill(list', selectedId', segment', results') /\ results' \in Results
    BY <1>1 DEF ServersAnswered, ReviewInv
  <2>3. selectedId' \in RowOrNone
    <3>1. CASE loads[i].waits # {}
      <4>1. loads[i].waits \in SUBSET PageCall
        <5>1. loads[i] \in Answer
          BY DEF ListsInv
        <5> QED BY <5>1 DEF Answer
      <4>2. (CHOOSE c \in loads[i].waits : TRUE) \in PageCall
        BY <3>1, <4>1
      <4> QED BY <1>1, <3>1, <4>2 DEF ServersAnswered, PageCall
    <3>2. CASE loads[i].waits = {}
      BY <1>1, <3>2, FirstIsRow DEF ServersAnswered, ReviewInv
    <3> QED BY <3>1, <3>2
  <2> QED BY <2>1, <2>2, <2>3, RefilledKeeps
<1>2. ASSUME NEW r \in Rows, SelectItem(r) PROVE ListsInv' /\ ReviewInv'
  BY <1>2, ClickKeeps DEF SelectItem, RowOrNone
<1>3. ASSUME NEW seg, SetSegment(seg) PROVE ListsInv' /\ ReviewInv'
  BY <1>3, ClickKeeps DEF SetSegment, ReviewInv
<1>4. ASSUME NEW v \in Contents, Edit(v) PROVE ListsInv' /\ ReviewInv'
  <2>1. UNCHANGED <<world, selectedId, segment, results>> /\ edits' = [edits EXCEPT !.text = v]
    BY <1>4 DEF Edit
  <2>2. edits' \in Forms /\ edits'.of = edits.of
    BY <2>1 DEF ReviewInv, Forms, Held
  <2>3. Selected' = Selected /\ page' = page
    BY <2>1 DEF Selected, world
  <2> QED BY <2>1, <2>2, <2>3, WorldKeeps DEF ReviewInv, EditsGoHome
<1>5. list \in Table /\ Selected \in RowOrNone
  BY RefillIsForm DEF ListsInv, Selected
<1>6. ASSUME NEW v \in Contents, CreateServer(v) PROVE ListsInv' /\ ReviewInv'
  BY <1>6, AskedKeeps DEF CreateServer, RowOrNone, Held
<1>7. CASE UpdateServer
  <2>1. edits.text \in Held
    BY DEF ReviewInv, Forms
  <2> QED BY <1>5, <1>7, <2>1, AskedKeeps DEF UpdateServer
<1>8. ASSUME NEW r \in Rows, DeleteServer(r) PROVE ListsInv' /\ ReviewInv'
  BY <1>8, AskedKeeps DEF DeleteServer, RowOrNone, Held
<1>9. ASSUME NEW r \in Rows, NEW kind \in Kinds, RunCheck(r, kind) PROVE ListsInv' /\ ReviewInv'
  BY <1>9, AskedKeeps DEF RunCheck, RowOrNone, Held
<1>10. ASSUME NEW c \in calls, ServeCheck(c) PROVE ListsInv' /\ ReviewInv'
  BY <1>10, CheckServedKeeps
<1>11. ASSUME NEW c \in calls, ServerAnswered(c) PROVE ListsInv' /\ ReviewInv'
  BY <1>11, ServerAnsweredKeeps
<1>12. ASSUME NEW c \in calls, ServerRefused(c) PROVE ListsInv' /\ ReviewInv'
  <2>1. calls' = Over({c}) /\ UNCHANGED <<page, table, list, checked, loads, others, reviewVars>>
    BY <1>12 DEF ServerRefused, Asked
  <2>2. CallsInv'
    BY <2>1, OverIsSound DEF ListsInv
  <2> QED BY <2>1, <2>2, CallsStep, UntouchedKeeps
<1>13. CASE Others /\ UNCHANGED reviewVars
  BY <1>13, OthersKeep, UntouchedKeeps
<1>14. ASSUME NEW c \in calls, c.op # "check", Serve(c, Rows), UNCHANGED reviewVars
       PROVE  ListsInv' /\ ReviewInv'
  BY <1>14, ServeKeeps, UntouchedKeeps
<1>15. CASE RefreshServers
  <2>1. /\ loads' = Append(loads, Fetch(table, {}, FALSE, selectedId))
        /\ UNCHANGED <<page, table, list, checked, calls, others, reviewVars>>
    BY <1>15 DEF RefreshServers
  <2>2. selectedId \in RowOrNone /\ table \in Table
    BY DEF ReviewInv, ListsInv
  <2>3. Fetch(table, {}, FALSE, selectedId) \in Answer
    BY <2>2, FetchIsAnswer
  <2>4. CallsInv'
    BY <2>1, SameCalls DEF ListsInv
  <2> QED BY <2>1, <2>3, <2>4, FetchKeeps, UntouchedKeeps
<1> QED BY <1>1, <1>2, <1>3, <1>4, <1>6, <1>7, <1>8, <1>9, <1>10, <1>11, <1>12, <1>13, <1>14, <1>15
        DEF ReviewNext

\* A server becomes ready only when its check is answered.
LEMMA ReadyStep ==
    ASSUME page = "servers", ListsInv, ReviewInv, ReviewNext,
           NEW r \in Rows, Ready(results', r), ~Ready(results, r)
    PROVE  \E c \in calls \ calls' : c.op = "check" /\ c.row = r /\ c.value # Bad
<1>1. results' # results
  OBVIOUS
<1>2. PICK c \in calls : ServerAnswered(c)
  BY <1>1 DEF ReviewNext, RefreshServers, ServersAnswered, SelectItem, SetSegment, Edit,
              CreateServer, UpdateServer, DeleteServer, RunCheck, ServeCheck, ServerRefused, Asked, reviewVars
<1>3. c \in PageCall /\ Sound(c) /\ c.stage = "done" /\ c.row \in Rows /\ c.value \in Held
  BY <1>2 DEF ListsInv, CallsInv, Sound, ServerAnswered, PageCall
<1>4. PICK k \in Kinds : results'[k][r] \in Contents \ {Bad} /\ results[k][r] \notin Contents \ {Bad}
  BY DEF Ready
<1>5. results \in Results
  BY DEF ReviewInv
<1>6. c.op # "create"
  BY <1>1, <1>2 DEF ServerAnswered
<1>7. c.op # "delete"
  <2>1. SUFFICES ASSUME c.op = "delete" PROVE FALSE
    OBVIOUS
  <2>2. results' = [l \in Kinds |-> [results[l] EXCEPT ![c.row] = NoRow]]
    BY <1>2, <2>1 DEF ServerAnswered
  <2>3. results'[k][r] \in {results[k][r], NoRow}
    BY <1>3, <1>5, <2>2 DEF Results
  <2> QED BY <1>4, <2>3
<1>8. c.op = "check" /\ calls' = Over({c}) /\ results' = [results EXCEPT ![c.seen][c.row] = c.value]
  BY <1>1, <1>2, <1>6, <1>7 DEF ServerAnswered, ResultFor
<1>9. c.row = r /\ c.value # Bad
  <2>1. c.seen \in Kinds
    BY <1>3, <1>8 DEF Sound
  <2>2. results'[k][r] = IF k = c.seen /\ r = c.row THEN c.value ELSE results[k][r]
    BY <1>3, <1>5, <1>8, <2>1 DEF Results
  <2> QED BY <1>4, <2>2
\* The buttons are enabled again: what is still under way is not what it was.
<1>10. PICK ops : "check" \in ops /\ calls' = Forget(calls \ {c}, ops)
  BY <1>8 DEF Over
<1>11. ASSUME NEW d \in calls'
       PROVE  \E e \in calls \ {c} : Alike(e, d) /\ (e.op = "check" => d.noted = FALSE)
  <2>1. calls \ {c} \in SUBSET PageCall
    BY DEF ListsInv, CallsInv
  <2>2. PICK e \in calls \ {c} :
          Alike(e, d) /\ (e.op \in ops => d.noted = FALSE) /\ (d.noted => e.noted)
    BY <1>10, <2>1, Forgotten
  <2>3. e.op = "check" => e.op \in ops
    BY <1>10
  <2>4. e.op = "check" => d.noted = FALSE
    BY <2>2, <2>3
  <2> QED BY <2>2, <2>4
<1>12. CASE c \notin calls'
  BY <1>8, <1>9, <1>12
<1>13. CASE c \in calls'
  <2>1. PICK e \in calls \ {c} : Alike(e, c) /\ (e.op = "check" => c.noted = FALSE)
    BY <1>10, <1>11, <1>13
  <2>2. e.op = "check" /\ e.row = r /\ e.value # Bad /\ c.noted = FALSE
    BY <1>8, <1>9, <2>1 DEF Alike
  <2>3. e.noted # FALSE
    <3>1. SUFFICES ASSUME e.noted = FALSE PROVE FALSE
      OBVIOUS
    <3>2. c = [e EXCEPT !.noted = FALSE] /\ e \in PageCall
      BY <2>1, <2>2 DEF Alike, ListsInv, CallsInv
    <3>3. c = e
      BY <3>1, <3>2 DEF PageCall
    <3> QED BY <3>3
  <2>4. e \notin calls'
    <3>1. SUFFICES ASSUME e \in calls' PROVE FALSE
      OBVIOUS
    <3>2. PICK f \in calls \ {c} : Alike(f, e) /\ (f.op = "check" => e.noted = FALSE)
      BY <1>10, <1>11, <3>1
    <3> QED BY <2>2, <2>3, <3>2 DEF Alike
  <2> QED BY <2>2, <2>4
<1> QED BY <1>12, <1>13

-----------------------------------------------------------------------------
(* The tab. *)

Inv == ListsInv /\ WorkflowInv /\ DetailInv /\ ReviewInv

LEMMA InvInit == Init => Inv
<1> SUFFICES ASSUME Init PROVE Inv
  OBVIOUS
<1>1. table \in Table /\ list = Nothing /\ page \in Pages
  BY DEF Init, ListingInit
<1>2. ListsInv
  <2> DEFINE a == FirstFetch
  <2>1. a \in Answer
    BY <1>1, FetchIsAnswer DEF FirstFetch, RowOrNone
  <2>2. loads = <<a>> /\ calls = {} /\ others = 0 /\ checked \in BOOLEAN
    BY DEF Init, ListingInit
  <2> HIDE DEF a
  <2>3. loads \in Seq(Answer)
    BY <2>1, <2>2
  <2>4. CallsInv
    BY <2>2 DEF CallsInv
  <2>5. others \in 0..MaxOthers
    BY <2>2
  <2> QED BY <1>1, <2>2, <2>3, <2>4, <2>5, NothingIsTable DEF ListsInv
<1>3. WorkflowInv
  <2>1. asks \in Seq(Servers)
    BY DEF Init, WorkflowInit
  <2>2. ~NeedsReview(list)
    BY <1>1 DEF NeedsReview, Deployments, Nothing
  <2> QED BY <2>1, <2>2 DEF Init, WorkflowInit, WorkflowInv, WorkflowTypeOK, EmptyForm
<1>4. DetailInv
  BY DEF Init, DetailInit, DetailInv, Held
<1>5. ReviewInv
  <2>1. SelectedItem(list, selectedId, segment, results) = NoRow
    BY <1>1 DEF Init, ReviewInit, SelectedItem, First, Nothing
  <2>2. edits = [of |-> NoRow, text |-> NoRow] /\ results \in Results
    BY DEF Init, ReviewInit, EditForm, NoResults, Nothing, Results, Held
  <2>3. selectedId \in RowOrNone
    BY DEF Init, ReviewInit, RowOrNone
  <2> QED BY <2>1, <2>2, <2>3 DEF ReviewInv, EditsGoHome, Selected, Forms, RowOrNone, Held
<1> QED BY <1>2, <1>3, <1>4, <1>5 DEF Inv

\* What a page leaves alone that is not open.
LEMMA WorkflowRests ==
    ASSUME page # "workflow", WorkflowInv, page' = page, UNCHANGED workflowVars
    PROVE  WorkflowInv' /\ FormStays /\ NothingStarts
<1>1. WorkflowTypeOK'
  <2>1. WorkflowTypeOK /\ filter' = filter /\ UNCHANGED <<form, editing, tab, asks, ports>>
    BY DEF WorkflowInv, workflowVars
  <2>2. filter \in {"all", "running", "failed"}
    BY <2>1 DEF WorkflowTypeOK
  <2> QED BY ONLY <2>1, <2>2, SameForm
<1>2. WorkflowInv'
  BY <1>1 DEF WorkflowInv, workflowVars
<1> QED BY <1>2 DEF FormStays, NothingStarts

LEMMA DetailRests == ASSUME DetailInv, UNCHANGED detailVars PROVE DetailInv'
BY DEF DetailInv, detailVars

LEMMA ReviewRests ==
    ASSUME page # "servers", ReviewInv, page' = page, UNCHANGED reviewVars PROVE ReviewInv'
BY DEF ReviewInv, EditsGoHome, reviewVars

LEMMA PageStays == ASSUME Next PROVE page' = page
<1>1. ASSUME NEW c, NEW new, Serve(c, new) PROVE page' = page
  BY <1>1 DEF Serve
<1>2. ASSUME Others PROVE page' = page
  BY <1>2 DEF Others
<1>3. ASSUME NEW i, Arrived(i) \/ Failed(i) PROVE page' = page
  BY <1>3 DEF Arrived, Failed, Show
<1>4. ASSUME NEW i, NEW rows, Show(i, rows) PROVE page' = page
  BY <1>4 DEF Show
<1>5. ASSUME WorkflowNext PROVE page' = page
  BY <1>1, <1>2, <1>3, <1>5
     DEF WorkflowNext, Refresh, RefreshNow, SetFilter, ListAnswered, PortsAnswered, TypeImage,
         TypePort, TypeTitle,
         UseSuggestedPort, ChooseServer, ShowTab, FollowNextStep, CancelEditing, EditTemplate,
         Submit, SaveTemplate, DeployTemplate, DuplicateTemplate, Delete, Sends, Unsent, Answered,
         Refused, world, listingVars
<1>6. ASSUME DetailNext PROVE page' = page
  BY <1>1, <1>2, <1>3, <1>4, <1>6
     DEF DetailNext, DetailsAnswered, DetailsArrived, DetailsFailed, ChecksAnswered,
         RefreshDetails, EditDraft, OpenReview, CancelReview, TypePhrase, Redeploy,
         DeleteDeployment, SaveAsTemplate, Request, DetailServed, DetailDone, DetailRefused, world
<1>7. ASSUME ReviewNext PROVE page' = page
  BY <1>1, <1>2, <1>3, <1>7
     DEF ReviewNext, RefreshServers, ServersAnswered, SelectItem, SetSegment, Edit, CreateServer, UpdateServer,
         DeleteServer, RunCheck, ServeCheck, ServerAnswered, ServerRefused, Asked, world
<1> QED BY <1>5, <1>6, <1>7 DEF Next

LEMMA Step == Inv /\ [Next]_vars => Inv' /\ FormStays /\ NothingStarts
<1> SUFFICES ASSUME Inv, [Next]_vars PROVE Inv' /\ FormStays /\ NothingStarts
  OBVIOUS
<1> USE DEF Inv
<1>1. CASE page = "workflow" /\ WorkflowNext /\ UNCHANGED <<detailVars, reviewVars>>
  BY <1>1, WorkflowStep, PageStays, DetailRests, ReviewRests DEF Next
<1>2. CASE page = "detail" /\ DetailNext /\ UNCHANGED <<workflowVars, reviewVars>>
  BY <1>2, DetailStep, PageStays, WorkflowRests, ReviewRests DEF Next
<1>3. CASE page = "servers" /\ ReviewNext /\ UNCHANGED <<workflowVars, detailVars>>
  BY <1>3, ReviewStep, PageStays, WorkflowRests, DetailRests DEF Next
<1>4. CASE UNCHANGED vars
  <2>1. UNCHANGED <<world, workflowVars, detailVars, reviewVars, page, list, calls>>
    BY <1>4 DEF vars, listingVars, world
  <2>2. ListsInv' /\ DetailInv' /\ ReviewInv'
    BY <2>1, WorldKeeps, DetailRests, UntouchedKeeps
  <2>3. WorkflowInv' /\ FormStays
    <3>1. WorkflowInv'
      BY <2>1, SameWorkflow
    <3>2. FormStays
      BY <2>1 DEF FormStays, workflowVars
    <3> QED BY <3>1, <3>2
  <2>4. NothingStarts
    <3>1. \A c \in calls : Alike(c, c)
      BY DEF Alike, ListsInv, CallsInv, PageCall
    <3> QED BY <2>1, <3>1 DEF NothingStarts
  <2> QED BY <2>2, <2>3, <2>4
<1> QED BY <1>1, <1>2, <1>3, <1>4 DEF Next

LEMMA Inductive == Spec => []Inv
BY InvInit, Step, PTL DEF Spec

\* However lists, requests and other users overtake each other, the pages hold rows of
\* their tables, and the form, the template that is edited and the suggested ports are
\* of what there is.
THEOREM WorkspaceTypes == Spec => []WorkspaceTypeOK
<1>1. Inv => WorkspaceTypeOK
  <2> SUFFICES ASSUME Inv PROVE ListingTypeOK /\ WorkflowTypeOK
    BY DEF WorkspaceTypeOK
  <2>1. \A i \in DOMAIN loads : loads[i].rows \in Table
    BY AnswersAreTables DEF Inv
  <2>2. \A c \in calls : c.stage \in {"sent", "done", "refused", "loading"}
    BY DEF Inv, ListsInv, CallsInv, PageCall
  <2> QED BY <2>1, <2>2 DEF Inv, ListsInv, ListingTypeOK, WorkflowInv
<1> QED BY <1>1, Inductive, PTL

\* What the user edits on the server review page is of the server that is selected,
\* whatever moves the selection: loadServers, the answers to checks, creations and
\* deletions, filters and clicks.
THEOREM EditsStayHome == Spec => []EditsGoHome
<1>1. Inv => EditsGoHome
  BY DEF Inv, ReviewInv
<1> QED BY <1>1, Inductive, PTL

\* What arrives late changes no field of the form of a deployment, but those that the
\* link to the page fills in again with every list; and no suggested port takes the place
\* of one that is there: loadDeployments, loadServerSuggestedPorts and the effects behind
\* them.
THEOREM FormsAreKept == Spec => FormIsKept
<1>1. Inv /\ [Next]_vars =>
        [\A f \in DOMAIN form : page = "workflow" /\ form'[f] # form[f] =>
            /\ list' # list \/ Len(loads') < Len(loads) => f \in Relinked
            /\ Len(asks') < Len(asks) => f = "port" /\ form[f] = ""]_vars
  BY Step DEF FormStays
<1> QED BY <1>1, Inductive, PTL DEF Spec, FormIsKept

\* No template is rolled out while the list shows a failure, and nothing from the form
\* unless the page was opened by a link to a server: the effect that takes the user to
\* the list, with every answer that shows one, after the tab is chosen and before a link
\* has its own.
THEOREM NothingRollsOutOverFailure == Spec => NoRolloutOverFailure
<1>1. NothingStarts =>
        \A c \in calls' : page = "workflow" /\ NeedsReview(list)
                /\ c.op \in Barred /\ c.stage = "sent" =>
            \E d \in calls : c = [d EXCEPT !.noted = c.noted]
  BY DEF NothingStarts, Rollout, Alike
<1>2. Inv /\ [Next]_vars =>
        [\A c \in calls' : page = "workflow" /\ NeedsReview(list)
                /\ c.op \in Barred /\ c.stage = "sent" =>
            \E d \in calls : c = [d EXCEPT !.noted = c.noted]]_vars
  BY <1>1, Step
<1> QED BY <1>2, Inductive, PTL DEF Spec, NoRolloutOverFailure

\* A server becomes ready for the next step only when its own check has succeeded,
\* whichever server is selected by then: handleRunStarterAction, enrichServerRuntime.
THEOREM ChecksMakeReady == Spec => ReadyByItsOwnCheck
<1> DEFINE Own == \A r \in Rows : page = "servers" /\ Ready(results', r) /\ ~Ready(results, r) =>
                    \E c \in calls \ calls' : c.op = "check" /\ c.row = r /\ c.value # Bad
<1>1. Inv /\ [Next]_vars => [Own]_reviewVars
  <2> SUFFICES ASSUME Inv, Next, page = "servers", reviewVars' # reviewVars,
                      NEW r \in Rows, Ready(results', r), ~Ready(results, r)
               PROVE  \E c \in calls \ calls' : c.op = "check" /\ c.row = r /\ c.value # Bad
    BY DEF vars
  <2>1. ReviewNext
    BY DEF Next
  <2> QED BY <2>1, ReadyStep DEF Inv
<1> QED BY <1>1, Inductive, PTL DEF Spec, ReadyByItsOwnCheck

=============================================================================
