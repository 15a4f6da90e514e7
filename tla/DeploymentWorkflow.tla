-------------------------- MODULE DeploymentWorkflow --------------------------
(***************************************************************************)
(* The deployment workflow page (app/app/deployment-workflow/page.js): the *)
(* form that starts a deployment, the list of deployments, which is loaded *)
(* again every eight seconds, and the templates that fill the form. Some   *)
(* rows of the table are templates, the others are deployments.            *)
(*                                                                         *)
(* The user may choose among saved servers. Other pages link to this one   *)
(* with a server or a template, the handoff.                               *)
(***************************************************************************)
EXTENDS Listing

CONSTANTS
    Servers,        \* the saved servers
    Handoffs,       \* what a link to this page may ask for
    NoServer        \* no server: this host

\* A link names what there is; and not every deployment fails.
ASSUME WorkflowAssumption ==
    /\ Handoffs \subseteq {"none", "server", "preview", "edit"}
    /\ "server" \in Handoffs => Servers # {}
    /\ Handoffs \cap {"preview", "edit"} # {} => Templates # {}
    /\ \E v \in Contents : v # Bad

VARIABLES
    handoff,    \* the query of the URL: "none", "server", "preview" or "edit"
    filter,     \* deploymentFilter
    form,       \* form: its image (with name and variables), external port and server;
                \* and the name of the template to save, templateName ("title")
    editing,    \* editingTemplateId
    tab,        \* workflowTab
    asks,       \* the suggested ports on their way, by server
    ports       \* suggestedPorts: those of this server

workflowVars == <<handoff, filter, form, editing, tab, asks, ports>>

\* A link names the first server or template that there is.
Requested(S) == CHOOSE x \in S : TRUE

-----------------------------------------------------------------------------
(* What the page derives from its list. *)

Matches(f, v) == f = "all" \/ (f = "failed" <=> v = Bad)

\* The deployments of a list under a filter; the backend and the page filter alike.
Filtered(f, rows) ==
    [r \in Rows |-> IF r \in Templates \/ Matches(f, rows[r]) THEN rows[r] ELSE NoRow]

Deployments(rows) == {r \in Rows \ Templates : rows[r] # NoRow}

\* workflowState.mode is "live" as long as a deployment has failed.
NeedsReview(rows) == \E r \in Deployments(rows) : rows[r] = Bad

\* Variant: does not take the user away from the form.
TabEffectMild(rows, t) ==
    IF NeedsReview(rows) /\ t # "create" THEN "live"
    ELSE IF Deployments(rows) = {} /\ t = "live" THEN "create" ELSE t

\* The effect that chooses the tab.
TabEffect(rows, t) ==
    IF NeedsReview(rows) THEN "live"
    ELSE IF Deployments(rows) = {} /\ t = "live" THEN "create" ELSE t

\* It runs when the tab has changed,
Turned(rows, t) == IF t = tab THEN tab ELSE TabEffect(rows, t)

\* or the mode of the page, or the number of its deployments.
AfterList(t) ==
    IF /\ NeedsReview(list') = NeedsReview(list)
       /\ Cardinality(Deployments(list')) = Cardinality(Deployments(list))
    THEN t ELSE TabEffect(list', t)

\* A server that is handed over turns the page to the form, after the effect of the
\* tab, which does not run again if the form is there already. Deployments and
\* servers arrive together, or one after the other.
Handed(rows, t) == IF t = "create" THEN t ELSE TabEffect(rows, "create")
HandedTab ==
    {Handed(list', tab), Handed(list', AfterList(tab)), AfterList(Handed(list, tab))}

-----------------------------------------------------------------------------
(* The form. *)

EmptyForm == [image |-> "", port |-> "", server |-> NoServer, title |-> ""]

\* A server that is chosen after another has its ports asked for.
PortsEffect(s) ==
    IF s = form.server THEN UNCHANGED <<asks, ports>>
    ELSE IF s = NoServer THEN ports' = NoServer /\ UNCHANGED asks
    ELSE asks' = Append(asks, s) /\ UNCHANGED ports

\* applyTemplateToForm
ApplyTemplate(r) ==
    /\ form' = [image |-> "template", port |-> "template", server |-> NoServer,
                title |-> "template"]
    /\ PortsEffect(NoServer)

TypeTitle ==
    /\ Act /\ tab = "create" /\ ~Busy("create") /\ ~Busy("save")
    /\ form' = [form EXCEPT !.title = "typed"]
    /\ UNCHANGED <<world, handoff, filter, editing, tab, asks, ports>>

\* updateFormField, and the rows of variables
TypeImage ==
    /\ Act /\ tab = "create" /\ ~Busy("create")
    /\ form' = [form EXCEPT !.image = "typed"]
    /\ UNCHANGED <<world, handoff, filter, editing, tab, asks, ports>>

TypePort ==
    /\ Act /\ tab = "create" /\ ~Busy("create")
    /\ form' = [form EXCEPT !.port = "typed"]
    /\ UNCHANGED <<world, handoff, filter, editing, tab, asks, ports>>

UseSuggestedPort ==
    /\ Act /\ tab = "create" /\ ~Busy("create") /\ ports # NoServer
    /\ form' = [form EXCEPT !.port = ports]
    /\ UNCHANGED <<world, handoff, filter, editing, tab, asks, ports>>

ChooseServer(s) ==
    /\ Act /\ tab = "create" /\ ~Busy("create")
    /\ form' = [form EXCEPT !.server = s]
    /\ PortsEffect(s)
    /\ UNCHANGED <<world, handoff, filter, editing, tab>>

\* Variant: the first suggestion replaces what stands there.
SuggestOver(s) == [form EXCEPT !.port = s]

\* A blank port takes the first suggestion.
Suggest(s) == IF form.port = "" THEN [form EXCEPT !.port = s] ELSE form

\* Suggested ports arrive, perhaps those of a server chosen before; or fail to.
PortsAnswered(i) ==
    /\ i \in DOMAIN asks
    /\ asks' = RemoveAt(asks, i)
    /\ \/ ports' = asks[i] /\ form' = Suggest(asks[i])
       \/ ports' = NoServer /\ UNCHANGED form
    /\ UNCHANGED <<listingVars, handoff, filter, editing, tab>>

-----------------------------------------------------------------------------
(* Loading. *)

\* loadDeployments with the loadTemplates of its side.
Load(f, waits, silent) == Get(Filtered(f, table), waits, silent)

\* Variant: the interval leaves a filtered list alone.
RefreshUnfiltered ==
    /\ checked /\ Len(loads) < MaxLoads /\ filter = "all"
    /\ Load("all", {}, TRUE)
    /\ UNCHANGED <<page, table, list, checked, calls, others, acts, workflowVars>>

\* The interval: its callback is that of the first render, which had no filter.
Refresh ==
    /\ checked /\ Len(loads) < MaxLoads
    /\ Load("all", {}, TRUE)
    /\ UNCHANGED <<page, table, list, checked, calls, others, acts, workflowVars>>

SetFilter(f) ==
    /\ Act /\ tab = "live" /\ f # filter
    /\ filter' = f /\ Load(f, {}, FALSE)
    /\ UNCHANGED <<page, table, list, checked, calls, others,
                   handoff, form, editing, tab, asks, ports>>

\* The button is disabled while the page loads for a user who waits.
RefreshNow ==
    /\ Act /\ \A l \in ToSet(loads) : l.silent
    /\ Load(filter, {}, FALSE)
    /\ UNCHANGED <<page, table, list, checked, calls, others, workflowVars>>

\* The effect of a link to a server, which runs whenever the servers are loaded.
ServerHandoff ==
    /\ handoff = "server"
    /\ form' = [form EXCEPT !.server = Requested(Servers)] /\ PortsEffect(Requested(Servers))
    /\ tab' \in HandedTab
    /\ UNCHANGED editing

\* The effect of a link to a template, which runs whenever the templates are loaded:
\* the name of the template is put over what the user has typed there.
TemplateHandoff(r) ==
    /\ handoff \in {"preview", "edit"} /\ list'[r] # NoRow
    /\ IF handoff = "edit" THEN editing' = r /\ ApplyTemplate(r)
       ELSE editing' = NoRow /\ form' = [form EXCEPT !.title = "template"] /\ UNCHANGED <<asks, ports>>
    /\ tab' = AfterList(tab)

\* What a link names was not loaded, or is not there.
NoHandoff == tab' = AfterList(tab) /\ UNCHANGED <<form, editing, asks, ports>>

\* An answer to a GET arrives, and the effects of a new list run. It stands for those
\* to the GETs that were sent with it, each of which may have failed.
ListAnswered(i) ==
    /\ Arrived(i) \/ Failed(i)
    /\ ServerHandoff \/ TemplateHandoff(Requested(Templates)) \/ NoHandoff
    /\ UNCHANGED <<handoff, filter>>

-----------------------------------------------------------------------------
(* What the user does. *)

ShowTab(t) ==
    /\ Act /\ t # tab /\ (t = "live" => Deployments(list) # {})
    /\ tab' = Turned(list, t)
    /\ UNCHANGED <<world, handoff, filter, form, editing, asks, ports>>

\* pagePrimaryAction, from workflowNextStep: a form without an image is a blocked
\* one, so the steps after that are never the next.
NextStep ==
    IF NeedsReview(list) THEN "live" ELSE "create"

\* The button that the page puts first.
FollowNextStep ==
    /\ Act /\ NextStep # tab
    /\ tab' = Turned(list, NextStep)
    /\ UNCHANGED <<world, handoff, filter, form, editing, asks, ports>>

EditTemplate(r, edit) ==
    /\ Act /\ tab = "templates" /\ r \in Templates \cap Listed
    /\ ApplyTemplate(r)
    /\ editing' = IF edit THEN r ELSE NoRow
    /\ UNCHANGED <<world, handoff, filter, tab>>

CancelEditing ==
    /\ Act /\ tab = "create" /\ editing # NoRow
    /\ editing' = NoRow /\ form' = [form EXCEPT !.title = ""]
    /\ UNCHANGED <<world, handoff, filter, tab, asks, ports>>

\* validateTemplateDraft: a port that a listed deployment has is refused here
\* already; ports are those of a template or a suggestion, which may be taken.
Valid == form.image # ""

Unsent == <<page, table, list, checked, loads, others, workflowVars>>

\* A handler goes on with what the render that had its button showed.
Remembered == [filter |-> filter, server |-> NoServer, ports |-> NoServer, editing |-> NoRow]
Sends(op, about, r, value, seen) == Act /\ Send(op, about, r, value, seen) /\ UNCHANGED Unsent

\* What is stored for a new deployment, and for a template.
Fresh == CHOOSE v \in Contents : v # Bad

\* handleSubmit
Submit ==
    /\ tab = "create" /\ ~Busy("create") /\ Valid
    /\ Sends("create", NoRow, NoRow, Fresh,
             [Remembered EXCEPT !.server = form.server, !.ports = ports])

\* handleDeployTemplate: the backend reads the template; the form stays.
DeployTemplate(r) ==
    /\ tab = "templates" /\ r \in Templates \cap Listed /\ ~BusyWith("deploy", r)
    /\ Sends("deploy", r, NoRow, Fresh, Remembered)

\* handleSaveTemplate
SaveTemplate ==
    /\ tab = "create" /\ ~Busy("create") /\ ~Busy("save") /\ Valid /\ form.title # ""
    /\ Sends("save", NoRow, editing, Fresh, Remembered)

\* handleDuplicateTemplate
DuplicateTemplate(r) ==
    /\ tab = "templates" /\ r \in Templates \cap Listed /\ ~BusyWith("duplicate", r)
    /\ Sends("duplicate", r, NoRow, Fresh, Remembered)

\* handleDelete and handleDeleteTemplate
Delete(r) ==
    /\ r \in Listed /\ tab = (IF r \in Templates THEN "templates" ELSE "live")
    /\ ~BusyWith("delete", r)
    /\ Sends("delete", r, r, NoRow, [Remembered EXCEPT !.editing = editing])

\* Variant: what is saved as a template may replace a deployment.
NewAnywhere(op) == IF op = "delete" THEN {} ELSE Rows

\* Where the rows go that a request creates.
New(op) == IF op \in {"create", "deploy"} THEN Rows \ Templates ELSE Templates

\* What an answer puts into the form: nothing, but for the target, after a creation;
\* the name under which a template was saved; and none of one that is deleted.
AnsweredForm(c) ==
    CASE c.op = "create" ->
            [EmptyForm EXCEPT !.server = c.seen.server, !.title = form.title,
                !.port = IF c.seen.ports = NoServer THEN "" ELSE c.seen.ports]
      [] c.op = "save" -> [form EXCEPT !.title = "template"]
      [] c.op = "delete" /\ c.seen.editing = c.row -> [form EXCEPT !.title = ""]
      [] OTHER -> form

\* The request is answered, and the lists are loaded again.
Answered(c) ==
    /\ c.stage = "done"
    /\ calls' = At(c, "loading")
    /\ Load(c.seen.filter, {Awaited(c)}, FALSE)
    /\ form' = AnsweredForm(c)
    /\ IF c.op = "create" THEN PortsEffect(c.seen.server) /\ tab' = Turned(list, "live")
       ELSE UNCHANGED <<asks, ports, tab>>
    /\ editing' = IF c.op = "save" THEN c.row
                  ELSE IF c.op = "delete" /\ c.seen.editing = c.row THEN NoRow ELSE editing
    /\ UNCHANGED <<page, table, list, checked, others, acts, handoff, filter>>

Refused(c) ==
    /\ c.stage = "refused" /\ calls' = Over({c})
    /\ UNCHANGED <<Unsent, acts>>

-----------------------------------------------------------------------------
(* The page and its steps. *)

\* To follow a link is the first thing that the user does.
WorkflowInit ==
    /\ handoff \in (IF page = "workflow" THEN Handoffs ELSE {"none"})
    /\ filter = "all" /\ form = EmptyForm /\ editing = NoRow /\ tab = "create"
    /\ asks = <<>> /\ ports = NoServer
    /\ acts = IF handoff = "none" THEN 0 ELSE 1

WorkflowNext ==
    \/ Refresh \/ RefreshNow \/ (\E f \in {"all", "running", "failed"} : SetFilter(f))
    \/ \E i \in DOMAIN loads : ListAnswered(i)
    \/ \E i \in DOMAIN asks : PortsAnswered(i)
    \/ TypeImage \/ TypePort \/ TypeTitle \/ UseSuggestedPort
    \/ (\E s \in Servers \cup {NoServer} : ChooseServer(s))
    \/ (\E t \in {"create", "live", "templates"} : ShowTab(t)) \/ FollowNextStep
    \/ CancelEditing
    \/ (\E r \in Templates : EditTemplate(r, TRUE) \/ EditTemplate(r, FALSE))
    \/ Submit \/ SaveTemplate \/ (\E r \in Templates : DeployTemplate(r) \/ DuplicateTemplate(r))
    \/ (\E r \in Rows : Delete(r))
    \/ (\E c \in calls : Answered(c) \/ Refused(c))
    \/ (Others \/ \E c \in calls : Serve(c, New(c.op))) /\ UNCHANGED workflowVars

-----------------------------------------------------------------------------
(* Properties. *)

WorkflowTypeOK ==
    /\ filter \in {"all", "running", "failed"} /\ tab \in {"create", "live", "templates"}
    /\ form \in [image : {"", "typed", "template"}, server : Servers \cup {NoServer},
                 port : {"", "typed", "template"} \cup Servers, title : {"", "typed", "template"}]
    /\ editing \in Templates \cup {NoRow}
    /\ asks \in Seq(Servers) /\ ports \in Servers \cup {NoServer}

=============================================================================
