---------------------------- MODULE RuntimeDetail ----------------------------
(***************************************************************************)
(* The page of one deployment (app/deployments/[deploymentId]/page.js). It *)
(* loads the deployment every eight seconds, and what the backend can say  *)
(* of it after that, and decides from all of it what the user should do    *)
(* first. To redeploy or to delete, the user opens a review and types a    *)
(* phrase that names the container; what a row holds stands for that name  *)
(* too. The other rows are the templates that the page may save.           *)
(***************************************************************************)
EXTENDS Listing

\* The page is about a deployment.
ASSUME DetailAssumption == "detail" \in Pages => Templates # Rows

VARIABLES
    visit,      \* how the page was reached: "own" or "managed", whose server it
                \* runs on, or "fresh": source=workflow-success, from its rollout
    failures,   \* whether the backend remembers recent failures of the deployment
    draft,      \* form and envRows: what a redeploy would store, NoRow if blank
    detailTab,  \* the tab that is shown
    reviews,    \* redeployReviewOpen, deleteReviewOpen: the reviews that are open
    phrase,     \* redeployConfirmationText, deleteConfirmationText: NoRow if blank
    checks,     \* the logs, health, activity and diagnostics on their way
    health,     \* health: NoRow if none, or what was healthy
    diagnostics \* diagnostics: what they point out; nothing if there are none

detailVars ==
    <<visit, failures, draft, detailTab, reviews, phrase, checks, health, diagnostics>>

\* What a failed check says, and an answer that nobody may give.
Unavailable == "unavailable"

\* deploymentId, of the URL
Id == CHOOSE r \in Rows : r \notin Templates
Deployment == list[Id]

Reviewed == {"redeploy", "delete"}
TabOf(what) == IF what = "redeploy" THEN "change" ELSE "share"

\* buildReviewConfirmationPhrase: blank, when there is no deployment to name.
Phrase == Deployment

-----------------------------------------------------------------------------
(* What the page makes of what it has loaded. *)

\* canMutateRuntime, of a page that has its deployment.
CanMutateRuntime == visit # "managed"

\* buildAttentionItems
AttentionItems ==
    {x \in {"error"} : Deployment = Bad}
        \cup {x \in {"health"} : health \in {Bad, Unavailable}}
        \cup diagnostics

\* freshRolloutReview: a rollout from which nothing has gone wrong yet.
FreshRollout == visit = "fresh" /\ Deployment \notin {NoRow, Bad} /\ AttentionItems = {}

\* buildRuntimeDecisionState, its label
Decision ==
    CASE Deployment = Bad -> "Blocked"
      [] Deployment # Bad /\ AttentionItems # {} -> "Review"
      [] OTHER -> IF FreshRollout THEN "Verify" ELSE "Ready"

\* The tabs: that of changes waits until a fresh rollout has been verified.
Tabs == {"overview", "share"} \cup {t \in {"change"} : CanMutateRuntime /\ ~FreshRollout}

\* The sections of the tabs, once there is a deployment: the user turns to the tab
\* if it is not the one shown, which stays. Who may not change a deployment sees
\* nothing of changes and deletions.
Uses(t) ==
    /\ Act /\ Deployment # NoRow
    /\ t \in Tabs \cup {detailTab} /\ detailTab' = t
Changes(what) == Uses(TabOf(what)) /\ CanMutateRuntime

-----------------------------------------------------------------------------
(* Loading. *)

\* loadDeploymentDetails, its first GET: the form is filled whenever the deployment
\* has arrived, and the checks are started. Of a deployment on the server of an
\* admin there is nothing more to ask than its activity.
DetailsArrived(i) ==
    /\ loads' = RemoveAt(loads, i) /\ list' = loads[i].rows /\ checked' = TRUE
    /\ draft' = loads[i].rows[Id]
    /\ checks' = Append(checks, [row |-> table[Id], failures |-> failures,
                                 silent |-> loads[i].silent, waits |-> loads[i].waits])
    /\ IF visit = "managed" THEN health' = Unavailable /\ diagnostics' = {}
       ELSE UNCHANGED <<health, diagnostics>>
    /\ UNCHANGED <<page, table, calls, others, acts>>

\* Its end, when a request has failed that it needs: a user who waits sees nothing.
Blank(silent) == IF silent THEN UNCHANGED <<health, diagnostics>>
                 ELSE health' = NoRow /\ diagnostics' = {}

DetailsFailed(i) ==
    /\ IF loads[i].rows[Id] = NoRow THEN Show(i, Fallback(i)) /\ UNCHANGED others ELSE Failed(i)
    /\ Blank(loads[i].silent) /\ UNCHANGED <<draft, checks>>

\* A deployment that is gone is an error.
DetailsAnswered(i) ==
    /\ i \in DOMAIN loads
    /\ (loads[i].rows[Id] # NoRow /\ DetailsArrived(i)) \/ DetailsFailed(i)
    /\ UNCHANGED <<visit, failures, detailTab, reviews, phrase>>

\* The diagnostics of a deployment: its recent failures, and what is wrong with it.
Concerns(check) ==
    {x \in {"failures"} : check.failures} \cup {x \in {"items"} : check.row = Bad}

\* Promise.allSettled: every check may fail by itself. The activity, all by itself,
\* takes the page down with it.
ChecksSettled(check) ==
    /\ UNCHANGED list
    /\ visit = "managed" => UNCHANGED <<health, diagnostics, others>>
    /\ visit # "managed" =>
        /\ health' \in {check.row, Unavailable} /\ diagnostics' \in {Concerns(check), {}}
        /\ IF health' = check.row /\ diagnostics' = Concerns(check) THEN UNCHANGED others
           ELSE others < MaxOthers /\ others' = others + 1

ActivityFailed(check) ==
    /\ visit = "managed" /\ others < MaxOthers /\ others' = others + 1
    /\ list' = IF check.silent THEN list ELSE Nothing
    /\ Blank(check.silent)

\* The checks are answered, and with them ends what waits for the page to load.
ChecksAnswered(i) ==
    /\ i \in DOMAIN checks /\ checks' = RemoveAt(checks, i)
    /\ ChecksSettled(checks[i]) \/ ActivityFailed(checks[i])
    /\ calls' = Over({c \in calls : [c EXCEPT !.noted = FALSE] \in checks[i].waits})
    /\ UNCHANGED <<page, table, loads, checked, acts, visit, failures, draft, detailTab, reviews, phrase>>

\* The button is disabled while the page loads for a user who waits.
RefreshDetails(silent) ==
    /\ \/ silent /\ checked /\ Len(loads) + Len(checks) < MaxLoads /\ UNCHANGED acts
       \/ ~silent /\ Act /\ \A l \in ToSet(loads \o checks) : l.silent
    /\ Get(table, {}, silent)
    /\ UNCHANGED <<page, table, list, checked, calls, others, detailVars>>

-----------------------------------------------------------------------------
(* What the user does. *)

\* Its fields are disabled while a redeploy is under way.
RedeployForm == Changes("redeploy") /\ ~Busy("redeploy")

EditDraft(v) ==
    /\ RedeployForm
    /\ draft' = v
    /\ UNCHANGED <<world, visit, failures, reviews, phrase, checks, health, diagnostics>>

\* buildRedeployValidation
ValidDraft == draft # NoRow

\* handleRedeploy, and the button that opens the other review.
OpenReview(what) ==
    /\ Changes(what) /\ what \notin reviews /\ ~Busy(what)
    /\ what = "redeploy" => ValidDraft
    /\ reviews' = reviews \cup {what}
    /\ UNCHANGED <<world, visit, failures, draft, phrase, checks, health, diagnostics>>

\* A review is closed, with what was typed there.
Close(what) == reviews' = reviews \ {what} /\ phrase' = [phrase EXCEPT ![what] = NoRow]

\* The button that opens the review of a deletion hides it, too.
CancelReview(what) ==
    /\ Changes(what) /\ what \in reviews /\ ~Busy(what)
    /\ \/ Close(what)
       \/ what = "delete" /\ reviews' = reviews \ {what} /\ UNCHANGED phrase
    /\ UNCHANGED <<world, visit, failures, draft, checks, health, diagnostics>>

\* The user types the phrase that the page shows.
TypePhrase(what) ==
    /\ Changes(what) /\ what \in reviews
    /\ phrase' = [phrase EXCEPT ![what] = Phrase]
    /\ UNCHANGED <<world, visit, failures, draft, reviews, checks, health, diagnostics>>

\* What the handlers ask of the phrase.
Confirmed(what) == what \in reviews /\ Phrase # NoRow /\ phrase[what] = Phrase

\* A request goes out.
Request(op, r, value) ==
    /\ Send(op, Id, r, value, "form")
    /\ UNCHANGED <<page, table, list, checked, loads, others, visit, failures, draft, reviews,
                   phrase, checks, health, diagnostics>>

\* handleRedeployConfirm: the draft of now, which need not be the one reviewed.
Redeploy ==
    /\ Changes("redeploy") /\ ~Busy("redeploy") /\ Confirmed("redeploy")
    /\ Request("redeploy", Id, draft)

\* handleDelete
DeleteDeployment ==
    /\ Changes("delete") /\ ~Busy("delete") /\ Confirmed("delete")
    /\ Request("delete", Id, NoRow)

\* Templates from the server of an admin are left to admins.
TemplateForm == Uses("share") /\ visit # "managed" /\ ~Busy("save") /\ draft # NoRow

\* handleSaveTemplate: the draft, under the name that the user has typed.
SaveAsTemplate ==
    /\ TemplateForm
    /\ Request("save", NoRow, draft)

\* The backend serves them. It refuses a redeploy without an image, and remembers
\* when a deployment has failed.
DetailServed(c) ==
    /\ Serve(c, Templates)
    /\ c.op = "redeploy" /\ c.value = NoRow => UNCHANGED table

\* A redeploy is answered: the deployment is loaded again. After a deletion the
\* page is left: nothing of it goes on.
DetailDone(c) ==
    /\ c.stage = "done"
    /\ CASE c.op = "redeploy" ->
              /\ Close(c.op) /\ calls' = At(c, "loading") /\ Get(table, {Awaited(c)}, FALSE)
              /\ UNCHANGED <<list, checked, checks>>
         [] c.op = "delete" ->
              /\ Close(c.op) /\ calls' = {} /\ loads' = <<>> /\ checks' = <<>>
              /\ list' = Nothing /\ checked' = FALSE
         [] c.op = "save" ->
              calls' = Over({c}) /\ UNCHANGED <<list, checked, loads, checks, reviews, phrase>>
    /\ UNCHANGED <<page, table, others, acts, visit, failures, draft, detailTab, health, diagnostics>>

DetailRefused(c) ==
    /\ c.stage = "refused" /\ calls' = Over({c})
    /\ UNCHANGED <<page, table, list, checked, loads, others, acts, detailVars>>

-----------------------------------------------------------------------------
(* The page and its steps. *)

\* Before the page is opened, no template has its name.
DetailInit ==
    /\ IF page = "detail"
       THEN /\ visit \in {"own", "managed", "fresh"} /\ \A r \in Templates : table[r] = NoRow
            /\ failures = (table[Id] = Bad)
       ELSE visit = "own" /\ failures = FALSE
    /\ draft = NoRow /\ detailTab = "overview" /\ reviews = {}
    /\ phrase = [what \in Reviewed |-> NoRow]
    /\ checks = <<>> /\ health = NoRow /\ diagnostics = {}

DetailNext ==
    \/ \E i \in DOMAIN loads : DetailsAnswered(i)
    \/ \E i \in DOMAIN checks : ChecksAnswered(i)
    \/ \E s \in BOOLEAN : RefreshDetails(s)
    \/ \E v \in Contents \cup {NoRow} : EditDraft(v)
    \/ \E what \in Reviewed : OpenReview(what) \/ CancelReview(what) \/ TypePhrase(what)
    \/ Redeploy \/ DeleteDeployment \/ SaveAsTemplate
    \/ \E c \in calls : DetailDone(c) \/ DetailRefused(c)
    \/ /\ Others \/ \E c \in calls : DetailServed(c)
       /\ failures' = (failures \/ table'[Id] = Bad)
       /\ UNCHANGED <<visit, draft, detailTab, reviews, phrase, checks, health, diagnostics>>

=============================================================================
