------------------------------ MODULE Workspace ------------------------------
(***************************************************************************)
(* A browser tab with one page of the rollout path open: the deployment    *)
(* workflow, the page of one deployment, or the server review.             *)
(***************************************************************************)
EXTENDS DeploymentWorkflow, RuntimeDetail, ServerReview

vars == <<listingVars, workflowVars, detailVars, reviewVars>>

Init == ListingInit /\ WorkflowInit /\ DetailInit /\ ReviewInit

Next ==
    \/ page = "workflow" /\ WorkflowNext /\ UNCHANGED <<detailVars, reviewVars>>
    \/ page = "detail" /\ DetailNext /\ UNCHANGED <<workflowVars, reviewVars>>
    \/ page = "servers" /\ ReviewNext /\ UNCHANGED <<workflowVars, detailVars>>

Spec == Init /\ [][Next]_vars

OnWorkflow(A) == page = "workflow" /\ A /\ UNCHANGED <<detailVars, reviewVars>>
OnDetail(A) == page = "detail" /\ A /\ UNCHANGED <<workflowVars, reviewVars>>

\* The browser fires its interval timers and every GET is answered some time; the
\* user, others and the requests that change something owe nothing.
FairSpec ==
    /\ Spec
    /\ WF_vars(OnWorkflow(Refresh)) /\ WF_vars(OnWorkflow(ListAnswered(1)))
    /\ WF_vars(OnDetail(RefreshDetails(TRUE))) /\ WF_vars(OnDetail(DetailsAnswered(1)))
    /\ WF_vars(OnDetail(ChecksAnswered(1)))

-----------------------------------------------------------------------------
(* Properties. *)

WorkspaceTypeOK == ListingTypeOK /\ WorkflowTypeOK

\* What a link puts into the form again with every list that is loaded: all of the
\* template to edit, the server to use, or the name of the template to look at.
Relinked ==
    CASE handoff = "edit" -> DOMAIN form
      [] handoff = "server" -> {"server"}
      [] handoff = "preview" -> {"title"}
      [] OTHER -> {}

\* An answer that arrives late on the workflow page changes nothing that the user has
\* put into the form, but for what the link to the page puts there. The ports that
\* are suggested for a server change nothing whatever the link: they fill in a port
\* where there is none.
FormIsKept ==
    [][\A f \in DOMAIN form : page = "workflow" /\ form'[f] # form[f] =>
        /\ list' # list \/ Len(loads') < Len(loads) => f \in Relinked
        /\ Len(asks') < Len(asks) => f = "port" /\ form[f] = ""]_vars

\* The requests that start a deployment, as far as a failure keeps them from it.
Barred == {"deploy"} \cup (IF handoff = "server" THEN {} ELSE {"create"})

\* While the list shows a failed deployment, no other is started, neither from the
\* form nor from a template, whatever tab the user asks for: every such request that
\* is sent was under way before. (A link to a server may turn the page back to the
\* form just when the failure arrives: there only templates are safe.)
NoRolloutOverFailure ==
    [][\A c \in calls' :
        page = "workflow" /\ NeedsReview(list) /\ c.op \in Barred /\ c.stage = "sent" =>
            \E d \in calls : c = [d EXCEPT !.noted = c.noted]]_vars

\* What the page of a deployment should say in the end of what the backend has.
Rightful ==
    CASE table[Id] = Bad -> "Blocked"
      [] table[Id] # Bad /\ (visit = "managed" \/ failures) -> "Review"
      [] OTHER -> IF visit = "fresh" THEN "Verify" ELSE "Ready"

\* The page shows in the end what the server has, through the filter that is set,
\* however its answers overtook each other and whichever filter they were for; and
\* the page of a deployment shows that deployment as it is, and decides by it.
ListSettles ==
    <>[](/\ page = "workflow" =>
             \A r \in Rows \ Templates : Filtered(filter, list)[r] = Filtered(filter, table)[r]
         /\ page = "detail" /\ checked /\ table[Id] # NoRow =>
             list[Id] = table[Id] /\ Decision = Rightful)

=============================================================================
