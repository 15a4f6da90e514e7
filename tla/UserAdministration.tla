------------------------- MODULE UserAdministration -------------------------
(***************************************************************************)
(* The list of users (app/app/users/page.js): an admin creates, changes    *)
(* and deletes users; after each answer the list is loaded again, with the *)
(* filter of the render that had the button.                               *)
(***************************************************************************)
EXTENDS AdminPage

Unsent == <<page, table, list, checked, loads, others, adminVars>>

\* A row has one select for its role, one for its plan, and a button.
Idle(r) == ~BusyWith("patch", r) /\ ~BusyWith("delete", r) /\ ~Busy("bulk")

\* handleCreateUser: the backend gives a new user the first plan.
CreateUser(role) ==
    /\ Act /\ ~Busy("create")
    /\ Send("create", NoRow, NoRow, [state |-> role, note |-> CHOOSE n \in Notes : TRUE], Seen)
    /\ UNCHANGED Unsent

\* handleRoleChange and handlePlanChange
ChangeUser(r, patch) ==
    /\ Act /\ r \in Listed /\ Idle(r) /\ Patched(list[r], patch) # list[r]
    /\ Send("patch", r, r, patch, Seen) /\ UNCHANGED Unsent

\* handleDeleteUser
DeleteUser(r) ==
    /\ Act /\ r \in Listed /\ Idle(r)
    /\ Send("delete", r, r, NoRow, Seen) /\ UNCHANGED Unsent

\* handleBulkUserPatch
BulkPatch(patch) ==
    StartBulk([r \in selected |-> patch]) /\ UNCHANGED muddled

-----------------------------------------------------------------------------
(* Answers. *)

\* loadUsers
UsersAnswered(i) ==
    /\ Arrived(i) \/ ListFails(i)
    /\ selected' = Keep(list')
    /\ muddled' = (muddled \/ i # 1)
    /\ UNCHANGED <<filter, unsure>>

\* Variant: the list stays as it was.
StayAsItWas(c) == calls' = Over({c}) /\ UNCHANGED loads

\* refreshPageData, for which the request waits.
RefreshPageData(c) == calls' = At(c, "loading") /\ Load(c.seen.filter, {Awaited(c)})

UserDone(c) ==
    /\ c.stage = "done"
    /\ IF c.seen.rest # <<>>
       THEN NextPatch(c) /\ unsure' = unsure \cup {c.row} /\ UNCHANGED <<loads, selected>>
       ELSE /\ RefreshPageData(c) /\ unsure' = {}
            /\ selected' = IF c.op = "bulk" THEN {} ELSE selected
    /\ UNCHANGED <<page, table, list, checked, others, acts, filter, muddled>>

\* Nothing is loaded, neither after a failure that has changed the row nor after a
\* bulk change that is refused half-way.
UserRefused(c) ==
    /\ c.stage = "refused" /\ calls' = Over({c})
    /\ UNCHANGED <<Unsent, acts>>

UsersNext ==
    \/ \E f \in {"all"} \cup States : SetFilter(f)
    \/ Select
    \/ \E role \in States : CreateUser(role)
    \/ \E r \in Rows, patch \in [state : States] \cup [note : Notes] : ChangeUser(r, patch)
    \/ \E r \in Rows : DeleteUser(r)
    \/ \E patch \in [state : States] \cup [note : Notes] : BulkPatch(patch)
    \/ \E i \in DOMAIN loads : UsersAnswered(i)
    \/ \E c \in calls : UserDone(c) \/ UserRefused(c)
    \/ OtherAdmins
    \/ \E c \in calls : ServePatch(c) /\ Unnoticed(c)
    \/ \E c \in calls : c.op \in {"create", "delete"} /\ Serve(c, Rows) /\ Unnoticed(c)

\* Once nothing is under way the page lists what the server has, after creations,
\* changes, deletions and bulk changes, but for the rows that a request has changed
\* of which the page was told that it failed, or of whose bulk change: unless answers
\* overtook each other, or the filter was changed while a request was under way.
\* (Others have changed nothing.)
ShowsUsers ==
    loads = <<>> /\ calls = {} /\ others = 0 /\ ~muddled =>
        \A r \in Rows \ unsure : list[r] = Filtered(filter, table)[r]

=============================================================================
