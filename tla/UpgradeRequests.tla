--------------------------- MODULE UpgradeRequests ---------------------------
(***************************************************************************)
(* The inbox of upgrade requests (app/app/upgrade-requests/page.js). Every *)
(* row has a draft, in which the admin edits status and note before it is  *)
(* saved. The answer to a save replaces the row; the list is not loaded.   *)
(***************************************************************************)
EXTENDS AdminPage

VARIABLES
    drafts      \* drafts, by row

Unsaved == <<page, table, list, checked, loads, others, filter, selected, unsure, drafts>>

\* The controls of a row.
Editable(r) == r \in Listed /\ ~BusyWith("patch", r) /\ ~Busy("bulk")

\* updateDraft
UpdateDraft(r, patch) ==
    /\ Act /\ Editable(r) /\ Patched(drafts[r], patch) # drafts[r]
    /\ drafts' = [drafts EXCEPT ![r] = Patched(@, patch)]
    /\ UNCHANGED <<world, adminVars>>

\* The payload of "Save", or of the button for a status.
Payload(r, status) == [drafts[r] EXCEPT !.state = status]

\* A list on its way, or another save of this row, may show what is older.
Overlaps(S) == loads # <<>> \/ \E c \in calls : c.row \in S \/ c.seen.rest # <<>>

\* applyRequestUpdate
SaveRequest(r, status) ==
    /\ Act /\ Editable(r)
    /\ Send("patch", r, r, Payload(r, status), Seen)
    /\ muddled' = (muddled \/ Overlaps({r}))
    /\ UNCHANGED Unsaved

\* handleBulkStatusApply: each row with the note of its draft at the click.
BulkStatus(status) ==
    /\ StartBulk([r \in selected |-> Payload(r, status)])
    /\ muddled' = (muddled \/ Overlaps(selected))
    /\ UNCHANGED drafts

\* The selection of the inbox works like that of the users.
SelectRequests == Select /\ UNCHANGED drafts

-----------------------------------------------------------------------------
(* Answers. *)

\* loadRequests: a list that arrives brings new drafts for all rows.
RequestsAnswered(i) ==
    /\ \/ Arrived(i) /\ drafts' = list'
       \/ ListFails(i) /\ UNCHANGED drafts
    /\ selected' = Keep(list')
    /\ muddled' = (muddled \/ i # 1)
    /\ UNCHANGED <<filter, unsure>>

\* Variant: all drafts are built anew, as they are when a list arrives.
SyncDrafts(r, v) == [list EXCEPT ![r] = v]

\* buildDraft: the draft of the row that was saved.
BuildDraft(r, v) == [drafts EXCEPT ![r] = v]

RequestDone(c) ==
    /\ c.stage = "done"
    /\ list' = IF list[c.row] = NoRow THEN list ELSE [list EXCEPT ![c.row] = c.value]
    /\ drafts' = BuildDraft(c.row, c.value) /\ unsure' = unsure \ {c.row}
    /\ IF c.seen.rest # <<>> THEN NextPatch(c) /\ UNCHANGED selected
       ELSE calls' = Over({c}) /\ selected' = IF c.op = "bulk" THEN {} ELSE selected
    /\ UNCHANGED <<page, table, checked, loads, others, acts, filter, muddled>>

RequestRefused(c) ==
    /\ c.stage = "refused" /\ calls' = Over({c})
    /\ UNCHANGED <<Unsaved, acts, muddled>>

RequestsInit == drafts = list

RequestsNext ==
    \/ (\E f \in {"all"} \cup States : SetFilter(f)) /\ UNCHANGED drafts
    \/ SelectRequests
    \/ \E r \in Rows, patch \in [state : States] \cup [note : Notes] : UpdateDraft(r, patch)
    \/ \E r \in Rows, s \in States : SaveRequest(r, s)
    \/ \E s \in States : BulkStatus(s)
    \/ \E i \in DOMAIN loads : RequestsAnswered(i)
    \/ \E c \in calls : RequestDone(c) \/ RequestRefused(c)
    \/ OtherAdmins /\ UNCHANGED drafts
    \/ (\E c \in calls : ServePatch(c) /\ Unnoticed(c)) /\ UNCHANGED drafts

-----------------------------------------------------------------------------
(* Properties. *)

\* Once nothing is under way, every listed request is shown as it is stored,
\* although the list is not loaded again, but for one whose save took effect and
\* failed: unless a list, or another save of the row, was under way with the save.
\* (Others have changed nothing.)
ShowsRequests ==
    loads = <<>> /\ calls = {} /\ others = 0 /\ ~muddled =>
        \A r \in Listed \ unsure : list[r] = table[r]

\* What an admin has typed for one request is not lost to an answer about another:
\* only a list that arrives replaces the drafts of rows that were not saved.
DraftsKept ==
    [][\A r \in Rows : drafts'[r] # drafts[r] /\ Len(loads') = Len(loads) =>
        \/ calls' = calls
        \/ \E c \in calls \ calls' : c.stage = "done" /\ c.row = r]_<<listingVars, adminVars, drafts>>

=============================================================================
