------------------------------ MODULE AdminPage ------------------------------
(***************************************************************************)
(* What the two lists of an admin have in common, that of the users and    *)
(* that of the upgrade requests: a filter, which the backend applies; the  *)
(* rows that are selected; and the change of all of them, one PATCH after  *)
(* the other ("bulk").                                                     *)
(*                                                                         *)
(* A row holds a state and a note: role and plan of a user; status of a    *)
(* request and what else an admin puts there. A patch has one or both.     *)
(***************************************************************************)
EXTENDS Listing

CONSTANTS
    States,     \* roles, or the status of a request
    Notes,      \* plans, or what is noted of a request
    FirstTables,    \* the tables of the backend at first (a bound),
    FirstRows   \* and what others change a row to (a bound)

ASSUME AdminAssumption ==
    /\ Contents = [state : States, note : Notes]
    /\ FirstRows \subseteq Contents
    /\ FirstTables \subseteq [Rows -> Contents \cup {NoRow}]

VARIABLES
    filter,     \* roleFilter or statusFilter
    selected,   \* selectedUserIds or selectedRequestIds
    muddled,    \* answers may have overtaken what they were to show (history)
    unsure      \* the rows that may have changed since the page has last loaded its list
                \* though it was told of a failure, or was not told yet (history)

adminVars == <<filter, selected, muddled, unsure>>

Patches == [state : States] \cup [note : Notes] \cup Contents

\* A row with what a patch has.
Patched(row, patch) ==
    [k \in DOMAIN row |-> IF k \in DOMAIN patch THEN patch[k] ELSE row[k]]

\* The rows of a list under a filter.
Filtered(f, rows) ==
    [r \in Rows |-> IF rows[r] # NoRow /\ (f = "all" \/ rows[r].state = f) THEN rows[r] ELSE NoRow]

\* Both pages load their list twice at first: once they know who the admin is, and
\* by the effect of the filter. The first of the two has been answered.
AdminInit ==
    /\ page \in Pages
    /\ table \in IF page \in {"users", "requests"} THEN FirstTables ELSE {Nothing}
    /\ list = table /\ checked = TRUE
    /\ loads = <<FirstFetch>>
    /\ calls = {} /\ others = 0 /\ acts = 0
    /\ filter = "all" /\ selected = {} /\ muddled = FALSE /\ unsure = {}

Load(f, waits) == Get(Filtered(f, table), waits, FALSE)

\* Nothing is disabled for it.
SetFilter(f) ==
    /\ Act /\ f # filter
    /\ filter' = f /\ Load(f, {})
    /\ muddled' = (muddled \/ calls # {}) /\ unsure' = {}
    /\ UNCHANGED <<page, table, list, checked, calls, others, selected>>

-----------------------------------------------------------------------------
(* The selection. *)

\* Variant: the selection outlives the rows.
KeepAll(rows) == selected

\* The effect of a new list.
Keep(rows) == {r \in selected : rows[r] # NoRow}

\* A checkbox; "toggle visible"; those in a state; those with a note; all; none. (The
\* model lets the user select as long as something can still be done with it.)
Select ==
    /\ checked /\ acts < MaxActs /\ ~Busy("bulk")
    /\ \/ \E r \in Listed : selected' = SymDiff(selected, {r})
       \/ selected' = IF Listed \subseteq selected THEN selected \ Listed ELSE selected \cup Listed
       \/ \E s \in States : selected' = {r \in Listed : list[r].state = s} /\ selected' # {}
       \/ \E n \in Notes : selected' = {r \in Listed : list[r].note = n} /\ selected' # {}
       \/ selected' \in {Listed, {}}
    /\ UNCHANGED <<listingVars, filter, muddled, unsure>>

-----------------------------------------------------------------------------
(* Requests. *)

\* What a handler remembers of its render; "rest" are the patches that a bulk
\* change has still to send.
Seen == [filter |-> filter, rest |-> <<>>]

\* The loop over the selected rows, as they were at the click.
StartBulk(patch) ==
    /\ Act /\ selected # {} /\ ~Busy("bulk")
    /\ \E r \in selected :
        Send("bulk", NoRow, r, patch[r],
             [Seen EXCEPT !.rest = [s \in selected \ {r} |-> patch[s]]])
    /\ UNCHANGED <<page, table, list, checked, loads, others, filter, selected, unsure>>

\* The next patch of the loop.
NextPatch(c) ==
    \E r \in DOMAIN c.seen.rest :
        calls' = (calls \ {c}) \cup
            {[c EXCEPT !.row = r, !.value = c.seen.rest[r], !.stage = "sent",
                       !.seen.rest = Restrict(@, DOMAIN @ \ {r})]}

\* PATCH: the answer is the row as it is stored. It is stored before the audit event
\* is, which may fail, or the answer is lost: the page is told of a failure then.
ServePatch(c) ==
    /\ c.op \in {"patch", "bulk"} /\ c.stage = "sent"
    /\ \/ /\ table[c.row] # NoRow
          /\ table' = [table EXCEPT ![c.row] = Patched(@, c.value)]
          /\ \/ calls' = (calls \ {c}) \cup {[c EXCEPT !.stage = "done", !.value = table'[c.row]]}
             \/ calls' = At(c, "refused")
       \/ UNCHANGED table /\ calls' = At(c, "refused")
    /\ UNCHANGED <<page, list, checked, loads, others, acts>>

\* What is kept of a request that is served.
Unnoticed(c) ==
    /\ unsure' = unsure \cup {r \in Rows : table'[r] # table[r] /\ calls' = At(c, "refused")}
    /\ UNCHANGED <<filter, selected, muddled>>

\* Other admins change the table, and GETs fail, until the user has done all that
\* the model lets the user do (a bound).
OtherAdmins ==
    /\ acts < MaxActs /\ Others
    /\ \A r \in Rows : table'[r] \in FirstRows \cup {NoRow, table[r]}
    /\ UNCHANGED adminVars
ListFails(i) == acts < MaxActs /\ Failed(i)

=============================================================================
