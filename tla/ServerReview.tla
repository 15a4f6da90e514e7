---------------------------- MODULE ServerReview ----------------------------
(***************************************************************************)
(* The server review page (app/app/server-review/page.js): the rows are    *)
(* saved servers. The user selects one, edits its details in a form that   *)
(* an effect fills, and has it checked; a server that passed a check is    *)
(* ready for the next step. There is no timer on this page; the user may   *)
(* use it before its list has arrived, and may load the list again.        *)
(***************************************************************************)
EXTENDS Listing

VARIABLES
    selectedId,     \* selectedItemId, NoRow at first
    segment,        \* segmentFilter
    edits,          \* editForm, with the row whose details filled it (history)
    results         \* serverTestResults and serverDiagnostics: what the last
                    \* check of each kind said, NoRow if there was none

reviewVars == <<selectedId, segment, edits, results>>

Kinds == {"test", "diagnostics"}
NoResults == [k \in Kinds |-> Nothing]

-----------------------------------------------------------------------------
(* What the page derives. *)

\* buildServerSegment: a server that passed either check is ready.
Ready(res, r) == \E k \in Kinds : res[k][r] \in Contents \ {Bad}

First(S) == IF S = {} THEN NoRow ELSE CHOOSE r \in S : TRUE

\* selectedItem: the selected row if it is listed, or the first that the filter
\* lets through, or the first.
SelectedItem(rows, sel, seg, res) ==
    LET items == {r \in Rows : rows[r] # NoRow}
        filtered == {r \in items : seg = "all" \/ (seg = "ready" <=> Ready(res, r))}
    IN  IF sel \in items THEN sel
        ELSE IF filtered # {} THEN First(filtered) ELSE First(items)

Selected == SelectedItem(list, selectedId, segment, results)

\* The form of a row.
EditForm(rows, r) == [of |-> r, text |-> IF r = NoRow THEN NoRow ELSE rows[r]]

\* Variant: keeps what stands in the form until the user selects another server.
RefillOnClick(rows, sel, seg, res) ==
    IF sel = selectedId THEN edits ELSE EditForm(rows, SelectedItem(rows, sel, seg, res))

\* The effect that fills the form when the item is another or is built anew, which
\* it is whenever the list or any result has changed.
Refill(rows, sel, seg, res) == EditForm(rows, SelectedItem(rows, sel, seg, res))

\* What a click does to the form: the effect is one of the selection and the item.
EditEffect(sel, seg) ==
    IF sel = selectedId /\ SelectedItem(list, sel, seg, results) = Selected THEN edits
    ELSE Refill(list, sel, seg, results)

-----------------------------------------------------------------------------
(* Steps. *)

\* loadServers, asked for by the render of now.
RefreshServers ==
    /\ Act /\ \A l \in ToSet(loads) : l.silent
    /\ loads' = Append(loads, Fetch(table, {}, FALSE, selectedId))
    /\ UNCHANGED <<page, table, list, checked, calls, others, reviewVars>>

\* Its answer: if that render had no server selected, the first one is. After a
\* creation it ends with the new server selected.
ServersAnswered(i) ==
    /\ Arrived(i) \/ Failed(i)
    /\ selectedId' = IF loads[i].waits # {} THEN (CHOOSE c \in loads[i].waits : TRUE).row
                     ELSE IF loads[i].seen = NoRow /\ list' # Nothing
                          THEN First({r \in Rows : list'[r] # NoRow}) ELSE selectedId
    /\ edits' = Refill(list', selectedId', segment, results)
    /\ UNCHANGED <<segment, results>>

\* handleSelectItem and focusServerQueue
SelectItem(r) ==
    /\ Act /\ r \in Listed \ {selectedId}
    /\ selectedId' = r /\ edits' = EditEffect(r, segment)
    /\ UNCHANGED <<world, segment, results>>

SetSegment(seg) ==
    /\ Act /\ seg # segment
    /\ segment' = seg /\ edits' = EditEffect(selectedId, seg)
    /\ UNCHANGED <<world, selectedId, results>>

\* updateEditFormField
Edit(v) ==
    /\ Act /\ Selected # NoRow /\ ~Busy("update")
    /\ edits' = [edits EXCEPT !.text = v]
    /\ UNCHANGED <<world, selectedId, segment, results>>

Asked == <<page, table, list, checked, loads, others, reviewVars>>

\* handleCreateServer
CreateServer(v) ==
    /\ Act /\ ~Busy("create") /\ Send("create", NoRow, NoRow, v, "form") /\ UNCHANGED Asked

\* handleUpdateServer
UpdateServer ==
    /\ Act /\ Selected # NoRow /\ ~Busy("update")
    /\ Send("update", Selected, Selected, edits.text, "form") /\ UNCHANGED Asked

\* handleDeleteServer
DeleteServer(r) ==
    /\ Act /\ r \in Listed /\ ~BusyWith("delete", r)
    /\ Send("delete", r, r, NoRow, "form") /\ UNCHANGED Asked

\* handleRunStarterAction
RunCheck(r, kind) ==
    /\ Act /\ r \in Listed /\ ~BusyWith("check", r)
    /\ Send("check", r, r, Bad, kind) /\ UNCHANGED Asked

\* The backend reaches for the server: bad details fail, good ones may.
ServeCheck(c) ==
    /\ c.op = "check" /\ c.stage = "sent"
    /\ \E v \in {table[c.row], Bad} : calls' =
        (calls \ {c}) \cup {[c EXCEPT !.value = v,
                                      !.stage = IF table[c.row] = NoRow THEN "refused" ELSE "done"]}
    /\ UNCHANGED <<page, table, list, checked, loads, others, acts, reviewVars>>

\* Variant: the result goes to the server that is selected when it arrives.
ResultForSelected(c) == [results EXCEPT ![c.seen][Selected] = c.value]

\* enrichServerRuntime
ResultFor(c) == [results EXCEPT ![c.seen][c.row] = c.value]

\* A request is answered: the list is mended, not loaded; except for a new server.
ServerAnswered(c) ==
    /\ c.stage = "done"
    /\ IF c.op = "create"
       THEN /\ calls' = At(c, "loading")
            /\ Get(table, {Awaited(c)}, TRUE)
            /\ UNCHANGED <<list, selectedId, edits, results>>
       ELSE /\ calls' = Over({c}) /\ UNCHANGED loads
            /\ list' = IF c.op = "check" \/ list[c.row] = NoRow THEN list
                       ELSE [list EXCEPT ![c.row] = c.value]
            /\ results' = IF c.op = "check" THEN ResultFor(c)
                          ELSE IF c.op = "delete"
                          THEN [k \in Kinds |-> [results[k] EXCEPT ![c.row] = NoRow]] ELSE results
            /\ selectedId' = IF c.op = "check" THEN c.row
                             ELSE IF c.op = "delete" /\ selectedId = c.row THEN NoRow
                             ELSE selectedId
            /\ edits' = Refill(list', selectedId', segment, results')
    /\ UNCHANGED <<page, table, checked, others, acts, segment>>

ServerRefused(c) ==
    /\ c.stage = "refused" /\ calls' = Over({c})
    /\ UNCHANGED <<Asked, acts>>

-----------------------------------------------------------------------------
(* The page and its steps. *)

ReviewInit ==
    /\ selectedId = NoRow /\ segment = "all"
    /\ edits = EditForm(Nothing, NoRow) /\ results = NoResults

ReviewNext ==
    \/ RefreshServers \/ \E i \in DOMAIN loads : ServersAnswered(i)
    \/ \E r \in Rows : SelectItem(r) \/ DeleteServer(r)
    \/ \E r \in Rows, k \in Kinds : RunCheck(r, k)
    \/ \E seg \in {"all", "ready", "review"} : SetSegment(seg)
    \/ \E v \in Contents : Edit(v) \/ CreateServer(v)
    \/ UpdateServer
    \/ \E c \in calls : ServeCheck(c) \/ ServerAnswered(c) \/ ServerRefused(c)
    \/ (Others \/ \E c \in calls : c.op # "check" /\ Serve(c, Rows)) /\ UNCHANGED reviewVars

-----------------------------------------------------------------------------
(* Properties. *)

\* An update stores what the user edited in the server whose details the form was
\* filled with, although the selection moves by itself: to the server whose check
\* is answered, to a new one, or to the first of those left.
EditsGoHome == page = "servers" => edits.of = Selected

\* A server becomes ready only by its own check, made of what the backend has for it.
ReadyByItsOwnCheck ==
    [][\A r \in Rows : page = "servers" /\ Ready(results', r) /\ ~Ready(results, r) =>
        \E c \in calls \ calls' : c.op = "check" /\ c.row = r /\ c.value # Bad]_reviewVars

=============================================================================
