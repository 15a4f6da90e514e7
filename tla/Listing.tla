------------------------------- MODULE Listing -------------------------------
(***************************************************************************)
(* What the pages of the DeployMate app have in common: a browser tab with *)
(* one page open, the table on the server that the page lists, the GETs on *)
(* their way back and the requests of the user that change the table.      *)
(* A page loads its list, shows what the last answer brought (which need   *)
(* not be the answer to the last question), and disables a button while    *)
(* the request it sent is under way.                                       *)
(*                                                                         *)
(* A GET is answered from the table as it is when it is sent: one that is  *)
(* slow on its way there is one that is sent later.                        *)
(***************************************************************************)
EXTENDS Naturals, FiniteSets, SequencesExt

CONSTANTS
    Pages,          \* the pages a user may open
    Rows,           \* the ids of the rows of the table
    Contents,       \* what a row may hold, as far as a page tells it apart
    Bad,            \* what a failed deployment, or the details of a broken server, hold
    Templates,      \* the rows that are templates on the workflow page
    NoRow,          \* no row
    MaxOthers,      \* how often others change the table, or a GET fails (a bound)
    MaxLoads,       \* the GETs under way when a timer starts no other (a bound)
    MaxActs         \* how many things the user does (a bound)

ASSUME ListingAssumption ==
    /\ Bad \in Contents /\ NoRow \notin Contents \cup Rows /\ Templates \subseteq Rows
    /\ MaxOthers \in Nat /\ MaxLoads \in Nat \ {0} /\ MaxActs \in Nat

VARIABLES
    page,       \* the page that is open
    table,      \* the rows on the server
    list,       \* the rows that the page has loaded
    checked,    \* authChecked: whether the page has been shown
    loads,      \* the answers to GETs on their way back
    calls,      \* the requests under way that change the table
    others,     \* how often others have changed the table
    acts        \* how many things the user has done

\* What a step of the user leaves alone, and everything.
world == <<page, table, list, checked, loads, calls, others>>
listingVars == <<world, acts>>

\* A GET that was answered: these rows. "waits" are the requests that it ends, "seen"
\* the row that was selected in the render that asked.
Fetch(rows, waits, silent, seen) ==
    [rows |-> rows, waits |-> waits, silent |-> silent, seen |-> seen]

\* What a row may hold, and all tables.
MayHold(r) ==
    {NoRow} \cup (IF page = "workflow" /\ r \in Templates THEN Contents \ {Bad} ELSE Contents)
Table == {t \in [Rows -> Contents \cup {NoRow}] : \A r \in Rows : t[r] \in MayHold(r)}
Nothing == [r \in Rows |-> NoRow]
Listed == {r \in Rows : list[r] # NoRow}

\* The list is loaded at first; the server review page is shown before it arrives.
FirstFetch == Fetch(table, {}, FALSE, NoRow)

ListingInit ==
    /\ page \in Pages
    /\ table \in Table /\ list = Nothing /\ checked = (page = "servers")
    /\ loads = <<FirstFetch>>
    /\ calls = {} /\ others = 0

-----------------------------------------------------------------------------
(* Requests. *)

\* The user does something with the page.
Act == checked /\ acts < MaxActs /\ acts' = acts + 1

\* The list is asked for, and will be loaded as it is.
Get(rows, waits, silent) == loads' = Append(loads, Fetch(rows, waits, silent, NoRow))

\* Whether a request of this kind is under way, and whether the button of a row is
\* disabled for it: the page remembers one row, that of the last request ("noted"),
\* and forgets it when any request of this kind is over.
Busy(op) == \E c \in calls : c.op = op
BusyWith(op, r) == \E c \in calls : c.op = op /\ c.about = r /\ c.noted
Forget(S, ops) == {[c EXCEPT !.noted = @ /\ c.op \notin ops] : c \in S}
Over(done) == Forget(calls \ done, {c.op : c \in done})

\* A request from the button of a row, to store "value" in row "r": a new row if it
\* is NoRow, and NoRow deletes. "seen" is what its handler remembers of the render
\* that had the button.
Send(op, about, r, value, seen) ==
    calls' = Forget(calls, {op}) \cup
        {[op |-> op, about |-> about, row |-> r, value |-> value,
          seen |-> seen, stage |-> "sent", noted |-> TRUE]}

At(c, stage) == (calls \ {c}) \cup {[c EXCEPT !.stage = stage]}

\* A request that is over when the list has been loaded again.
Awaited(c) == [c EXCEPT !.stage = "loading", !.noted = FALSE]

\* The server stores the value, in one of the rows "new" if it is to create one,
\* or refuses, as it does when the row is gone. What was stored may be answered as
\* refused, too: a later step of the handler has failed, or the answer is lost.
Serve(c, new) ==
    /\ c.stage = "sent"
    /\ \/ \E r \in IF c.row = NoRow THEN {n \in new : table[n] = NoRow}
                   ELSE {n \in {c.row} : table[n] # NoRow} :
            /\ table' = [table EXCEPT ![r] = c.value]
            /\ \/ calls' = (calls \ {c}) \cup {[c EXCEPT !.stage = "done", !.row = r]}
               \/ calls' = At(c, "refused")
       \/ UNCHANGED table /\ calls' = At(c, "refused")
    /\ UNCHANGED <<page, list, checked, loads, others, acts>>

\* Others, and the work that goes on in the background, change a row.
Others ==
    /\ others < MaxOthers /\ others' = others + 1
    /\ \E r \in Rows : \E v \in MayHold(r) \ {table[r]} : table' = [table EXCEPT ![r] = v]
    /\ UNCHANGED <<page, list, checked, loads, calls, acts>>

\* The workflow page, once it is shown, loads its lists again by the effects of their
\* filters.
StillAsked(i) ==
    IF page = "workflow" /\ ~checked THEN Append(RemoveAt(loads, i), FirstFetch) ELSE RemoveAt(loads, i)

\* The i-th GET is over and the page shows these rows; or it has failed, and the
\* page shows what it had, or nothing.
Show(i, rows) ==
    /\ i \in DOMAIN loads /\ loads' = StillAsked(i)
    /\ calls' = Over({c \in calls : [c EXCEPT !.noted = FALSE] \in loads[i].waits})
    /\ list' = rows /\ checked' = TRUE
    /\ UNCHANGED <<page, table, acts>>

Fallback(i) == IF loads[i].silent THEN list ELSE Nothing

Arrived(i) == Show(i, loads[i].rows) /\ UNCHANGED others
Failed(i) == Show(i, Fallback(i)) /\ others < MaxOthers /\ others' = others + 1

ListingTypeOK ==
    /\ page \in Pages /\ table \in Table /\ list \in Table /\ checked \in BOOLEAN
    /\ \A i \in DOMAIN loads : loads[i].rows \in Table
    /\ \A c \in calls : c.stage \in {"sent", "done", "refused", "loading"}
    /\ others \in 0..MaxOthers

=============================================================================
