----------------------------- MODULE PageFilters -----------------------------
(***************************************************************************)
(* The filters of the two lists of an admin (app/app/users/page.js,        *)
(* app/app/upgrade-requests/page.js): what is put into the page, the       *)
(* address of the page, which follows, so that it can be copied and opened *)
(* elsewhere, saved views, and the list that is loaded for all of it, for  *)
(* a text only once it has not changed for a while ("debounced").          *)
(*                                                                         *)
(* Both pages have a search text "q", choices such as role or status, of   *)
(* which "choice" is one (linked_only is one of two values), a search text *)
(* for the audit log, and an order of that log. The log itself is loaded   *)
(* like the list and left out, so are lists that are refused, which leave  *)
(* the page or empty it. Texts are equal when they are trimmed.            *)
(***************************************************************************)
EXTENDS Naturals, SequencesExt

CONSTANTS
    Texts,          \* what may be searched for
    MaxEdits        \* how often the user does something (a bound)

ASSUME FiltersAssumption == "" \in Texts /\ MaxEdits \in Nat

VARIABLES
    filters,        \* the state of the filters
    debounced,      \* debouncedQuery
    address,        \* searchParams
    going,          \* the address of a router.replace under way: a sequence of at most one
    known,          \* authChecked: the page is shown
    queries,        \* the GETs of the list under way: what each asks for
    answered,       \* what the list that is shown was loaded for: a sequence of at most one
    savedView,      \* the filters of a saved view, or none
    late,           \* an answer has overtaken another (history)
    edits           \* how often the user has done something

filtersVars ==
    <<filters, debounced, address, going, known, queries, answered, savedView, late, edits>>

\* primaryFilterDefinitions and auditFilterDefinitions
ViewFields == {"q", "choice", "audit_q"}
AuditFields == {"audit_q", "sort"}
Fields == ViewFields \cup AuditFields

Values(k) ==
    CASE k = "choice" -> {"all", "some"} [] k = "sort" -> {"newest", "oldest"} [] OTHER -> Texts

\* The values with which a filter does nothing.
Neutral == [q |-> "", choice |-> "all", audit_q |-> "", sort |-> "newest"]

FilterStates == {f \in [Fields -> UNION {Values(k) : k \in Fields}] :
                    \A k \in Fields : f[k] \in Values(k)}

\* A text that reads like a choice counts as neutral.
isActiveFilterValue(v) == v \notin {"", "all"}
IsActive(f, k) == IF k = "sort" THEN f[k] # "newest" ELSE isActiveFilterValue(f[k])

\* buildSearchParams drops neutral values, of whatever filter.
buildSearchParams(f) == [k \in {j \in DOMAIN f : f[j] \notin {"", "all", "newest"}} |-> f[k]]

\* syncedSearchParams: what the address should be.
Synced(f) == buildSearchParams([k \in {j \in Fields : IsActive(f, j)} |-> f[k]])

\* The state of a page that is opened at an address.
OpenedAt(a) == [k \in Fields |-> IF k \in DOMAIN a THEN a[k] ELSE Neutral[k]]

\* applyFilterDefinitions: what is not given is reset.
Applied(S, given) == [k \in Fields |->
    IF k \notin S THEN filters[k] ELSE IF k \in DOMAIN given THEN given[k] ELSE Neutral[k]]

-----------------------------------------------------------------------------
(* Loading. *)

\* The query of loadUsers and loadRequests.
QueryFor(text, f) == [q |-> text, choice |-> f.choice]

\* A page at its address, before it knows who the user is.
OpenAt(a) ==
    /\ filters' = OpenedAt(a) /\ address' = a
    /\ going' = IF Synced(filters') = a THEN <<>> ELSE <<Synced(filters')>>
    /\ debounced' = "" /\ known' = FALSE /\ queries' = <<>> /\ answered' = <<>>
    /\ late' = FALSE

\* checkAuthAndLoad: the list is asked for by the first render, which knows of no text,
\* and by the effect of the filters.
AdminIsKnown ==
    /\ ~known /\ known' = TRUE
    /\ queries' = <<QueryFor("", filters), QueryFor(debounced, filters)>>
    /\ UNCHANGED <<filters, debounced, address, going, answered, savedView, late, edits>>

\* useDebouncedValue, and the effect of the filters.
TextSettles ==
    /\ debounced # filters.q /\ debounced' = filters.q
    /\ queries' = IF known THEN Append(queries, QueryFor(debounced', filters)) ELSE queries
    /\ UNCHANGED <<filters, address, going, known, answered, savedView, late, edits>>

\* The list arrives, whatever it was asked for.
ListOf(i) ==
    /\ i \in DOMAIN queries /\ queries' = RemoveAt(queries, i)
    /\ answered' = <<queries[i]>> /\ late' = (late \/ i # 1)
    /\ UNCHANGED <<filters, debounced, address, going, known, savedView, edits>>

\* router.replace has been carried out; the effect looks again.
AddressArrives ==
    /\ going # <<>> /\ address' = going[1]
    /\ going' = IF Synced(filters) = address' THEN <<>> ELSE <<Synced(filters)>>
    /\ UNCHANGED <<filters, debounced, known, queries, answered, savedView, late, edits>>

-----------------------------------------------------------------------------
(* The user. *)

OnceMore == edits < MaxEdits /\ edits' = edits + 1

\* Filters change, and with them, by effects, the address and the list.
Edit(f) ==
    /\ known /\ OnceMore /\ f # filters /\ filters' = f
    /\ going' = IF Synced(f) = address \/ Synced(f) = Synced(filters) THEN going ELSE <<Synced(f)>>
    /\ queries' = IF f.choice = filters.choice THEN queries
                  ELSE Append(queries, QueryFor(debounced, f))
    /\ UNCHANGED <<debounced, address, known, answered, savedView, late>>

\* A field, a select, or the chip of a filter.
PutIn == \E k \in Fields : \E v \in Values(k) : Edit([filters EXCEPT ![k] = v])

\* hasUserFilters, hasRequestFilters
hasFilters == \E k \in ViewFields : IsActive(filters, k)

\* resetUserFilters, and handleResetAuditTools
ResetFilters ==
    \/ hasFilters /\ Edit(Applied(ViewFields, <<>>))
    \/ Edit(Applied(AuditFields, <<>>))

\* handleSaveCurrentView: for what is active.
SaveFilters ==
    /\ known /\ OnceMore /\ hasFilters
    /\ savedView' = [k \in ViewFields |-> filters[k]]
    /\ UNCHANGED <<filters, debounced, address, going, known, queries, answered, late>>

\* handleApplySavedView
ApplySavedView == savedView # <<>> /\ Edit(Applied(ViewFields, savedView))

\* A link is opened: that of the page, copied or reloaded (handleCopyCurrentView), that of
\* the audit log (handleCopyAuditViewLink), or that of a saved view.
OpenLink ==
    /\ OnceMore /\ UNCHANGED savedView
    /\ \/ OpenAt(address)
       \/ known /\ OpenAt(buildSearchParams([k \in AuditFields |-> filters[k]]))
       \/ known /\ savedView # <<>> /\ OpenAt(buildSearchParams(savedView))

FiltersInit ==
    /\ filters \in FilterStates /\ address = buildSearchParams(filters)
    /\ filters = OpenedAt(address) /\ going = <<>>
    /\ debounced = "" /\ known = FALSE /\ queries = <<>> /\ answered = <<>>
    /\ savedView = <<>> /\ late = FALSE /\ edits = 0

FiltersNext ==
    \/ AdminIsKnown \/ TextSettles \/ (\E i \in DOMAIN queries : ListOf(i)) \/ AddressArrives
    \/ PutIn \/ ResetFilters \/ SaveFilters \/ ApplySavedView \/ OpenLink

-----------------------------------------------------------------------------
(* Properties. *)

\* The list that is shown is of the filters that are shown, once nothing is under way:
\* unless answers have overtaken each other.
ShowsFiltered ==
    known /\ queries = <<>> /\ debounced = filters.q /\ ~late =>
        answered = <<QueryFor(filters.q, filters)>>

\* The address has followed the filters, and a copy of it leads back to them: unless a
\* text is one of the words that the address takes for neutral.
AddressFollows ==
    /\ address = Synced(filters) /\ debounced = filters.q
    /\ filters.q \notin {"all", "newest"} /\ filters.audit_q \notin {"all", "newest"} =>
        OpenedAt(address) = filters

=============================================================================
