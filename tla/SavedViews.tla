------------------------------ MODULE SavedViews ------------------------------
(***************************************************************************)
(* The saved filter views of the admin pages (lib/admin-saved-views.js,    *)
(* useAdminSavedViewsManager in lib/admin-page-hooks.js): each tab of the  *)
(* browser holds the views in its state, which it reads from localStorage  *)
(* once, when it is opened, and writes there whole whenever it changes     *)
(* them. Views can be exported to a file and imported again, later or in   *)
(* another tab; except those of the audit log on these pages, which are    *)
(* kept apart (useAdminAuditViewsManager).                                 *)
(*                                                                         *)
(* The filters of a view and the order in which views are shown are left   *)
(* out; names are equal when they are after normalizeSavedViewName.        *)
(***************************************************************************)
EXTENDS Naturals, FiniteSets

CONSTANTS
    Tabs,           \* the tabs of the browser
    Names,          \* names of views
    MaxViews,       \* as many views are kept (8)
    MaxIds          \* how many views are created (a bound)

ASSUME ViewsAssumption == MaxViews \in Nat /\ MaxIds \in Nat

VARIABLES
    audit,          \* whether these are the views of the audit log
    views,          \* savedViews, by tab
    stored,         \* what localStorage holds
    exported,       \* the file of the last export
    clock           \* Date.now(): the ids that are in use are smaller

viewVars == <<audit, views, stored, exported, clock>>

View == [id : 1..MaxIds, name : Names, source : {"local", "imported"}]

NamesOf(V) == {v.name : v \in V}

\* matchedSavedViewByName: the id of the view of this name, or a new one.
IdFor(V, name) == IF name \in NamesOf(V) THEN (CHOOSE v \in V : v.name = name).id ELSE clock

\* upsertSavedView
Upsert(V, name) ==
    {[id |-> IdFor(V, name), name |-> name, source |-> "local"]}
        \cup {v \in V : v.name # name}

\* What is left of views at the limit.
Cut(V, name) ==
    IF Cardinality(V) <= MaxViews THEN {V}
    ELSE {V \ {v} : v \in {v \in V : v.name # name}}

\* Variant: tells the views by their ids.
MergeById(V, file) ==
    LET imported == {[v EXCEPT !.source = "imported"] : v \in file}
    IN  {imported \cup {v \in V : \A w \in imported : v.id # w.id}}

\* importSavedViewsBundle: those of the file, and as many of the others as there is
\* room for (the newest; the model leaves open which).
Merges(V, file) ==
    LET imported == {[v EXCEPT !.source = "imported"] : v \in file}
        others == {v \in V : v.name \notin NamesOf(file)}
    IN  {imported \cup K : K \in {K \in SUBSET others :
            \/ K = others /\ Cardinality(imported \cup K) <= MaxViews
            \/ Cardinality(imported \cup K) = MaxViews}}

\* persistSavedViews
Persist(t, V) == views' = [views EXCEPT ![t] = V] /\ stored' = V

\* handleSaveCurrentView; a new name is refused at the limit. handleSaveAuditView: the
\* last of the views is dropped then (the oldest; the model leaves open which).
SaveView(t, name) ==
    /\ name \in NamesOf(views[t]) \/ clock <= MaxIds
    /\ audit \/ name \in NamesOf(views[t]) \/ Cardinality(views[t]) < MaxViews
    /\ \E V \in Cut(Upsert(views[t], name), name) : Persist(t, V)
    /\ clock' = IF name \in NamesOf(views[t]) THEN clock ELSE clock + 1
    /\ UNCHANGED <<audit, exported>>

\* handleDeleteSavedView, by the id.
DeleteView(t, id) ==
    /\ \E v \in views[t] : v.id = id
    /\ Persist(t, {v \in views[t] : v.id # id})
    /\ UNCHANGED <<audit, exported, clock>>

ClearViews(t) == ~audit /\ Persist(t, {}) /\ UNCHANGED <<audit, exported, clock>>

ClearImported(t) ==
    /\ ~audit
    /\ Persist(t, {v \in views[t] : v.source # "imported"})
    /\ UNCHANGED <<audit, exported, clock>>

\* handleDownloadSavedViews, once (a bound).
ExportViews(t) ==
    /\ ~audit /\ views[t] # {} /\ exported = {} /\ exported' = views[t]
    /\ UNCHANGED <<audit, views, stored, clock>>

\* handleImportSavedViews; the file is read at once.
ImportViews(t) ==
    /\ exported # {}
    /\ \E V \in Merges(views[t], exported) : Persist(t, V)
    /\ UNCHANGED <<audit, exported, clock>>

\* useLoadStoredFormattedViews
OpenTab(t) ==
    /\ views' = [views EXCEPT ![t] = stored]
    /\ UNCHANGED <<audit, stored, exported, clock>>

ViewsInit ==
    /\ audit \in BOOLEAN
    /\ views = [t \in Tabs |-> {}] /\ stored = {} /\ exported = {} /\ clock = 1

ViewsNext ==
    \E t \in Tabs :
        \/ \E name \in Names : SaveView(t, name)
        \/ \E id \in 1..MaxIds : DeleteView(t, id)
        \/ ClearViews(t) \/ ClearImported(t)
        \/ ExportViews(t) \/ ImportViews(t) \/ OpenTab(t)

-----------------------------------------------------------------------------
(* Properties. *)

Distinct(V) ==
    /\ Cardinality(V) <= MaxViews
    /\ \A v, w \in V : v.name = w.name \/ v.id = w.id => v = w

\* No two views of a tab, or of the storage, have the same name or the same id, and
\* there are not more than the limit: however often views are deleted, saved anew
\* and imported from an older export, while other tabs overwrite the storage. (The
\* pages find a view by its id, to delete it, and by its name, to replace it.)
ViewsAreDistinct == Distinct(stored) /\ \A t \in Tabs : Distinct(views[t])

=============================================================================
