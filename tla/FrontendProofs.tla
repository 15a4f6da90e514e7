--------------------------- MODULE FrontendProofs ---------------------------
(***************************************************************************)
(* What the pages of Frontend that have no list guarantee, for any number  *)
(* of tabs, views, bundles, windows and keys, and however long they are    *)
(* used: saved views, the import review, and the sign-in and the input of  *)
(* the pages of the terminal.                                              *)
(***************************************************************************)
EXTENDS Frontend, FiniteSetTheorems, SequenceTheorems, TLAPS

-----------------------------------------------------------------------------
(* Saved views. *)

\* A set of views that a page may hold.
Good(V) ==
    /\ V \subseteq View /\ IsFiniteSet(V) /\ Cardinality(V) <= MaxViews
    /\ \A v, w \in V : v.name = w.name => v = w

\* All views there are; an id stands for one name wherever it is.
AllViews == stored \cup exported \cup UNION {views[t] : t \in Tabs}

IdsAreOfNames == \A v, w \in AllViews : v.id = w.id => v.name = w.name
IdsAreUsed == \A v \in AllViews : v.id < clock

ViewsInv ==
    /\ clock \in Nat \ {0} /\ DOMAIN views = Tabs
    /\ Good(stored) /\ Good(exported) /\ \A t \in Tabs : Good(views[t])
    /\ IdsAreOfNames /\ IdsAreUsed

LEMMA ViewsInvInit == ViewsInit => ViewsInv
<1> SUFFICES ASSUME ViewsInit PROVE ViewsInv
  OBVIOUS
<1>1. Good({})
  BY FS_EmptySet, ViewsAssumption DEF Good
<1> QED BY <1>1 DEF ViewsInit, ViewsInv, IdsAreOfNames, IdsAreUsed, AllViews

\* A tab writes views that exist already, or one that is new.
LEMMA PersistKeeps ==
    ASSUME ViewsInv, NEW t \in Tabs, NEW V, Persist(t, V), Good(V), UNCHANGED exported,
           NEW n, clock' \in {clock, clock + 1},
           \A v \in V : \/ \E w \in AllViews : w.id = v.id /\ w.name = v.name
                        \/ v.id = clock /\ v.name = n /\ clock' = clock + 1
    PROVE  ViewsInv'
<1>1. stored' = V /\ views' = [views EXCEPT ![t] = V] /\ DOMAIN views = Tabs /\ clock \in Nat \ {0}
  BY DEF Persist, ViewsInv
<1>2. \A s \in Tabs : views'[s] = IF s = t THEN V ELSE views[s]
  BY <1>1
<1>3. DOMAIN views' = Tabs /\ clock' \in Nat \ {0}
  BY <1>1
<1>4. Good(stored)' /\ Good(exported)' /\ \A s \in Tabs : Good(views[s])'
  BY <1>1, <1>2 DEF ViewsInv, Good, View
<1>5. \A v \in AllViews' : v \in AllViews \/ v \in V
  BY <1>1, <1>2 DEF AllViews
<1>6. \A v \in AllViews' : \/ \E w \in AllViews : w.id = v.id /\ w.name = v.name
                           \/ v.id = clock /\ v.name = n /\ clock' = clock + 1
  BY <1>5
<1>7. \A w \in AllViews : w.id < clock /\ w.id \in Nat
  BY DEF ViewsInv, IdsAreUsed, AllViews, Good, View
<1>8. IdsAreOfNames'
  <2> SUFFICES ASSUME NEW v \in AllViews', NEW w \in AllViews', v.id = w.id PROVE v.name = w.name
    BY DEF IdsAreOfNames
  <2> QED BY <1>1, <1>6, <1>7 DEF ViewsInv, IdsAreOfNames
<1>9. IdsAreUsed'
  BY <1>1, <1>6, <1>7 DEF IdsAreUsed
<1> QED BY <1>3, <1>4, <1>8, <1>9 DEF ViewsInv

\* Saving under a name takes the place of the view of this name, if there is one.
LEMMA UpsertIsGood ==
    ASSUME NEW V, Good(V), NEW name \in Names, clock \in Nat \ {0},
           name \in NamesOf(V) \/ clock <= MaxIds
    PROVE  LET U == Upsert(V, name)
               x == [id |-> IdFor(V, name), name |-> name, source |-> "local"]
           IN  /\ U \subseteq View /\ IsFiniteSet(U) /\ x \in U
               /\ \A v \in U : v = x \/ v \in V
               /\ \A v, w \in U : v.name = w.name => v = w
               /\ IF name \in NamesOf(V) THEN \E w \in V : w.id = x.id /\ w.name = name
                  ELSE x.id = clock
               /\ Cardinality(U) \in Nat /\ Cardinality(V) \in Nat
               /\ Cardinality(U) <= Cardinality(V) + 1
               /\ name \in NamesOf(V) => Cardinality(U) <= Cardinality(V)
<1> DEFINE x == [id |-> IdFor(V, name), name |-> name, source |-> "local"]
           rest == {v \in V : v.name # name}
           U == Upsert(V, name)
<1>1. IsFiniteSet(V) /\ V \subseteq View /\ \A v, w \in V : v.name = w.name => v = w
  BY DEF Good
<1>2. IF name \in NamesOf(V) THEN \E w \in V : w.id = x.id /\ w.name = name ELSE x.id = clock
  BY DEF IdFor, NamesOf
<1>3. x \in View
  <2>1. x.id \in 1..MaxIds
    BY <1>1, <1>2, ViewsAssumption DEF View
  <2> QED BY <2>1 DEF View
<1>4. rest \in SUBSET V /\ IsFiniteSet(rest) /\ Cardinality(rest) <= Cardinality(V)
  BY <1>1, FS_Subset
<1>5. U = rest \cup {x}
  BY DEF Upsert
<1>6. Cardinality(V) \in Nat /\ Cardinality(rest) \in Nat
  BY <1>1, <1>4, FS_CardinalityType
<1>7. x \notin rest
  OBVIOUS
<1>8. /\ IsFiniteSet(U) /\ Cardinality(U) = Cardinality(rest) + 1
  <2> HIDE DEF rest, x, U
  <2>1. IsFiniteSet(rest \cup {x}) /\ Cardinality(rest \cup {x}) = Cardinality(rest) + 1
    BY ONLY <1>4, <1>7, FS_AddElement
  <2> QED BY ONLY <1>5, <2>1
<1>9. ASSUME name \in NamesOf(V) PROVE Cardinality(U) <= Cardinality(V)
  <2>1. PICK w \in V : w.name = name
    BY <1>9 DEF NamesOf
  <2>2. rest = V \ {w}
    BY <1>1, <2>1
  <2>3. Cardinality(rest) = Cardinality(V) - 1
    BY <1>1, <2>2, FS_RemoveElement
  <2> QED BY <1>6, <1>8, <2>3
<1>10. \A v \in U : v = x \/ v \in V
  BY <1>4, <1>5
<1>11. \A v, w \in U : v.name = w.name => v = w
  BY <1>1, <1>5
<1>12. U \subseteq View /\ x \in U
  BY <1>1, <1>3, <1>4, <1>5
<1>13. Cardinality(U) \in Nat /\ Cardinality(U) <= Cardinality(V) + 1
  BY <1>4, <1>6, <1>8
<1> QED BY <1>2, <1>6, <1>8, <1>9, <1>10, <1>11, <1>12, <1>13

\* Fewer views are good, too.
LEMMA FewerAreGood == ASSUME NEW V, Good(V), NEW W \in SUBSET V PROVE Good(W)
<1>1. IsFiniteSet(W) /\ Cardinality(W) <= Cardinality(V)
  BY FS_Subset DEF Good
<1>2. Cardinality(W) \in Nat /\ Cardinality(V) \in Nat
  BY <1>1, FS_CardinalityType DEF Good
<1> QED BY <1>1, <1>2, ViewsAssumption DEF Good

LEMMA SaveKeeps == ASSUME ViewsInv, NEW t \in Tabs, NEW name \in Names, SaveView(t, name)
                   PROVE  ViewsInv'
<1> DEFINE V == views[t]
           U == Upsert(V, name)
           x == [id |-> IdFor(V, name), name |-> name, source |-> "local"]
<1>1. Good(V) /\ clock \in Nat \ {0} /\ (name \in NamesOf(V) \/ clock <= MaxIds)
  BY DEF ViewsInv, SaveView
<1>2. PICK W \in Cut(U, name) : Persist(t, W)
  BY DEF SaveView
<1>3. /\ U \subseteq View /\ IsFiniteSet(U)
      /\ \A v \in U : v = x \/ v \in V
      /\ \A v, w \in U : v.name = w.name => v = w
      /\ IF name \in NamesOf(V) THEN \E w \in V : w.id = x.id /\ w.name = name ELSE x.id = clock
      /\ Cardinality(U) \in Nat /\ Cardinality(V) \in Nat
      /\ Cardinality(U) <= Cardinality(V) + 1
  BY <1>1, UpsertIsGood
<1> HIDE DEF U, x
<1>4. W \subseteq U /\ IsFiniteSet(W) /\ Cardinality(W) <= MaxViews
  <2>1. CASE Cardinality(U) <= MaxViews
    BY <1>2, <1>3, <2>1 DEF Cut
  <2>2. CASE ~(Cardinality(U) <= MaxViews)
    <3>1. PICK v \in U : W = U \ {v}
      BY <1>2, <2>2 DEF Cut
    <3>2. IsFiniteSet(W) /\ Cardinality(W) = Cardinality(U) - 1
      BY <1>3, <3>1, FS_RemoveElement
    <3>3. Cardinality(V) <= MaxViews
      BY <1>1 DEF Good
    <3> QED BY <1>3, <3>1, <3>2, <3>3, ViewsAssumption
  <2> QED BY <2>1, <2>2
<1>5. Good(W)
  BY <1>3, <1>4 DEF Good
<1>6. V \subseteq AllViews
  BY DEF AllViews
<1>7. /\ UNCHANGED exported
      /\ clock' = IF name \in NamesOf(V) THEN clock ELSE clock + 1
  BY DEF SaveView
<1>8. \A v \in W : \/ \E w \in AllViews : w.id = v.id /\ w.name = v.name
                   \/ v.id = clock /\ v.name = name /\ clock' = clock + 1
  <2>1. x.name = name
    BY DEF x
  <2> QED BY <1>3, <1>4, <1>6, <1>7, <2>1
<1>9. clock' \in {clock, clock + 1}
  BY <1>7
<1> HIDE DEF V
<1> QED BY <1>2, <1>5, <1>7, <1>8, <1>9, PersistKeeps

\* An import takes the views of the file, and some of the others.
LEMMA MergeIsGood ==
    ASSUME NEW V, Good(V), NEW file, Good(file), NEW W \in Merges(V, file)
    PROVE  /\ Good(W)
           /\ \A v \in W : \E w \in V \cup file : w.id = v.id /\ w.name = v.name
<1> DEFINE mark == [v \in file |-> [v EXCEPT !.source = "imported"]]
           imported == {[v EXCEPT !.source = "imported"] : v \in file}
           unlisted == {v \in V : v.name \notin NamesOf(file)}
<1>1. PICK K \in SUBSET unlisted :
         /\ W = imported \cup K
         /\ Cardinality(W) <= MaxViews \/ Cardinality(W) = MaxViews
  BY DEF Merges
<1>2. \A v \in file : /\ mark[v] \in View /\ mark[v].id = v.id /\ mark[v].name = v.name
                      /\ mark[v] \in imported
  BY DEF Good, View
<1>3. \A w \in imported : \E v \in file : w = mark[v]
  OBVIOUS
<1>4. mark \in Surjection(file, imported)
  BY <1>2, <1>3 DEF Surjection
<1> HIDE DEF mark, imported
<1>5. IsFiniteSet(imported) /\ IsFiniteSet(K)
  BY <1>4, FS_Surjection, FS_Subset DEF Good
<1>6. IsFiniteSet(W)
  BY <1>1, <1>5, FS_Union
<1>7. Cardinality(W) <= MaxViews
  BY <1>1, ViewsAssumption
<1>8. \A v \in W : \/ \E w \in file : v = mark[w]
                   \/ v \in V /\ v.name \notin NamesOf(file)
  BY <1>1, <1>3
<1>9. W \subseteq View
  BY <1>2, <1>8 DEF Good
<1>10. \A v, w \in W : v.name = w.name => v = w
  <2>1. \A v, w \in file : v.name = w.name => v = w
    BY DEF Good
  <2>2. \A v, w \in V : v.name = w.name => v = w
    BY DEF Good
  <2>3. \A v \in file : v.name \in NamesOf(file)
    BY DEF NamesOf
  <2> QED BY <1>2, <1>8, <2>1, <2>2, <2>3
<1>11. Good(W)
  BY <1>6, <1>7, <1>9, <1>10 DEF Good
<1>12. \A v \in W : \E w \in V \cup file : w.id = v.id /\ w.name = v.name
  BY <1>2, <1>8
<1> QED BY <1>11, <1>12

LEMMA ViewsStep == ViewsInv /\ [ViewsNext]_viewVars => ViewsInv'
<1> SUFFICES ASSUME ViewsInv, [ViewsNext]_viewVars PROVE ViewsInv'
  OBVIOUS
<1>1. ASSUME NEW t \in Tabs, NEW name \in Names, SaveView(t, name) PROVE ViewsInv'
  BY <1>1, SaveKeeps
<1>2. ASSUME NEW t \in Tabs, NEW V \in SUBSET AllViews, Good(V), Persist(t, V), UNCHANGED <<exported, clock>>
      PROVE  ViewsInv'
  BY <1>2, PersistKeeps DEF ViewsInv
<1>3. ASSUME NEW t \in Tabs, NEW W \in SUBSET views[t], Persist(t, W), UNCHANGED <<exported, clock>>
      PROVE  ViewsInv'
  BY <1>2, <1>3, FewerAreGood DEF ViewsInv, AllViews
<1>4. ASSUME NEW t \in Tabs, \/ \E id \in 1..MaxIds : DeleteView(t, id)
                             \/ ClearViews(t) \/ ClearImported(t)
      PROVE  ViewsInv'
  BY <1>3, <1>4 DEF DeleteView, ClearViews, ClearImported
<1>5. ASSUME NEW t \in Tabs, ImportViews(t) PROVE ViewsInv'
  <2>1. PICK W \in Merges(views[t], exported) : Persist(t, W) /\ UNCHANGED <<exported, clock>>
    BY <1>5 DEF ImportViews
  <2>2. /\ Good(W)
        /\ \A v \in W : \E w \in views[t] \cup exported : w.id = v.id /\ w.name = v.name
    BY <2>1, MergeIsGood DEF ViewsInv
  <2>3. \A v \in W : \E w \in AllViews : w.id = v.id /\ w.name = v.name
    BY <2>2 DEF AllViews
  <2> QED BY <2>1, <2>2, <2>3, PersistKeeps
<1>6. ASSUME NEW t \in Tabs, ExportViews(t) PROVE ViewsInv'
  <2>1. UNCHANGED <<views, stored, clock>> /\ exported' = views[t]
    BY <1>6 DEF ExportViews
  <2>2. AllViews' \subseteq AllViews
    BY <2>1 DEF AllViews
  <2> QED BY <2>1, <2>2 DEF ViewsInv, IdsAreOfNames, IdsAreUsed, Good, View
<1>7. ASSUME NEW t \in Tabs, OpenTab(t) PROVE ViewsInv'
  <2>1. Persist(t, stored) /\ UNCHANGED <<exported, clock>>
    BY <1>7 DEF OpenTab, Persist
  <2> QED BY <1>2, <2>1 DEF ViewsInv, AllViews
<1>8. CASE UNCHANGED viewVars
  <2>1. UNCHANGED <<views, stored, exported, clock>>
    BY <1>8 DEF viewVars
  <2>2. AllViews' = AllViews
    BY <2>1 DEF AllViews
  <2> QED BY <2>1, <2>2 DEF ViewsInv, IdsAreOfNames, IdsAreUsed, Good, View
<1> QED BY <1>1, <1>4, <1>5, <1>6, <1>7, <1>8 DEF ViewsNext

\* Other pages leave the views alone.
LEMMA ViewsMoves == [Next]_vars => [ViewsNext]_viewVars
BY DEF Next, vars, OnUsers, OnRequests, OnLists, OnFilters, OnOverview, OnSignIn, OnAccess, OnTyping,
       savedVars, frontendVars

\* However many tabs overwrite each other's views and import old exports, no two
\* views have the same name or the same id, and there are at most MaxViews.
THEOREM ViewsStayDistinct == Spec => []ViewsAreDistinct
<1>1. Init => ViewsInv
  BY ViewsInvInit DEF Init
<1>2. ViewsInv /\ [Next]_vars => ViewsInv'
  BY ViewsStep, ViewsMoves
<1>3. ViewsInv => ViewsAreDistinct
  <2> SUFFICES ASSUME ViewsInv PROVE ViewsAreDistinct
    OBVIOUS
  <2>1. ASSUME NEW V, Good(V), V \subseteq AllViews PROVE Distinct(V)
    BY <2>1 DEF Distinct, Good, ViewsInv, IdsAreOfNames
  <2>2. stored \subseteq AllViews /\ \A t \in Tabs : views[t] \subseteq AllViews
    BY DEF AllViews
  <2> QED BY <2>1, <2>2 DEF ViewsInv, ViewsAreDistinct
<1> QED BY <1>1, <1>2, <1>3, PTL DEF Spec

-----------------------------------------------------------------------------
(* The restore section and the import review. *)

\* Unless a text has overtaken a report, reports are of the text in the editor, and
\* what was handed over names one bundle.
OneText == ~overtaken =>
    /\ asked # NotAsked => asked.of = bundleText
    /\ dryRun \in {NoBundle, bundleText} /\ importPlan \in {NoBundle, bundleText}

Whole(w) == ~w.mixed => w.dryRun = w.plan

BundleInv ==
    /\ OneText /\ Whole(handoff) /\ Whole(workspace)
    /\ ~issued.mixed => \E b : issued.names \subseteq {b}
    /\ typed # NoBundle /\ workspace # NoWorkspace => typed = workspace.plan

LEMMA BundleInvInit == RestoreInit /\ ReviewInit => BundleInv
BY DEF RestoreInit, ReviewInit, BundleInv, OneText, Whole, NotAsked, NoWorkspace

\* The editor, and its reports.
LEMMA RestoreKeepsOneText == OneText /\ RestoreNext => OneText'
<1> SUFFICES ASSUME OneText, RestoreNext PROVE OneText'
  OBVIOUS
<1> USE DEF OneText, NotAsked
<1>1. ASSUME NEW b \in Bundles \cup {NoBundle}, ChangeText(b) PROVE OneText'
  BY <1>1 DEF ChangeText, SetText
<1>2. ASSUME NEW kind, AskFor(kind) PROVE OneText'
  BY <1>2 DEF AskFor
<1>3. CASE ReportArrives
  BY <1>3 DEF ReportArrives
<1>4. CASE ReportFails
  BY <1>4 DEF ReportFails
<1> QED BY <1>1, <1>2, <1>3, <1>4 DEF RestoreNext

\* A page that is opened or loaded shows what was handed over, or asks anew.
LEMMA LoadKeeps ==
    ASSUME BundleInv, NEW h, Whole(h), NEW force, LoadWorkspace(h, force),
           handoff' = h, UNCHANGED <<restoreVars, issued>>
    PROVE  BundleInv'
BY DEF BundleInv, OneText, Whole, LoadWorkspace, ShowWorkspace, restoreVars

LEMMA OpenKeeps ==
    ASSUME BundleInv, NEW h, Whole(h), OpenReview(h), UNCHANGED <<restoreVars, issued>>
    PROVE  BundleInv'
BY DEF BundleInv, OneText, Whole, OpenReview, NoWorkspace, restoreVars

LEMMA BundleStep == BundleInv /\ [ReviewNext]_<<restoreVars, reviewVars>> => BundleInv'
<1> SUFFICES ASSUME BundleInv, [ReviewNext]_<<restoreVars, reviewVars>> PROVE BundleInv'
  OBVIOUS
<1>0. Whole(handoff) /\ Whole(NoWorkspace)
  BY DEF BundleInv, Whole, NoWorkspace
<1>1. CASE RestoreNext /\ UNCHANGED reviewVars
  <2>1. OneText'
    BY <1>1, RestoreKeepsOneText DEF BundleInv
  <2> QED BY <1>1, <2>1 DEF BundleInv, Whole, reviewVars
<1>2. CASE HandOver
  <2> DEFINE h == [dryRun |-> dryRun, plan |-> importPlan, from |-> "restore handoff",
                   mixed |-> overtaken]
  <2>1. Whole(h)
    BY <1>2 DEF HandOver, HandsOver, Whole, BundleInv, OneText
  <2>2. OpenReview(h) /\ UNCHANGED <<restoreVars, issued>>
    BY <1>2 DEF HandOver
  <2> HIDE DEF h
  <2> QED BY <2>1, <2>2, OpenKeeps
<1>3. CASE Visit
  BY <1>0, <1>3, OpenKeeps DEF Visit
<1>4. CASE ReloadReview
  BY <1>0, <1>4, LoadKeeps DEF ReloadReview
<1>5. CASE UseLiveBackup
  <2>1. UNCHANGED <<restoreVars, issued>> /\ handoff' = NoWorkspace /\ LoadWorkspace(NoWorkspace, TRUE)
    BY <1>5 DEF UseLiveBackup
  <2>2. \E b \in Bundles : answers' = Append(answers, b)
    BY <2>1 DEF LoadWorkspace
  <2> QED BY <1>0, <2>1, LoadKeeps
<1>6. ASSUME NEW i \in DOMAIN answers, LiveArrives(i) PROVE BundleInv'
  BY <1>6 DEF LiveArrives, ShowWorkspace, Live, BundleInv, OneText, Whole, restoreVars
<1>7. ASSUME NEW i \in DOMAIN answers, LiveFails(i) PROVE BundleInv'
  BY <1>7 DEF LiveFails, NoWorkspace, BundleInv, OneText, Whole, restoreVars
<1>8. CASE TypePhrase
  BY <1>8 DEF TypePhrase, BundleInv, OneText, Whole, restoreVars
<1>9. CASE Download
  <2>1. PICK names \in Packets(workspace) :
            issued' = [names |-> names, mixed |-> workspace.mixed]
    BY <1>9 DEF Download
  <2>2. ~workspace.mixed => names \subseteq {workspace.plan}
    BY <2>1 DEF Packets, BundleInv, Whole
  <2>3. ~issued'.mixed => \E b : issued'.names \subseteq {b}
    BY <2>1, <2>2
  <2> QED BY <1>9, <2>3 DEF Download, BundleInv, OneText, Whole, restoreVars
<1>10. CASE Acknowledge
  <2>1. issued' = [names |-> {workspace.dryRun, typed}, mixed |-> workspace.mixed]
        /\ typed = workspace.plan
    BY <1>10 DEF Acknowledge
  <2>2. ~issued'.mixed => issued'.names \subseteq {workspace.plan}
    BY <2>1 DEF BundleInv, Whole
  <2>3. ~issued'.mixed => \E b : issued'.names \subseteq {b}
    BY <2>2
  <2> QED BY <1>10, <2>3 DEF Acknowledge, BundleInv, OneText, Whole, restoreVars
<1>11. CASE BackToUsers
  BY <1>11 DEF BackToUsers, NoWorkspace, NotAsked, BundleInv, OneText, Whole, restoreVars
<1>12. CASE UNCHANGED <<restoreVars, reviewVars>>
  BY <1>12 DEF restoreVars, reviewVars, BundleInv, OneText, Whole
<1> QED BY <1>1, <1>2, <1>3, <1>4, <1>5, <1>6, <1>7, <1>8, <1>9, <1>10, <1>11, <1>12 DEF ReviewNext

LEMMA ReviewMoves == [Next]_vars => [ReviewNext]_<<restoreVars, reviewVars>>
BY DEF Next, vars, OnUsers, OnRequests, OnLists, OnFilters, OnOverview, OnSignIn, OnAccess, OnTyping,
       restorePages, frontendVars

\* Whatever order texts, reports, handovers, live backups, visits and typing come in,
\* the admin hands over, reviews and acknowledges one bundle, and the typed phrase is the
\* one of the bundle on the page, unless a text has overtaken a report.
THEOREM OneBundleIsReviewed == Spec => []OneBundle
<1>1. Init => BundleInv
  BY BundleInvInit DEF Init
<1>2. BundleInv /\ [Next]_vars => BundleInv'
  BY BundleStep, ReviewMoves
<1>3. BundleInv => OneBundle
  <2> SUFFICES ASSUME BundleInv PROVE OneBundle
    OBVIOUS
  <2>1. ASSUME ~issued.mixed PROVE Cardinality(issued.names) <= 1
    <3>1. PICK b : issued.names \subseteq {b}
      BY <2>1 DEF BundleInv
    <3>2. IsFiniteSet({b}) /\ Cardinality({b}) = 1
      BY FS_Singleton
    <3>3. Cardinality(issued.names) <= Cardinality({b})
      BY <3>1, <3>2, FS_Subset
    <3> QED BY <3>2, <3>3
  <2> QED BY <2>1 DEF BundleInv, OneText, HandsOver, OneBundle
<1> QED BY <1>1, <1>2, <1>3, PTL DEF Spec

-----------------------------------------------------------------------------
(* The sign-in of the terminal. *)

Places == TerminalPages \cup {"/", "/login"}
Shown == [at : Places, next : Places, live : BOOLEAN, refused : BOOLEAN, kept : Places]
Form == [screen : Screens, kind : {"right", "wrong", "blank", "sign-out"}, remember : BOOLEAN,
         stage : {"sent", "server", "missing", "invalid", "ok"}, token : Nat]

AccessTypes ==
    /\ token \in Nat /\ secret \in Nat /\ web \in Nat /\ bridge \in Nat /\ lasting \in BOOLEAN
    /\ screens \in [Screens -> Shown] /\ signIns \subseteq Form

\* The form of a sign-in that a page has led to leads back to that page, and what a page
\* shows is where it was led to.
Leads(s) == s.kept \in TerminalPages =>
    /\ s.at = "/login" => s.next = s.kept
    /\ s.at \in TerminalPages => s.at = s.kept

\* A form that is under way is the only one of its window, which still shows it.
FormIsShown(r) == r.kind # "sign-out" => screens[r.screen].at = "/login"
OneForm == \A r, s \in signIns : r.screen = s.screen => r = s

AccessInv ==
    /\ AccessTypes /\ OneForm
    /\ \A t \in Screens : Leads(screens[t])
    /\ \A r \in signIns : FormIsShown(r) /\ (r.stage # "sent" => r.kind # "sign-out")

\* A window shows something else, and its form, if there was one, is over.
LEMMA ShowsKeeps ==
    ASSUME AccessInv, NEW t \in Screens, NEW s \in Shown, Shows(t, s), Leads(s),
           signIns' \subseteq signIns, UNCHANGED <<secret, web, bridge>>,
           token' \in Nat, lasting' \in BOOLEAN,
           \A r \in signIns' : r.screen = t => s.at = screens[t].at
    PROVE  AccessInv'
<1>1. \A u \in Screens : screens'[u] = IF u = t THEN s ELSE screens[u]
  BY DEF Shows, AccessInv, AccessTypes
<1>2. AccessTypes'
  BY DEF Shows, AccessInv, AccessTypes
<1>3. \A u \in Screens : Leads(screens[u])'
  BY <1>1 DEF AccessInv, Leads
<1>4. \A r \in signIns' : FormIsShown(r)' /\ (r.stage # "sent" => r.kind # "sign-out")
  BY <1>1 DEF AccessInv, AccessTypes, Form, FormIsShown
<1>5. OneForm'
  BY DEF AccessInv, OneForm
<1> QED BY <1>2, <1>3, <1>4, <1>5 DEF AccessInv

\* What the middleware or a link shows.
LEMMA OpenLeads == ASSUME NEW p \in TerminalPages \cup {"/", "/login"}
                   PROVE  Open(p) \in Shown /\ Leads(Open(p))
BY DEF Open, Screen, Shown, Places, Leads, TerminalPages

LEMMA AccessInvInit == AccessInit => AccessInv
<1> SUFFICES ASSUME AccessInit PROVE AccessInv
  OBVIOUS
<1>1. Open("/") \in Shown /\ Leads(Open("/"))
  BY OpenLeads
<1>2. screens = [t \in Screens |-> Open("/")] /\ signIns = {}
  BY DEF AccessInit
<1>3. /\ token = 0 /\ lasting = FALSE /\ secret \in 0..1 /\ web = secret /\ bridge = secret
  BY DEF AccessInit
<1>4. token \in Nat /\ secret \in Nat
  BY <1>3
<1>5. web \in Nat /\ bridge \in Nat
  BY <1>3, <1>4
<1>6. lasting \in BOOLEAN
  BY <1>3
<1>7. screens \in [Screens -> Shown] /\ signIns \subseteq Form
  BY <1>1, <1>2
<1> QED BY <1>1, <1>2, <1>4, <1>5, <1>6, <1>7 DEF AccessInv, AccessTypes, OneForm

LEMMA AnswerKeeps == ASSUME AccessInv, NEW r \in signIns, SignInAnswered(r) PROVE AccessInv'
<1> DEFINE t == r.screen
           s == screens[t]
<1>1. /\ t \in Screens /\ s \in Shown /\ Leads(s) /\ token \in Nat /\ r.token \in Nat
      /\ lasting \in BOOLEAN /\ r.remember \in BOOLEAN
      /\ r.kind # "sign-out" => s.at = "/login"
      /\ r.stage # "sent" => r.kind # "sign-out"
  BY DEF AccessInv, AccessTypes, Form, FormIsShown
<1>2. signIns' = signIns \ {r} /\ UNCHANGED <<secret, web, bridge>>
  BY DEF SignInAnswered
<1>3. \A q \in signIns' : q.screen # t
  BY <1>2 DEF AccessInv, OneForm
<1>4. /\ Screen("/login", "/terminal") \in Shown /\ Leads(Screen("/login", "/terminal"))
  BY DEF Screen, Shown, Places, Leads, TerminalPages
<1>5. CASE SignedInTo(r)
  <2> DEFINE n == [Screen(s.next, "/terminal") EXCEPT !.kept = s.kept]
  <2>1. s.at = "/login"
    BY <1>1, <1>5 DEF SignedInTo
  <2>2. n \in Shown /\ n.at = s.next /\ n.kept = s.kept /\ n.next = "/terminal"
    BY <1>1 DEF Screen, Shown, Places, TerminalPages
  <2>3. Leads(n)
    BY <1>1, <2>1, <2>2 DEF Leads, TerminalPages
  <2>4. Shows(t, n) /\ token' \in Nat /\ lasting' \in BOOLEAN
    BY <1>1, <1>5 DEF SignedInTo
  <2> HIDE DEF n, s, t
  <2> QED BY <1>1, <1>2, <1>3, <2>2, <2>3, <2>4, ShowsKeeps
<1>6. CASE AskAgain(r)
  <2>1. PICK n \in {Screen("/login", "/terminal"), s} : Shows(t, n)
    BY <1>6 DEF AskAgain
  <2>2. token' \in Nat /\ lasting' \in BOOLEAN
    BY <1>1, <1>6 DEF AskAgain
  <2> HIDE DEF s, t
  <2> QED BY <1>1, <1>2, <1>3, <1>4, <2>1, <2>2, ShowsKeeps
<1>7. CASE SignedOut(r)
  <2>1. Shows(t, Screen("/login", "/terminal")) /\ token' \in Nat /\ lasting' \in BOOLEAN
    BY <1>1, <1>7 DEF SignedOut
  <2> HIDE DEF s, t
  <2> QED BY <1>1, <1>2, <1>3, <1>4, <2>1, ShowsKeeps
<1> QED BY <1>5, <1>6, <1>7 DEF SignInAnswered

LEMMA AccessStep == AccessInv /\ [AccessNext]_accessVars => AccessInv'
<1> SUFFICES ASSUME AccessInv, [AccessNext]_accessVars PROVE AccessInv'
  OBVIOUS
<1>0. AccessTypes
  BY DEF AccessInv
<1>1. ASSUME NEW t \in Screens, NEW p \in TerminalPages \cup {"/", "/login"}, GoTo(t, p)
      PROVE  AccessInv'
  <2>1. Shows(t, Open(p)) /\ ~Awaits(t) /\ UNCHANGED <<token, lasting, secret, web, bridge, signIns>>
    BY <1>1 DEF GoTo, Step
  <2> QED BY <1>0, <2>1, OpenLeads, ShowsKeeps DEF Awaits, AccessTypes
<1>2. ASSUME NEW t \in Screens, NEW kind \in {"right", "wrong", "blank", "sign-out"},
             NEW remember \in BOOLEAN, SendForm(t, kind, remember)
      PROVE  AccessInv'
  <2> DEFINE f == [screen |-> t, kind |-> kind, remember |-> remember, stage |-> "sent", token |-> 0]
  <2>1. /\ signIns' = signIns \cup {f} /\ ~Awaits(t)
        /\ kind = "sign-out" \/ screens[t].at = "/login"
        /\ UNCHANGED <<token, lasting, secret, web, bridge, screens>>
    BY <1>2 DEF SendForm, Step
  <2>2. f \in Form /\ f.screen = t /\ f.stage = "sent" /\ f.kind = kind
    BY DEF Form
  <2> HIDE DEF f
  <2> QED BY <2>1, <2>2 DEF AccessInv, AccessTypes, OneForm, FormIsShown, Leads, Awaits
<1>3. CASE RestartBrowser
  <2>1. /\ token' \in Nat /\ signIns' = {} /\ UNCHANGED <<lasting, secret, web, bridge>>
    BY <1>0, <1>3 DEF RestartBrowser, AccessTypes
  <2>2. ASSUME NEW t \in Screens PROVE screens'[t] \in Shown /\ Leads(screens'[t])
    <3>1. screens[t] \in Shown /\ Leads(screens[t])
      BY <1>0 DEF AccessInv, AccessTypes
    <3>2. screens'[t] = IF screens[t].at \in TerminalPages /\ token' = 0
              THEN [Screen("/login", screens[t].at) EXCEPT !.kept = screens[t].at]
              ELSE [screens[t] EXCEPT !.live = FALSE, !.refused = FALSE]
      BY <1>3 DEF RestartBrowser
    <3>3. CASE screens[t].at \in TerminalPages /\ token' = 0
      BY <3>1, <3>2, <3>3 DEF Screen, Shown, Places, Leads, TerminalPages
    <3>4. CASE ~(screens[t].at \in TerminalPages /\ token' = 0)
      <4>1. screens'[t] = [screens[t] EXCEPT !.live = FALSE, !.refused = FALSE]
        BY ONLY <3>2, <3>4
      <4> QED BY <3>1, <4>1 DEF Shown, Leads
    <3> QED BY <3>3, <3>4
  <2>3. screens' \in [Screens -> Shown]
    BY <1>3, <2>2 DEF RestartBrowser
  <2> QED BY <1>0, <2>1, <2>2, <2>3 DEF AccessInv, AccessTypes, OneForm
<1>4. ASSUME NEW r \in signIns, SubmitSignIn(r) PROVE AccessInv'
  <2>1. PICK stage \in {"server", "missing", "invalid", "ok"} :
            signIns' = (signIns \ {r}) \cup {[r EXCEPT !.stage = stage, !.token = createSessionToken]}
    BY <1>4 DEF SubmitSignIn
  <2> DEFINE f == [r EXCEPT !.stage = stage, !.token = createSessionToken]
  <2>2. /\ f \in Form /\ f.screen = r.screen /\ f.kind = r.kind
        /\ r.kind # "sign-out" /\ r \in Form
    BY <1>0, <1>4 DEF SubmitSignIn, AccessTypes, Form, createSessionToken
  <2>3. signIns' = (signIns \ {r}) \cup {f}
    BY <2>1
  <2>4. UNCHANGED <<token, lasting, secret, web, bridge, screens>>
    BY <1>4 DEF SubmitSignIn
  <2> HIDE DEF f
  <2>5. OneForm'
    BY <2>2, <2>3 DEF AccessInv, OneForm
  <2> QED BY <2>2, <2>3, <2>4, <2>5 DEF AccessInv, AccessTypes, FormIsShown, Leads
<1>5. ASSUME NEW r \in signIns, SignInAnswered(r) PROVE AccessInv'
  BY <1>5, AnswerKeeps
\* Requests and websockets leave a window where it is.
<1>6. ASSUME NEW t \in Screens, NEW s \in {[screens[t] EXCEPT !.refused = ~isAuthenticatedRequest],
                                           [screens[t] EXCEPT !.live = TRUE]},
             Shows(t, s), UNCHANGED <<token, lasting, secret, web, bridge, signIns, steps>>
      PROVE  AccessInv'
  <2>1. screens[t] \in Shown /\ Leads(screens[t])
    BY <1>0 DEF AccessInv, AccessTypes
  <2>2. s \in Shown /\ s.at = screens[t].at /\ s.next = screens[t].next /\ s.kept = screens[t].kept
    BY <2>1, <1>6 DEF Shown, isAuthenticatedRequest
  <2>3. Leads(s)
    BY <2>1, <2>2 DEF Leads
  <2> QED BY <1>0, <1>6, <2>2, <2>3, ShowsKeeps DEF AccessTypes
<1>7. ASSUME NEW t \in Screens, \/ GetConsole(t) \/ ConsoleSend(t) \/ TerminalKeys(t)
                                \/ ChatGptLogin(t) \/ SessionReset(t) \/ Upgrade(t)
      PROVE  AccessInv'
  BY <1>6, <1>7 DEF GetConsole, ConsoleSend, TerminalKeys, ChatGptLogin, SessionReset, Forward, Upgrade
<1>8. CASE NewSecret
  BY <1>8 DEF NewSecret, AccessInv, AccessTypes, OneForm, FormIsShown, Leads
<1>9. CASE RestartWeb
  BY <1>9 DEF RestartWeb, AccessInv, AccessTypes, OneForm, FormIsShown, Leads
<1>10. CASE RestartBridge
  <2>1. /\ bridge' = secret /\ UNCHANGED <<token, lasting, secret, web, signIns>>
        /\ screens' = [t \in Screens |-> [screens[t] EXCEPT !.live = FALSE]]
    BY <1>10 DEF RestartBridge
  <2>2. ASSUME NEW t \in Screens PROVE
            /\ screens'[t] \in Shown /\ screens'[t].at = screens[t].at
            /\ screens'[t].next = screens[t].next /\ screens'[t].kept = screens[t].kept
    <3>1. screens[t] \in Shown /\ screens'[t] = [screens[t] EXCEPT !.live = FALSE]
      BY <1>0, <2>1 DEF AccessTypes
    <3> QED BY <3>1 DEF Shown
  <2>3. screens' \in [Screens -> Shown]
    BY <2>1, <2>2
  <2>4. AccessTypes'
    BY <1>0, <2>1, <2>3 DEF AccessTypes
  <2>5. \A t \in Screens : Leads(screens[t])'
    BY <2>2 DEF AccessInv, Leads
  <2>6. \A r \in signIns : r.screen \in Screens
    BY <1>0 DEF AccessTypes, Form
  <2> QED BY <2>1, <2>2, <2>4, <2>5, <2>6 DEF AccessInv, OneForm, FormIsShown
<1>11. CASE UNCHANGED accessVars
  BY <1>11 DEF accessVars, AccessInv, AccessTypes, OneForm, FormIsShown, Leads
<1> QED BY <1>1, <1>2, <1>3, <1>4, <1>5, <1>7, <1>8, <1>9, <1>10, <1>11 DEF AccessNext

LEMMA AccessMoves == [Next]_vars => [AccessNext]_accessVars
BY DEF Next, vars, OnUsers, OnRequests, OnLists, OnFilters, OnOverview, OnSignIn, OnAccess, OnTyping,
       terminalVars

\* Whatever sign-ins, errors, sign-outs, new secrets and restarts of browser, web app
\* and bridge come between, a window that was sent to the sign-in of the terminal comes
\* back to its page.
THEOREM SignInLeadsBack == Spec => []LeadsBack
<1>1. Init => AccessInv
  BY AccessInvInit DEF Init
<1>2. AccessInv /\ [Next]_vars => AccessInv'
  BY AccessStep, AccessMoves
<1>3. AccessInv => LeadsBack
  BY DEF AccessInv, Leads, LeadsBack
<1> QED BY <1>1, <1>2, <1>3, PTL DEF Spec

-----------------------------------------------------------------------------
(* What is typed on the pages of the terminal. *)

USE TypingAssumption

Keystroke == [nr : Nat, ctrl : BOOLEAN]
Posted == [nr : Nat, keys : Seq(Keystroke), stage : {"sent", "late", "ok", "refused"}]

\* The bridge may still write what the POST brings.
Unanswered == {"sent", "late"}

\* Where a sequence of keys holds those that Ctrl was for.
Controls(s) == {i \in DOMAIN s : s[i].ctrl}

\* The numbers of one sequence are below those of another, or of what follows.
Below(s, t) == \A i \in DOMAIN s, j \in DOMAIN t : s[i].nr < t[j].nr
UpTo(s, n) == \A i \in DOMAIN s : s[i].nr <= n

\* POSTs are numbered; and a key for Ctrl is sent alone.
Numbered(P, n) ==
    /\ IsFiniteSet(P) /\ P \subseteq Posted
    /\ \A p \in P : p.nr <= n /\ (Controls(p.keys) # {} => Len(p.keys) = 1)
    /\ \A p, q \in P : p.nr = q.nr => p = q
ControlPosts(P) == {p \in P : p.stage \in Unanswered /\ Controls(p.keys) # {}}

One(b) == IF b THEN 1 ELSE 0

TypingTypes ==
    /\ device \in {"phone", "console", "desktop"} /\ struck \in Nat /\ posted \in Nat
    /\ armings \in Nat /\ armed \in BOOLEAN /\ sending \in BOOLEAN /\ online \in BOOLEAN
    /\ draft \in Seq(Keystroke) /\ arrived \in Seq(Keystroke) /\ waiting \in Seq(Keystroke)
    /\ pasting \subseteq Nat

\* Every key for Ctrl, on its way or there, was armed for; and so is the next.
ControlsInv ==
    /\ TypingTypes /\ Numbered(posts, posted)
    /\ Controls(draft) = {} /\ Controls(waiting) = {}
    /\ Cardinality(Controls(arrived)) + Cardinality(ControlPosts(posts)) + One(armed) <= armings

\* One text after the other.
LEMMA Joined ==
    ASSUME NEW s \in Seq(Keystroke), NEW t \in Seq(Keystroke)
    PROVE  /\ s \o t \in Seq(Keystroke) /\ Len(s \o t) = Len(s) + Len(t)
           /\ \A i \in DOMAIN (s \o t) :
                \/ i \in DOMAIN s /\ (s \o t)[i] = s[i]
                \/ i - Len(s) \in DOMAIN t /\ i > Len(s) /\ (s \o t)[i] = t[i - Len(s)]
           /\ \A i \in DOMAIN s : i \in DOMAIN (s \o t) /\ (s \o t)[i] = s[i]
           /\ \A i \in DOMAIN t :
                i + Len(s) \in DOMAIN (s \o t) /\ (s \o t)[i + Len(s)] = t[i]
OBVIOUS

LEMMA Keys ==
    ASSUME NEW n \in Nat, NEW b \in BOOLEAN
    PROVE  /\ Key(n, b) \in Keystroke /\ Key(n, b).nr = n /\ Key(n, b).ctrl = b
           /\ <<Key(n, b)>> \in Seq(Keystroke) /\ Len(<<Key(n, b)>>) = 1
           /\ b = FALSE => Controls(<<Key(n, b)>>) = {}
           /\ b = TRUE => Controls(<<Key(n, b)>>) = {1}
<1> DEFINE k == Key(n, b)
<1>1. k \in Keystroke /\ k.nr = n /\ k.ctrl = b
  BY DEF Key, Keystroke
<1> HIDE DEF k
<1>2. <<k>> \in Seq(Keystroke) /\ Len(<<k>>) = 1 /\ DOMAIN <<k>> = {1} /\ <<k>>[1] = k
  BY <1>1
<1>3. (b = FALSE => Controls(<<k>>) = {}) /\ (b = TRUE => Controls(<<k>>) = {1})
  BY <1>1, <1>2 DEF Controls
<1> QED BY <1>1, <1>2, <1>3 DEF k

LEMMA JoinedControls ==
    ASSUME NEW s \in Seq(Keystroke), NEW t \in Seq(Keystroke)
    PROVE  /\ IsFiniteSet(Controls(s)) /\ Cardinality(Controls(s)) \in Nat
           /\ Controls(t) = {} => Controls(s \o t) = Controls(s)
           /\ Len(t) = 1 /\ Controls(t) # {} =>
                Cardinality(Controls(s \o t)) = Cardinality(Controls(s)) + 1
<1>1. IsFiniteSet(Controls(s)) /\ Cardinality(Controls(s)) \in Nat
  <2>1. Controls(s) \subseteq 1..Len(s) /\ Len(s) \in Nat
    BY DEF Controls
  <2>2. IsFiniteSet(1..Len(s))
    BY <2>1, FS_Interval
  <2>3. IsFiniteSet(Controls(s))
    BY <2>1, <2>2, FS_Subset
  <2> QED BY <2>3, FS_CardinalityType
<1>2. Controls(t) = {} => Controls(s \o t) = Controls(s)
  BY Joined DEF Controls
<1>3. ASSUME Len(t) = 1, Controls(t) # {}
      PROVE  Cardinality(Controls(s \o t)) = Cardinality(Controls(s)) + 1
  <2>1. t[1].ctrl /\ DOMAIN t = {1}
    BY <1>3 DEF Controls
  <2>2. Controls(s \o t) = Controls(s) \cup {Len(s) + 1}
    <3>1. Len(s) + 1 \in DOMAIN (s \o t) /\ (s \o t)[Len(s) + 1] = t[1] /\ Len(s) \in Nat
      BY <2>1, Joined
    <3>2. ASSUME NEW i \in DOMAIN (s \o t), i \notin DOMAIN s PROVE i = Len(s) + 1
      <4>1. i - Len(s) \in DOMAIN t /\ i \in Nat
        BY <3>2, Joined
      <4> QED BY <2>1, <3>1, <4>1
    <3>3. \A i \in DOMAIN s : i \in DOMAIN (s \o t) /\ (s \o t)[i] = s[i]
      BY Joined
    <3> QED BY <2>1, <3>1, <3>2, <3>3 DEF Controls
  <2>3. Len(s) + 1 \notin Controls(s)
    BY DEF Controls
  <2> QED BY <1>1, <2>2, <2>3, FS_AddElement
<1> QED BY <1>1, <1>2, <1>3

\* One more POST.
LEMMA OnePost ==
    ASSUME NEW P, NEW n \in Nat, Numbered(P, n), NEW s \in Seq(Keystroke),
           Controls(s) # {} => Len(s) = 1
    PROVE  /\ Numbered(P \cup {Post(n + 1, s)}, n + 1) /\ Cardinality(ControlPosts(P)) \in Nat
           /\ Cardinality(ControlPosts(P \cup {Post(n + 1, s)}))
                = Cardinality(ControlPosts(P)) + One(Controls(s) # {})
<1> DEFINE p == Post(n + 1, s)
<1>1. p \in Posted /\ p.nr = n + 1 /\ p.keys = s /\ p.stage = "sent"
  BY DEF Post, Posted
<1> HIDE DEF p
<1>2. \A q \in P : q.nr \in Nat /\ q.nr <= n
  BY DEF Numbered, Posted
<1>3. p \notin P
  BY <1>1, <1>2
<1>4. Numbered(P \cup {p}, n + 1)
  <2>1. IsFiniteSet(P \cup {p})
    BY FS_AddElement DEF Numbered
  <2>2. \A q \in P : q.nr # p.nr /\ q.nr <= n + 1
    BY <1>1, <1>2
  <2>3. \A q \in P \cup {p} : q.nr <= n + 1 /\ (Controls(q.keys) # {} => Len(q.keys) = 1)
    <3>1. \A q \in P : Controls(q.keys) # {} => Len(q.keys) = 1
      BY DEF Numbered
    <3>2. p.nr <= n + 1 /\ (Controls(p.keys) # {} => Len(p.keys) = 1)
      BY <1>1
    <3> QED BY ONLY <2>2, <3>1, <3>2
  <2>4. \A q, r \in P \cup {p} : q.nr = r.nr => q = r
    BY <2>2 DEF Numbered
  <2>5. P \cup {p} \subseteq Posted
    BY <1>1 DEF Numbered
  <2> QED BY ONLY <2>1, <2>3, <2>4, <2>5 DEF Numbered
<1>5. IsFiniteSet(ControlPosts(P)) /\ Cardinality(ControlPosts(P)) \in Nat
  BY FS_Subset, FS_CardinalityType DEF ControlPosts, Numbered
<1>6. CASE Controls(s) = {}
  <2>1. ControlPosts(P \cup {p}) = ControlPosts(P)
    BY <1>1, <1>6 DEF ControlPosts, Unanswered
  <2> QED BY <1>4, <1>5, <1>6, <2>1 DEF One, p
<1>7. CASE Controls(s) # {}
  <2>1. ControlPosts(P \cup {p}) = ControlPosts(P) \cup {p} /\ p \notin ControlPosts(P)
    BY <1>1, <1>3, <1>7 DEF ControlPosts, Unanswered
  <2>2. Cardinality(ControlPosts(P) \cup {p}) = Cardinality(ControlPosts(P)) + 1
    BY <1>5, <2>1, FS_AddElement
  <2> QED BY <1>4, <1>5, <1>7, <2>1, <2>2 DEF One, p
<1> QED BY <1>6, <1>7

\* A POST is forgotten.
LEMMA DroppedPost ==
    ASSUME NEW P, NEW n \in Nat, Numbered(P, n), NEW p \in P
    PROVE  /\ Numbered(P \ {p}, n) /\ ControlPosts(P \ {p}) = ControlPosts(P) \ {p}
           /\ IsFiniteSet(ControlPosts(P \ {p}))
           /\ Cardinality(ControlPosts(P)) \in Nat /\ Cardinality(ControlPosts(P \ {p})) \in Nat
           /\ Cardinality(ControlPosts(P \ {p}))
                = Cardinality(ControlPosts(P)) - One(p \in ControlPosts(P))
<1>1. IsFiniteSet(P \ {p})
  BY FS_RemoveElement DEF Numbered
<1>2. Numbered(P \ {p}, n) /\ ControlPosts(P \ {p}) = ControlPosts(P) \ {p}
  BY <1>1 DEF Numbered, ControlPosts
<1>3. /\ IsFiniteSet(ControlPosts(P)) /\ Cardinality(ControlPosts(P)) \in Nat
      /\ IsFiniteSet(ControlPosts(P \ {p})) /\ Cardinality(ControlPosts(P \ {p})) \in Nat
  BY <1>1, FS_Subset, FS_CardinalityType DEF ControlPosts, Numbered
<1>4. CASE p \in ControlPosts(P)
  BY <1>2, <1>3, <1>4, FS_RemoveElement DEF One
<1>5. CASE p \notin ControlPosts(P)
  <2>1. ControlPosts(P) \ {p} = ControlPosts(P)
    BY <1>5
  <2> QED BY <1>2, <1>3, <1>5, <2>1 DEF One
<1> QED BY <1>4, <1>5

\* It is answered.
LEMMA AnsweredPost ==
    ASSUME NEW P, NEW n \in Nat, Numbered(P, n), NEW p \in P, p.stage = "sent",
           NEW stage \in {"ok", "refused"},
           NEW Q, Q = (P \ {p}) \cup {[p EXCEPT !.stage = stage]}
    PROVE  /\ Numbered(Q, n) /\ Cardinality(ControlPosts(Q)) \in Nat
           /\ Cardinality(ControlPosts(P)) \in Nat
           /\ Cardinality(ControlPosts(Q))
                = Cardinality(ControlPosts(P)) - One(Controls(p.keys) # {})
<1> DEFINE q == [p EXCEPT !.stage = stage]
           R == P \ {p}
<1>1. p \in Posted /\ p.nr <= n /\ (Controls(p.keys) # {} => Len(p.keys) = 1)
  BY DEF Numbered
<1>2. q \in Posted /\ q.nr = p.nr /\ q.keys = p.keys /\ q.stage = stage
  BY <1>1 DEF Posted
<1>3. Q = R \cup {q}
  OBVIOUS
<1>4. /\ Numbered(R, n) /\ Cardinality(ControlPosts(R)) \in Nat /\ IsFiniteSet(ControlPosts(R))
      /\ Cardinality(ControlPosts(P)) \in Nat
      /\ Cardinality(ControlPosts(R)) = Cardinality(ControlPosts(P)) - One(p \in ControlPosts(P))
  BY DroppedPost
<1>5. \A r \in R : r.nr # q.nr
  BY <1>2 DEF Numbered
<1>6. p \in ControlPosts(P) <=> Controls(p.keys) # {}
  BY DEF ControlPosts, Unanswered
<1> HIDE DEF q, R
<1>7. Numbered(Q, n)
  <2>1. IsFiniteSet(R)
    BY <1>4 DEF Numbered
  <2>2. IsFiniteSet(R \cup {q})
    BY ONLY <2>1, FS_AddElement
  <2>3. IsFiniteSet(Q)
    BY <1>3, <2>2
  <2> QED BY <1>1, <1>2, <1>3, <1>4, <1>5, <2>3 DEF Numbered
<1>8. ControlPosts(Q) = ControlPosts(R)
  BY <1>2, <1>3 DEF ControlPosts, Unanswered
<1>9. One(p \in ControlPosts(P)) = One(Controls(p.keys) # {})
  BY <1>6 DEF One
<1> QED BY <1>4, <1>7, <1>8, <1>9

\* The browser gives it up.
LEMMA GivenUpPost ==
    ASSUME NEW P, NEW n \in Nat, Numbered(P, n), NEW p \in P, p.stage = "sent",
           NEW Q, Q = (P \ {p}) \cup {[p EXCEPT !.stage = "late"]}
    PROVE  Numbered(Q, n) /\ Cardinality(ControlPosts(Q)) = Cardinality(ControlPosts(P))
<1> DEFINE q == [p EXCEPT !.stage = "late"]
           R == P \ {p}
<1>1. p \in Posted /\ p.nr <= n /\ (Controls(p.keys) # {} => Len(p.keys) = 1)
  BY DEF Numbered
<1>2. q \in Posted /\ q.nr = p.nr /\ q.keys = p.keys /\ q.stage = "late"
  BY <1>1 DEF Posted
<1>3. Q = R \cup {q}
  OBVIOUS
<1>4. /\ Numbered(R, n) /\ Cardinality(ControlPosts(R)) \in Nat /\ IsFiniteSet(ControlPosts(R))
      /\ Cardinality(ControlPosts(P)) \in Nat
      /\ Cardinality(ControlPosts(R)) = Cardinality(ControlPosts(P)) - One(p \in ControlPosts(P))
  BY DroppedPost
<1>5. \A r \in R : r.nr # q.nr
  BY <1>2 DEF Numbered
<1>6. p \in ControlPosts(P) <=> Controls(p.keys) # {}
  BY DEF ControlPosts, Unanswered
<1> HIDE DEF q, R
<1>7. Numbered(Q, n)
  <2>1. IsFiniteSet(R)
    BY <1>4 DEF Numbered
  <2>2. IsFiniteSet(R \cup {q})
    BY ONLY <2>1, FS_AddElement
  <2>3. IsFiniteSet(Q)
    BY <1>3, <2>2
  <2> QED BY <1>1, <1>2, <1>3, <1>4, <1>5, <2>3 DEF Numbered
<1>8. CASE Controls(p.keys) = {}
  <2>1. ControlPosts(Q) = ControlPosts(R)
    BY <1>2, <1>3, <1>8 DEF ControlPosts
  <2>2. One(p \in ControlPosts(P)) = 0
    BY <1>6, <1>8 DEF One
  <2> QED BY <1>4, <1>7, <2>1, <2>2
<1>9. CASE Controls(p.keys) # {}
  <2>1. ControlPosts(Q) = ControlPosts(R) \cup {q} /\ q \notin ControlPosts(R)
    BY <1>2, <1>3, <1>5, <1>9 DEF ControlPosts, Unanswered
  <2>2. Cardinality(ControlPosts(Q)) = Cardinality(ControlPosts(R)) + 1
    BY <1>4, <2>1, FS_AddElement
  <2>3. One(p \in ControlPosts(P)) = 1
    BY <1>6, <1>9 DEF One
  <2> QED BY <1>4, <1>7, <2>2, <2>3
<1> QED BY <1>8, <1>9

\* What SendPieces does, for the pieces there are.
LEMMA Pieces ==
    ASSUME NEW a, NEW b, NEW laps
    PROVE  /\ SendPieces(<<>>, laps) => UNCHANGED posts /\ posted' = posted + 0 /\ sending' = (sending \/ FALSE)
           /\ SendPieces(<<a>>, laps) => /\ posts' = posts \cup {Post(posted + 1, a)} /\ posted' = posted + 1
                                         /\ sending' = (sending \/ TRUE)
           /\ SendPieces(<<a, b>>, laps) =>
                /\ posts' = posts \cup {Post(posted + 1, a)} \cup {Post(posted + 2, b)}
                /\ posted' = posted + 2 /\ sending' = (sending \/ TRUE)
<1>1. DOMAIN <<>> = {} /\ Len(<<>>) = 0
  OBVIOUS
<1>2. DOMAIN <<a>> = {1} /\ Len(<<a>>) = 1 /\ <<a>>[1] = a /\ <<a>> # <<>>
  OBVIOUS
<1>3. DOMAIN <<a, b>> = {1, 2} /\ Len(<<a, b>>) = 2 /\ <<a, b>>[1] = a /\ <<a, b>>[2] = b
      /\ <<a, b>> # <<>>
  OBVIOUS
<1>4. SendPieces(<<>>, laps) => UNCHANGED posts /\ posted' = posted + 0 /\ sending' = (sending \/ FALSE)
  BY <1>1 DEF SendPieces
<1>5. SendPieces(<<a>>, laps) => /\ posts' = posts \cup {Post(posted + 1, a)} /\ posted' = posted + 1
                                /\ sending' = (sending \/ TRUE)
  BY <1>2 DEF SendPieces
<1>6. SendPieces(<<a, b>>, laps) =>
        /\ posts' = posts \cup {Post(posted + 1, a)} \cup {Post(posted + 2, b)}
        /\ posted' = posted + 2 /\ sending' = (sending \/ TRUE)
  BY <1>3 DEF SendPieces
<1> QED BY <1>4, <1>5, <1>6

\* And what they lap.
LEMMA PiecesLap ==
    ASSUME NEW pieces, NEW laps, SendPieces(pieces, laps)
    PROVE  /\ lapped => lapped'
           /\ laps => lapped'
           /\ ~lapped' /\ pieces # <<>> => \A p \in posts : p.stage # "late"
<1>1. lapped' = (lapped \/ laps \/ (pieces # <<>> /\ \E p \in posts : p.stage = "late"))
  BY DEF SendPieces
<1> QED BY ONLY <1>1, Zenon

LEMMA Concats ==
    ASSUME NEW a, NEW b
    PROVE  /\ <<>> \o <<>> = <<>> /\ <<a>> \o <<>> = <<a>>
           /\ <<>> \o <<b>> = <<b>> /\ <<a>> \o <<b>> = <<a, b>>
<1> DEFINE S == {a, b}
<1>1. <<>> \in Seq(S) /\ <<a>> \in Seq(S) /\ <<b>> \in Seq(S) /\ <<a, b>> \in Seq(S)
  OBVIOUS
<1>2. Len(<<a>>) = 1 /\ <<a>>[1] = a /\ Len(<<b>>) = 1 /\ <<b>>[1] = b
  OBVIOUS
<1>3. Len(<<a, b>>) = 2 /\ <<a, b>>[1] = a /\ <<a, b>>[2] = b
  OBVIOUS
<1>4. ASSUME NEW s \in Seq(S), NEW t \in Seq(S), NEW u \in Seq(S), Len(s) = 1, Len(t) = 1,
             Len(u) = 2, u[1] = s[1], u[2] = t[1]
      PROVE  s \o t = u
  <2>1. s \o t \in Seq(S) /\ Len(s \o t) = 2
    BY ONLY <1>4, ConcatProperties
  <2>2. (s \o t)[1] = s[1] /\ (s \o t)[2] = t[1]
    <3>1. \A i \in 1..2 : (s \o t)[i] = IF i <= 1 THEN s[i] ELSE t[i - 1]
      BY ONLY <1>4, ConcatProperties
    <3>2. 1 \in 1..2 /\ 2 \in 1..2 /\ 2 - 1 = 1 /\ 1 <= 1 /\ ~(2 <= 1)
      OBVIOUS
    <3>3. (s \o t)[1] = s[1]
      BY ONLY <3>1, <3>2
    <3>4. (s \o t)[2] = t[2 - 1]
      BY ONLY <3>1, <3>2
    <3> QED BY ONLY <3>2, <3>3, <3>4
  <2>3. \A i \in 1..2 : i = 1 \/ i = 2
    OBVIOUS
  <2>4. \A i \in 1..Len(u) : (s \o t)[i] = u[i]
    BY <1>4, <2>2, <2>3
  <2> QED BY <1>4, <2>1, <2>4, SeqEqual
<1>5. <<a>> \o <<b>> = <<a, b>>
  BY <1>1, <1>2, <1>3, <1>4
<1>6. <<>> \o <<>> = <<>> /\ <<a>> \o <<>> = <<a>> /\ <<>> \o <<b>> = <<b>>
  BY <1>1, ConcatEmptySeq
<1> QED BY <1>5, <1>6

\* What HandlePrintable sends: nothing, the keys, the first of them with Ctrl, what
\* follows it, or both.
LEMMA Printed ==
    ASSUME NEW keys \in Seq(Keystroke), NEW plain, HandlePrintable(keys, plain)
    PROVE  LET c == <<Key(keys[1].nr, TRUE)>>
           IN  /\ armed' = FALSE
               /\ \E laps \in BOOLEAN :
                    \/ SendPieces(<<>>, laps)
                    \/ ~armed /\ ~sending /\ SendPieces(<<keys>>, laps)
                    \/ armed /\ ~sending /\ SendPieces(<<c>>, laps)
                    \/ /\ armed /\ Len(keys) > 1 /\ laps
                       /\ SendPieces(<<Tail(keys)>>, laps) \/ SendPieces(<<c, Tail(keys)>>, laps)
<1> DEFINE c == <<Key(keys[1].nr, TRUE)>>
           first == IF plain THEN <<>> ELSE <<c>>
           rest == IF Len(keys) > 1 THEN <<Tail(keys)>> ELSE <<>>
           more == Len(keys) > 1
<1>1. armed' = FALSE /\ more \in BOOLEAN
  BY DEF HandlePrintable
<1>2. CASE ~armed
  BY <1>1, <1>2 DEF HandlePrintable, Emit
<1>3. CASE armed
  <2>1. Emit(first \o rest, more)
    BY <1>3 DEF HandlePrintable
  <2>2. \/ first \o rest = <<>>
        \/ first \o rest = <<c>>
        \/ more /\ (first \o rest = <<Tail(keys)>> \/ first \o rest = <<c, Tail(keys)>>)
    <3> HIDE DEF c
    <3> QED BY Concats
  <2> HIDE DEF first, rest
  <2>3. CASE sending
    BY <1>1, <2>1, <2>3 DEF Emit
  <2>4. CASE ~sending
    BY <1>1, <1>3, <2>1, <2>2, <2>4 DEF Emit
  <2> QED BY <2>3, <2>4
<1> QED BY <1>2, <1>3

\* The count, when pieces are sent.
LEMMA SentCounts ==
    ASSUME ControlsInv, NEW a \in Seq(Keystroke), NEW b \in Seq(Keystroke), NEW laps,
           Controls(a) # {} => Len(a) = 1, Controls(b) = {},
           SendPieces(<<>>, laps) \/ SendPieces(<<a>>, laps) \/ SendPieces(<<a, b>>, laps)
    PROVE  /\ posted' \in Nat /\ Numbered(posts', posted') /\ sending' \in BOOLEAN
           /\ Cardinality(ControlPosts(posts')) \in Nat
           /\ Cardinality(ControlPosts(posts'))
                <= Cardinality(ControlPosts(posts)) + One(Controls(a) # {})
<1>1. posted \in Nat /\ Numbered(posts, posted) /\ sending \in BOOLEAN
  BY DEF ControlsInv, TypingTypes
<1>2. IsFiniteSet(ControlPosts(posts)) /\ Cardinality(ControlPosts(posts)) \in Nat
  BY <1>1, FS_Subset, FS_CardinalityType DEF ControlPosts, Numbered
<1> DEFINE P == posts \cup {Post(posted + 1, a)}
<1>3. /\ Numbered(P, posted + 1) /\ Cardinality(ControlPosts(P)) \in Nat
      /\ Cardinality(ControlPosts(P)) = Cardinality(ControlPosts(posts)) + One(Controls(a) # {})
  <2>1. /\ Numbered(P, posted + 1)
        /\ Cardinality(ControlPosts(P)) = Cardinality(ControlPosts(posts)) + One(Controls(a) # {})
    BY <1>1, OnePost
  <2> HIDE DEF P
  <2> QED BY <1>2, <2>1 DEF One
<1>4. CASE SendPieces(<<>>, laps)
  <2>1. posts' = posts /\ posted' = posted /\ sending' = sending
    BY <1>1, <1>4, Pieces
  <2> QED BY <1>1, <1>2, <2>1 DEF One
<1>5. CASE SendPieces(<<a>>, laps)
  <2>1. posts' = P /\ posted' = posted + 1 /\ sending' \in BOOLEAN
    BY <1>1, <1>5, Pieces
  <2> HIDE DEF P
  <2> QED BY <1>1, <1>2, <1>3, <2>1 DEF One
<1>6. CASE SendPieces(<<a, b>>, laps)
  <2>1. posts' = P \cup {Post(posted + 2, b)} /\ posted' = posted + 2 /\ sending' \in BOOLEAN
    BY <1>1, <1>6, Pieces
  <2> HIDE DEF P
  <2>2. posted + 1 \in Nat /\ (posted + 1) + 1 = posted + 2
    BY <1>1
  <2>3. /\ Numbered(P \cup {Post(posted + 2, b)}, posted + 2)
        /\ Cardinality(ControlPosts(P \cup {Post(posted + 2, b)})) = Cardinality(ControlPosts(P)) + 0
    <3>1. /\ Numbered(P \cup {Post((posted + 1) + 1, b)}, (posted + 1) + 1)
          /\ Cardinality(ControlPosts(P \cup {Post((posted + 1) + 1, b)}))
               = Cardinality(ControlPosts(P)) + One(Controls(b) # {})
      BY <1>3, <2>2, OnePost
    <3> QED BY <2>2, <3>1 DEF One
  <2> QED BY <1>1, <1>2, <1>3, <2>1, <2>3 DEF One
<1> QED BY <1>4, <1>5, <1>6

\* A key or a text that is not for Ctrl, as HandlePrintable sends it.
LEMMA FirstAndRest ==
    ASSUME NEW s \in Seq(Keystroke), s # <<>>, Controls(s) = {}
    PROVE  /\ Tail(s) \in Seq(Keystroke) /\ Controls(Tail(s)) = {} /\ Len(Tail(s)) = Len(s) - 1
           /\ \A i \in DOMAIN Tail(s) : i + 1 \in DOMAIN s /\ Tail(s)[i] = s[i + 1]
           /\ 1 \in DOMAIN s /\ s[1] \in Keystroke /\ s[1].nr \in Nat
<1>1. Len(s) \in Nat \ {0} /\ DOMAIN s = 1..Len(s)
  OBVIOUS
<1>2. 1 \in DOMAIN s /\ s[1] \in Keystroke /\ s[1].nr \in Nat
  <2>1. 1 \in DOMAIN s /\ s[1] \in Keystroke
    BY <1>1
  <2>2. \A k \in Keystroke : k.nr \in Nat
    BY DEF Keystroke
  <2> QED BY <2>1, <2>2
<1>3. Tail(s) \in Seq(Keystroke) /\ Len(Tail(s)) = Len(s) - 1
  BY <1>1
<1>4. ASSUME NEW i \in DOMAIN Tail(s) PROVE i + 1 \in DOMAIN s /\ Tail(s)[i] = s[i + 1]
  BY <1>1, <1>3
<1>5. Controls(Tail(s)) = {}
  BY <1>4 DEF Controls
<1> QED BY <1>2, <1>3, <1>4, <1>5

\* The sum of what is there, on its way and armed.
LEMMA ArmedSum ==
    ASSUME NEW there \in Nat, NEW way \in Nat, NEW then \in Nat, NEW more \in Nat,
           NEW ready \in Nat, NEW stays \in Nat, NEW old \in Nat, NEW new \in Nat,
           then <= way + more, there + way + ready <= old, more + stays + old <= new + ready
    PROVE  there + then + stays <= new
OBVIOUS

\* Posts that are sent for what was armed.
LEMMA SendingKeepsControls ==
    ASSUME ControlsInv, NEW a \in Seq(Keystroke), NEW b \in Seq(Keystroke), NEW laps,
           Controls(a) # {} => Len(a) = 1, Controls(b) = {},
           SendPieces(<<>>, laps) \/ SendPieces(<<a>>, laps) \/ SendPieces(<<a, b>>, laps),
           UNCHANGED <<device, draft, arrived, waiting, online, pasting>>,
           struck' \in Nat, armings' \in Nat, armed' \in BOOLEAN,
           \/ Controls(a) = {} /\ One(armed') + armings <= armings' + One(armed)
           \/ 1 + One(armed') + armings <= armings' + One(armed)
    PROVE  ControlsInv'
<1>1. /\ posted' \in Nat /\ Numbered(posts', posted') /\ sending' \in BOOLEAN
      /\ Cardinality(ControlPosts(posts')) \in Nat
      /\ Cardinality(ControlPosts(posts'))
           <= Cardinality(ControlPosts(posts)) + One(Controls(a) # {})
  BY SentCounts
<1>2. Cardinality(ControlPosts(posts)) \in Nat
  BY FS_Subset, FS_CardinalityType DEF ControlPosts, Numbered, ControlsInv
<1>3. Cardinality(Controls(arrived)) \in Nat
  BY JoinedControls DEF ControlsInv, TypingTypes
<1>4. \A x : One(x) \in {0, 1}
  BY DEF One
<1>5. Cardinality(Controls(arrived)) + Cardinality(ControlPosts(posts')) + One(armed') <= armings'
  <2>1. armings \in Nat
        /\ Cardinality(Controls(arrived)) + Cardinality(ControlPosts(posts)) + One(armed) <= armings
    BY DEF ControlsInv, TypingTypes
  <2> DEFINE A == Cardinality(Controls(arrived))
             B == Cardinality(ControlPosts(posts))
             C == Cardinality(ControlPosts(posts'))
             x == One(Controls(a) # {})
  <2>8. x \in {0, 1} /\ (Controls(a) = {} => x = 0)
    BY DEF One
  <2>9. x + One(armed') + armings <= armings' + One(armed)
    <3>1. One(armed) \in {0, 1} /\ One(armed') \in {0, 1}
      BY <1>4
    <3> HIDE DEF x
    <3> QED BY <2>1, <2>8, <3>1
  <2>2. /\ A \in Nat /\ B \in Nat /\ C \in Nat /\ x \in {0, 1} /\ C <= B + x
        /\ One(armed) \in {0, 1} /\ One(armed') \in {0, 1}
        /\ A + B + One(armed) <= armings /\ x + One(armed') + armings <= armings' + One(armed)
    BY <1>1, <1>2, <1>3, <1>4, <2>1, <2>9
  <2> HIDE DEF A, B, C, x
  <2>4. \A y : y \in {0, 1} => y \in Nat
    OBVIOUS
  <2>5. /\ A \in Nat /\ B \in Nat /\ C \in Nat /\ x \in Nat
        /\ One(armed) \in Nat /\ One(armed') \in Nat
    BY <2>2, <2>4
  <2>6. armings \in Nat /\ armings' \in Nat
    BY <2>1
  <2>3. A + C + One(armed') <= armings'
    BY ONLY <2>2, <2>5, <2>6, ArmedSum
  <2> QED BY <2>3 DEF A, C
<1>6. TypingTypes'
  BY <1>1 DEF ControlsInv, TypingTypes
<1>7. Controls(draft') = {} /\ Controls(waiting') = {}
      /\ Cardinality(Controls(arrived')) = Cardinality(Controls(arrived))
  BY DEF ControlsInv
<1>8. ControlsInv' <=> /\ TypingTypes' /\ Numbered(posts', posted')
                       /\ Controls(draft') = {} /\ Controls(waiting') = {}
                       /\ Cardinality(Controls(arrived')) + Cardinality(ControlPosts(posts')) + One(armed')
                            <= armings'
  BY DEF ControlsInv, Numbered, Controls, ControlPosts, One
<1> QED BY <1>1, <1>5, <1>6, <1>7, <1>8

LEMMA PrintingKeepsControls ==
    ASSUME ControlsInv, NEW keys \in Seq(Keystroke), keys # <<>>, Controls(keys) = {},
           NEW plain, HandlePrintable(keys, plain), struck' \in Nat,
           UNCHANGED <<device, draft, arrived, waiting, online, pasting, armings>>
    PROVE  ControlsInv'
<1> DEFINE c == <<Key(keys[1].nr, TRUE)>>
           e == <<>>
<1>1. /\ Tail(keys) \in Seq(Keystroke) /\ Controls(Tail(keys)) = {} /\ keys[1].nr \in Nat
  BY FirstAndRest
<1>2. c \in Seq(Keystroke) /\ Len(c) = 1 /\ Controls(c) = {1}
  BY <1>1, Keys
<1>3. e \in Seq(Keystroke) /\ Controls(e) = {}
  BY DEF Controls
<1>4. armings \in Nat /\ armed \in BOOLEAN
  BY DEF ControlsInv, TypingTypes
<1>14. armed' = FALSE
  BY Printed
<1>5. PICK laps \in BOOLEAN :
        \/ SendPieces(<<>>, laps)
        \/ ~armed /\ ~sending /\ SendPieces(<<keys>>, laps)
        \/ armed /\ ~sending /\ SendPieces(<<c>>, laps)
        \/ /\ armed /\ Len(keys) > 1 /\ laps
           /\ SendPieces(<<Tail(keys)>>, laps) \/ SendPieces(<<c, Tail(keys)>>, laps)
  BY Printed
<1>6. One(armed') = 0 /\ One(armed) \in {0, 1} /\ (armed => One(armed) = 1)
  BY <1>14 DEF One
<1>12. One(armed') + armings <= armings' + One(armed)
       /\ (armed => 1 + One(armed') + armings <= armings' + One(armed))
  BY <1>4, <1>6
<1>13. armed' \in BOOLEAN /\ armings' \in Nat
  BY <1>4, <1>14
<1> HIDE DEF c, e
<1>7. CASE SendPieces(<<>>, laps)
  BY <1>3, <1>12, <1>13, <1>7, SendingKeepsControls
<1>8. CASE SendPieces(<<keys>>, laps)
  BY <1>3, <1>12, <1>13, <1>8, SendingKeepsControls
<1>9. CASE armed /\ SendPieces(<<c>>, laps)
  BY <1>1, <1>2, <1>3, <1>12, <1>13, <1>9, SendingKeepsControls
<1>10. CASE SendPieces(<<Tail(keys)>>, laps)
  BY <1>1, <1>3, <1>12, <1>13, <1>10, SendingKeepsControls
<1>11. CASE armed /\ SendPieces(<<c, Tail(keys)>>, laps)
  BY <1>1, <1>2, <1>3, <1>12, <1>13, <1>11, SendingKeepsControls
<1> QED BY <1>5, <1>7, <1>8, <1>9, <1>10, <1>11

\* Nothing of what is counted changes.
LEMMA RestKeepsControls ==
    ASSUME ControlsInv, UNCHANGED <<posts, posted, arrived, sending>>,
           device' = device, struck' \in Nat, armings' \in Nat, armed' \in BOOLEAN, online' \in BOOLEAN,
           draft' \in Seq(Keystroke), Controls(draft') = {},
           waiting' \in Seq(Keystroke), Controls(waiting') = {}, pasting' \subseteq Nat,
           One(armed') + armings <= armings' + One(armed)
    PROVE  ControlsInv'
<1>1. TypingTypes'
  BY DEF ControlsInv, TypingTypes
<1>2. /\ Cardinality(ControlPosts(posts)) \in Nat
      /\ Cardinality(Controls(arrived)) \in Nat
  BY FS_Subset, FS_CardinalityType, JoinedControls DEF ControlPosts, Numbered, ControlsInv, TypingTypes
<1>3. Cardinality(Controls(arrived)) + Cardinality(ControlPosts(posts)) + One(armed') <= armings'
  <2>1. One(armed) \in {0, 1} /\ One(armed') \in {0, 1} /\ armings \in Nat
    BY DEF One, ControlsInv, TypingTypes
  <2>2. Cardinality(Controls(arrived)) + Cardinality(ControlPosts(posts)) + One(armed) <= armings
    BY DEF ControlsInv
  <2> QED BY <1>2, <2>1, <2>2
<1>4. Numbered(posts, posted)
  BY DEF ControlsInv
<1>5. ControlsInv' <=> /\ TypingTypes' /\ Numbered(posts', posted')
                       /\ Controls(draft') = {} /\ Controls(waiting') = {}
                       /\ Cardinality(Controls(arrived')) + Cardinality(ControlPosts(posts')) + One(armed')
                            <= armings'
  BY DEF ControlsInv, Numbered, Controls, ControlPosts, One
<1> QED BY <1>1, <1>3, <1>4, <1>5

\* More arrives of what has no Ctrl.
LEMMA ArrivalKeepsControls ==
    ASSUME ControlsInv, UNCHANGED <<posts, sending, armed, armings>>,
           device' = device, struck' \in Nat, posted' \in {posted, posted + 1}, online' \in BOOLEAN,
           draft' \in Seq(Keystroke), Controls(draft') = {},
           waiting' \in Seq(Keystroke), Controls(waiting') = {}, pasting' \subseteq Nat,
           NEW s \in Seq(Keystroke), Controls(s) = {}, arrived' \in {arrived, arrived \o s}
    PROVE  ControlsInv'
<1>1. arrived' \in Seq(Keystroke) /\ Controls(arrived') = Controls(arrived)
  <2>1. arrived \in Seq(Keystroke)
    BY DEF ControlsInv, TypingTypes
  <2>2. arrived \o s \in Seq(Keystroke) /\ Controls(arrived \o s) = Controls(arrived)
    BY <2>1, JoinedControls, Joined
  <2>3. arrived' = arrived \/ arrived' = arrived \o s
    OBVIOUS
  <2> QED BY ONLY <2>1, <2>2, <2>3
<1>2. posted' \in Nat /\ posted \in Nat /\ posted' >= posted
  BY DEF ControlsInv, TypingTypes
<1>3. TypingTypes'
  BY <1>1, <1>2 DEF ControlsInv, TypingTypes
<1>4. Numbered(posts, posted')
  <2>1. \A p \in posts : p.nr \in Nat /\ p.nr <= posted'
    BY <1>2 DEF ControlsInv, Numbered, Posted
  <2> QED BY <2>1 DEF ControlsInv, Numbered
<1>5. ControlsInv' <=> /\ TypingTypes' /\ Numbered(posts', posted')
                       /\ Controls(draft') = {} /\ Controls(waiting') = {}
                       /\ Cardinality(Controls(arrived')) + Cardinality(ControlPosts(posts')) + One(armed')
                            <= armings'
  BY DEF ControlsInv, Numbered, Controls, ControlPosts, One
<1> QED BY <1>1, <1>3, <1>4, <1>5 DEF ControlsInv

\* The bridge answers.
LEMMA ForwardKeepsControls ==
    ASSUME ControlsInv, NEW p \in posts, NEW refuses, ForwardInput(p, refuses), UNCHANGED desktopVars
    PROVE  ControlsInv'
<1>1. /\ Numbered(posts, posted) /\ posted \in Nat /\ p \in Posted
      /\ p.keys \in Seq(Keystroke) /\ (Controls(p.keys) # {} => Len(p.keys) = 1)
  BY DEF ControlsInv, TypingTypes, Numbered, Posted
<1>2. \/ p.stage = "sent" /\ \E stage \in {"ok", "refused"} : AnswerPost(p, stage)
      \/ p.stage = "late" /\ posts' = posts \ {p}
  BY DEF ForwardInput
<1>3. arrived' \in {arrived, arrived \o p.keys}
  BY DEF ForwardInput
<1>4. UNCHANGED <<device, struck, draft, armed, sending, posted, armings, waiting, online, pasting>>
  BY DEF ForwardInput, desktopVars
<1>5. /\ Numbered(posts', posted) /\ Cardinality(ControlPosts(posts')) \in Nat
      /\ Cardinality(ControlPosts(posts)) \in Nat
      /\ Cardinality(ControlPosts(posts'))
           = Cardinality(ControlPosts(posts)) - One(Controls(p.keys) # {})
  <2>1. ASSUME p.stage = "sent", NEW stage \in {"ok", "refused"}, AnswerPost(p, stage)
        PROVE  /\ Numbered(posts', posted) /\ Cardinality(ControlPosts(posts')) \in Nat
               /\ Cardinality(ControlPosts(posts)) \in Nat
               /\ Cardinality(ControlPosts(posts'))
                    = Cardinality(ControlPosts(posts)) - One(Controls(p.keys) # {})
    BY <1>1, <2>1, AnsweredPost DEF AnswerPost
  <2>2. CASE p.stage = "late" /\ posts' = posts \ {p}
    <3>1. p \in ControlPosts(posts) <=> Controls(p.keys) # {}
      BY <2>2 DEF ControlPosts, Unanswered
    <3>2. One(p \in ControlPosts(posts)) = One(Controls(p.keys) # {})
      BY <3>1 DEF One
    <3> QED BY <1>1, <2>2, <3>2, DroppedPost
  <2> QED BY <1>2, <2>1, <2>2
<1>6. /\ arrived' \in Seq(Keystroke) /\ Cardinality(Controls(arrived)) \in Nat
      /\ Cardinality(Controls(arrived')) \in Nat
      /\ Cardinality(Controls(arrived')) <= Cardinality(Controls(arrived)) + One(Controls(p.keys) # {})
  <2>1. arrived \in Seq(Keystroke)
    BY DEF ControlsInv, TypingTypes
  <2>2. arrived' \in Seq(Keystroke)
    <3>1. arrived \o p.keys \in Seq(Keystroke)
      BY <1>1, <2>1, Joined
    <3> QED BY ONLY <1>3, <2>1, <3>1
  <2>3. Cardinality(Controls(arrived)) \in Nat /\ Cardinality(Controls(arrived')) \in Nat
    BY <2>1, <2>2, JoinedControls
  <2>4. CASE arrived' = arrived
    BY <2>2, <2>3, <2>4 DEF One
  <2>5. CASE arrived' = arrived \o p.keys
    <3>1. CASE Controls(p.keys) = {}
      <4>1. Controls(arrived') = Controls(arrived)
        BY ONLY <1>1, <2>1, <2>5, <3>1, JoinedControls
      <4>2. One(Controls(p.keys) # {}) = 0
        BY <3>1 DEF One
      <4> QED BY ONLY <2>2, <2>3, <4>1, <4>2
    <3>2. CASE Controls(p.keys) # {}
      <4>1. Len(p.keys) = 1
        BY <1>1, <3>2
      <4>2. Cardinality(Controls(arrived')) = Cardinality(Controls(arrived)) + 1
        BY ONLY <1>1, <2>1, <2>5, <3>2, <4>1, JoinedControls
      <4>3. One(Controls(p.keys) # {}) = 1
        BY <3>2 DEF One
      <4> QED BY ONLY <2>2, <2>3, <4>2, <4>3
    <3> QED BY <3>1, <3>2
  <2> QED BY <1>3, <2>4, <2>5
<1>7. Cardinality(Controls(arrived')) + Cardinality(ControlPosts(posts')) + One(armed') <= armings'
  <2>1. /\ Cardinality(Controls(arrived)) + Cardinality(ControlPosts(posts)) + One(armed) <= armings
        /\ One(armed) \in {0, 1} /\ One(Controls(p.keys) # {}) \in {0, 1} /\ armings \in Nat
    BY DEF ControlsInv, TypingTypes, One
  <2>2. One(armed') = One(armed) /\ armings' = armings
    BY <1>4 DEF One
  <2>3. ASSUME NEW a \in Nat, NEW b \in Nat, NEW c \in Nat, NEW d \in Nat, NEW x \in {0, 1},
               NEW y \in {0, 1}, NEW z \in Nat, a + b + y <= z, d = b - x, c <= a + x
        PROVE  c + d + y <= z
    BY ONLY <2>3
  <2> QED BY ONLY <1>5, <1>6, <2>1, <2>2, <2>3
<1>8. TypingTypes'
  BY <1>4, <1>6 DEF ControlsInv, TypingTypes
<1>9. ControlsInv' <=> /\ TypingTypes' /\ Numbered(posts', posted')
                       /\ Controls(draft') = {} /\ Controls(waiting') = {}
                       /\ Cardinality(Controls(arrived')) + Cardinality(ControlPosts(posts')) + One(armed')
                            <= armings'
  BY DEF ControlsInv, Numbered, Controls, ControlPosts, One
<1> QED BY <1>4, <1>5, <1>7, <1>8, <1>9 DEF ControlsInv

\* A key more in the draft, two keys at once, the first of what waits.
LEMMA Written ==
    ASSUME NEW s \in Seq(Keystroke), NEW n \in Nat
    PROVE  /\ Append(s, Key(n, FALSE)) = s \o <<Key(n, FALSE)>>
           /\ Append(s, Key(n, FALSE)) \in Seq(Keystroke)
           /\ Controls(s) = {} => Controls(Append(s, Key(n, FALSE))) = {}
<1>1. Key(n, FALSE) \in Keystroke /\ <<Key(n, FALSE)>> \in Seq(Keystroke) /\ Controls(<<Key(n, FALSE)>>) = {}
  BY Keys
<1>2. Append(s, Key(n, FALSE)) = s \o <<Key(n, FALSE)>>
  BY <1>1, AppendIsConcat
<1>3. s \o <<Key(n, FALSE)>> \in Seq(Keystroke) /\ Controls(s \o <<Key(n, FALSE)>>) = Controls(s)
  BY <1>1, Joined, JoinedControls
<1> QED BY <1>2, <1>3

LEMMA TwoKeys ==
    ASSUME NEW n \in Nat, NEW m \in Nat
    PROVE  LET s == <<Key(n, FALSE), Key(m, FALSE)>>
           IN  /\ s \in Seq(Keystroke) /\ s # <<>> /\ Controls(s) = {}
               /\ Len(s) = 2 /\ s[1].nr = n /\ s[2].nr = m
<1>1. ASSUME NEW k \in Keystroke, NEW l \in Keystroke, ~k.ctrl, ~l.ctrl
      PROVE  /\ <<k, l>> \in Seq(Keystroke) /\ <<k, l>> # <<>> /\ Controls(<<k, l>>) = {}
             /\ Len(<<k, l>>) = 2 /\ <<k, l>>[1] = k /\ <<k, l>>[2] = l
  <2>1. /\ <<k, l>> \in Seq(Keystroke) /\ <<k, l>> # <<>> /\ DOMAIN <<k, l>> = {1, 2}
        /\ Len(<<k, l>>) = 2 /\ <<k, l>>[1] = k /\ <<k, l>>[2] = l
    BY <1>1
  <2> QED BY <1>1, <2>1 DEF Controls
<1> DEFINE k == Key(n, FALSE)
           l == Key(m, FALSE)
<1>2. k \in Keystroke /\ l \in Keystroke /\ ~k.ctrl /\ ~l.ctrl /\ k.nr = n /\ l.nr = m
  BY Keys
<1> HIDE DEF k, l
<1> QED BY <1>1, <1>2 DEF k, l

LEMMA Prefix ==
    ASSUME NEW s \in Seq(Keystroke), NEW n \in 0..Len(s)
    PROVE  /\ SubSeq(s, 1, n) \in Seq(Keystroke) /\ Len(SubSeq(s, 1, n)) = n
           /\ \A i \in DOMAIN SubSeq(s, 1, n) : i \in DOMAIN s /\ SubSeq(s, 1, n)[i] = s[i]
           /\ Controls(s) = {} => Controls(SubSeq(s, 1, n)) = {}
<1>1. /\ SubSeq(s, 1, n) \in Seq(Keystroke) /\ Len(SubSeq(s, 1, n)) = n
  OBVIOUS
<1>2. ASSUME NEW i \in DOMAIN SubSeq(s, 1, n) PROVE i \in DOMAIN s /\ SubSeq(s, 1, n)[i] = s[i]
  OBVIOUS
<1>3. Controls(s) = {} => Controls(SubSeq(s, 1, n)) = {}
  BY <1>2 DEF Controls
<1> QED BY <1>1, <1>2, <1>3

LEMMA ControlsInvInit == TypingInit => ControlsInv
<1> SUFFICES ASSUME TypingInit PROVE ControlsInv
  OBVIOUS
<1>1. Controls(<<>>) = {} /\ ControlPosts({}) = {} /\ <<>> \in Seq(Keystroke)
  BY DEF Controls, ControlPosts
<1>2. IsFiniteSet({}) /\ Cardinality({}) = 0
  BY FS_EmptySet
<1>3. TypingTypes
  BY <1>1, TypingAssumption DEF TypingInit, TypingTypes
<1>4. Numbered(posts, posted)
  BY <1>2 DEF TypingInit, Numbered
<1>5. Cardinality(Controls(arrived)) + Cardinality(ControlPosts(posts)) + One(armed) <= armings
  <2>1. Controls(arrived) = {} /\ ControlPosts(posts) = {}
    BY <1>1 DEF TypingInit
  <2>2. One(armed) = 0 /\ armings = 0
    BY DEF TypingInit, One
  <2> QED BY <1>2, <2>1, <2>2
<1> QED BY <1>1, <1>3, <1>4, <1>5 DEF TypingInit, ControlsInv

LEMMA PhoneKeepsControls ==
    ASSUME ControlsInv, UNCHANGED desktopVars,
           \/ \E plain \in BOOLEAN : PressKey(plain)
           \/ PressCtrl \/ PressSpecial \/ Paste \/ StartComposition \/ EndComposition
           \/ ArmCtrl \/ PressButton
    PROVE  ControlsInv'
<1> DEFINE e == <<>>
           k == <<Key(struck + 1, FALSE)>>
           c == <<Key(struck + 1, TRUE)>>
           kk == <<Key(struck + 1, FALSE), Key(struck + 2, FALSE)>>
<1>0. /\ struck \in Nat /\ armings \in Nat /\ armed \in BOOLEAN /\ online \in BOOLEAN
      /\ draft \in Seq(Keystroke) /\ waiting \in Seq(Keystroke)
      /\ Controls(draft) = {} /\ Controls(waiting) = {} /\ pasting \subseteq Nat
  BY DEF ControlsInv, TypingTypes
<1>1. /\ e \in Seq(Keystroke) /\ Controls(e) = {}
      /\ k \in Seq(Keystroke) /\ Controls(k) = {} /\ k # <<>>
      /\ c \in Seq(Keystroke) /\ Len(c) = 1
      /\ kk \in Seq(Keystroke) /\ Controls(kk) = {} /\ kk # <<>>
  <2>1. struck + 1 \in Nat /\ struck + 2 \in Nat
    BY <1>0
  <2>2. e \in Seq(Keystroke) /\ Controls(e) = {}
    BY DEF Controls
  <2>3. k # <<>>
    OBVIOUS
  <2> QED BY <2>1, <2>2, <2>3, Keys, TwoKeys
<1>2. UNCHANGED <<waiting, online, pasting>>
  BY DEF desktopVars
<1>3. \A n \in Nat : Type(n) => struck' \in Nat
  BY <1>0 DEF Type
<1>4. UNCHANGED armed => One(armed') = One(armed)
  BY DEF One
<1>5. One(armed) \in {0, 1}
  BY DEF One
<1> HIDE DEF e, k, c, kk
\* Nothing is sent, or one piece that is not for Ctrl.
<1>6. ASSUME UNCHANGED <<device, draft, arrived, armed>>, armings' \in {armings, armings + 1},
             struck' \in Nat,
             \E laps : SendPieces(<<>>, laps) \/ SendPieces(<<k>>, laps)
      PROVE  ControlsInv'
  <2>1. One(armed') + armings <= armings' + One(armed) /\ armings' \in Nat /\ armed' \in BOOLEAN
    BY <1>0, <1>4, <1>5, <1>6
  <2> QED BY <1>1, <1>2, <1>6, <2>1, SendingKeepsControls
<1>7. ASSUME UNCHANGED <<device, draft, arrived, armings>>, struck' \in Nat,
             \E plain \in BOOLEAN : HandlePrintable(k, plain) \/ HandlePrintable(kk, plain)
      PROVE  ControlsInv'
  BY <1>1, <1>2, <1>7, PrintingKeepsControls
<1>8. ASSUME NEW plain \in BOOLEAN, PressKey(plain) PROVE ControlsInv'
  <2>1. UNCHANGED <<device, draft, arrived, armings>> /\ struck' \in Nat
    BY <1>3, <1>8 DEF PressKey, Elsewhere
  <2>2. CASE sending
    BY <1>6, <1>8, <2>1, <2>2 DEF PressKey
  <2>3. CASE ~sending
    BY <1>7, <1>8, <2>1, <2>3 DEF PressKey, k
  <2> QED BY <2>2, <2>3
<1>9. CASE PressCtrl
  <2>1. /\ UNCHANGED <<device, draft, arrived, armed>> /\ struck' \in Nat /\ armings' = armings + 1
        /\ Emit(<<c>>, FALSE)
    BY <1>3, <1>9 DEF PressCtrl, Elsewhere, c
  <2>2. CASE sending
    BY <1>6, <2>1, <2>2 DEF Emit
  <2>3. CASE ~sending
    <3>1. SendPieces(<<c>>, FALSE) /\ armings' \in Nat /\ armed' \in BOOLEAN
      <4>1. SendPieces(<<c>>, FALSE)
        BY ONLY <2>1, <2>3 DEF Emit
      <4>2. armings' \in Nat /\ armed' \in BOOLEAN
        BY <1>0, <2>1
      <4> QED BY ONLY <4>1, <4>2
    <3>2. 1 + One(armed') + armings <= armings' + One(armed)
      BY <1>0, <1>4, <1>5, <2>1
    <3> QED BY <1>1, <1>2, <2>1, <3>1, <3>2, SendingKeepsControls
  <2> QED BY <2>2, <2>3
<1>10. CASE PressSpecial
  <2>1. /\ UNCHANGED <<device, draft, arrived, armed, armings>> /\ struck' \in Nat /\ Emit(<<k>>, FALSE)
    BY <1>3, <1>10 DEF PressSpecial, Elsewhere, k
  <2> QED BY <1>6, <2>1 DEF Emit
<1>11. CASE Paste
  <2>1. UNCHANGED <<device, draft, arrived, armings>> /\ struck' \in Nat
    BY <1>3, <1>11 DEF Paste, Elsewhere
  <2>2. CASE sending
    BY <1>6, <1>11, <2>1, <2>2 DEF Paste
  <2>3. CASE ~sending
    BY <1>7, <1>11, <2>1, <2>3 DEF Paste, kk
  <2> QED BY <2>2, <2>3
<1>12. CASE StartComposition
  BY <1>0, <1>2, <1>4, <1>5, <1>12, RestKeepsControls DEF StartComposition
<1>13. CASE EndComposition
  BY <1>3, <1>7, <1>13 DEF EndComposition, kk
<1>14. CASE ArmCtrl
  <2>1. /\ armings' = armings + 1 /\ armed' = TRUE
        /\ UNCHANGED <<device, struck, draft, arrived, posts, posted, sending>>
    BY <1>14 DEF ArmCtrl
  <2>2. One(armed') + armings <= armings' + One(armed)
    BY <1>0, <1>5, <1>14, <2>1 DEF One
  <2> QED BY <1>0, <1>2, <2>1, <2>2, RestKeepsControls
<1>15. CASE PressButton
  <2>1. /\ UNCHANGED <<device, draft, arrived, armed, armings>> /\ struck' \in Nat
        /\ SendPieces(<<k>>, posts # {})
    BY <1>3, <1>15 DEF PressButton, Elsewhere, k
  <2> QED BY <1>6, <2>1
<1> QED BY <1>8, <1>9, <1>10, <1>11, <1>12, <1>13, <1>14, <1>15

LEMMA ConsoleKeepsControls ==
    ASSUME ControlsInv, UNCHANGED desktopVars,
           \/ Write \/ SubmitDraft \/ QuickAction \/ CodexComesAndGoes
           \/ \E p \in posts : PostTerminalInput(p) \/ PostConsoleSend(p) \/ InputAnswered(p) \/ GiveUp(p)
    PROVE  ControlsInv'
<1> DEFINE e == <<>>
           k == <<Key(struck + 1, FALSE)>>
<1>0. /\ struck \in Nat /\ armings \in Nat /\ armed \in BOOLEAN /\ online \in BOOLEAN
      /\ draft \in Seq(Keystroke) /\ waiting \in Seq(Keystroke)
      /\ Controls(draft) = {} /\ Controls(waiting) = {} /\ posted \in Nat /\ pasting \subseteq Nat
  BY DEF ControlsInv, TypingTypes
<1>1. e \in Seq(Keystroke) /\ Controls(e) = {} /\ k \in Seq(Keystroke) /\ Controls(k) = {}
  <2>1. struck + 1 \in Nat
    BY <1>0
  <2>2. e \in Seq(Keystroke) /\ Controls(e) = {}
    BY DEF Controls
  <2> QED BY <2>1, <2>2, Keys
<1>2. UNCHANGED <<waiting, online, pasting>>
  BY DEF desktopVars
<1>3. Type(1) => struck' \in Nat
  BY <1>0 DEF Type
<1>4. UNCHANGED <<armed, armings>> => One(armed') + armings <= armings' + One(armed)
  BY <1>0 DEF One
<1> HIDE DEF e, k
<1>5. CASE Write
  <2>1. /\ UNCHANGED <<posts, posted, arrived, sending, device, armings, armed>> /\ struck' \in Nat
        /\ draft' = Append(draft, Key(struck + 1, FALSE))
    BY <1>3, <1>5 DEF Write, Unsubmitted
  <2>2. draft' \in Seq(Keystroke) /\ Controls(draft') = {}
    <3>1. struck + 1 \in Nat
      BY <1>0
    <3> QED BY <1>0, <2>1, <3>1, Written
  <2> QED BY <1>0, <1>2, <1>4, <2>1, <2>2, RestKeepsControls
<1>6. CASE SubmitDraft
  <2>1. /\ UNCHANGED <<device, draft, arrived, armed, armings, struck>> /\ SendPieces(<<draft>>, FALSE)
    BY <1>6 DEF SubmitDraft, Unsubmitted
  <2> QED BY <1>0, <1>1, <1>2, <1>4, <2>1, SendingKeepsControls
<1>7. CASE QuickAction
  <2>1. /\ UNCHANGED <<device, draft, arrived, armed, armings>> /\ struck' \in Nat
        /\ SendPieces(<<k>>, draft # <<>>)
    BY <1>3, <1>7 DEF QuickAction, Unsubmitted, k
  <2> QED BY <1>0, <1>1, <1>2, <1>4, <2>1, SendingKeepsControls
<1>8. CASE CodexComesAndGoes
  BY <1>0, <1>2, <1>4, <1>8, RestKeepsControls DEF CodexComesAndGoes
<1>9. ASSUME NEW p \in posts, PostTerminalInput(p) \/ PostConsoleSend(p) PROVE ControlsInv'
  BY <1>9, ForwardKeepsControls DEF PostTerminalInput, PostConsoleSend
<1>10. ASSUME NEW p \in posts, InputAnswered(p) PROVE ControlsInv'
  <2>1. /\ posts' = posts \ {p} /\ sending' = FALSE /\ draft' \in {<<>>, draft} /\ p.stage \notin Unanswered
        /\ UNCHANGED <<device, struck, armed, posted, arrived, armings>>
    BY <1>10 DEF InputAnswered, Unanswered
  <2>2. Numbered(posts', posted') /\ ControlPosts(posts') = ControlPosts(posts)
    <3>1. p \notin ControlPosts(posts)
      BY <2>1 DEF ControlPosts
    <3>2. Numbered(posts', posted) /\ ControlPosts(posts') = ControlPosts(posts) \ {p}
      BY <1>0, <2>1, DroppedPost DEF ControlsInv
    <3> QED BY <2>1, <3>1, <3>2
  <2>3. draft' \in Seq(Keystroke) /\ Controls(draft') = {}
    BY <1>0, <1>1, <2>1 DEF e
  <2>4. TypingTypes'
    BY <1>2, <2>1, <2>3 DEF ControlsInv, TypingTypes
  <2>5. Cardinality(Controls(arrived')) + Cardinality(ControlPosts(posts')) + One(armed') <= armings'
    BY <2>1, <2>2 DEF ControlsInv, One
  <2>6. ControlsInv' <=> /\ TypingTypes' /\ Numbered(posts', posted')
                         /\ Controls(draft') = {} /\ Controls(waiting') = {}
                         /\ Cardinality(Controls(arrived')) + Cardinality(ControlPosts(posts')) + One(armed')
                              <= armings'
    BY DEF ControlsInv, Numbered, Controls, ControlPosts, One
  <2> QED BY <1>0, <1>2, <2>2, <2>3, <2>4, <2>5, <2>6
<1>11. ASSUME NEW p \in posts, GiveUp(p) PROVE ControlsInv'
  <2>1. /\ p.stage = "sent" /\ AnswerPost(p, "late") /\ sending' = FALSE
        /\ UNCHANGED <<device, struck, draft, armed, posted, arrived, armings>>
    BY <1>11 DEF GiveUp
  <2>2. /\ Numbered(posts', posted)
        /\ Cardinality(ControlPosts(posts')) = Cardinality(ControlPosts(posts))
    BY <1>0, <2>1, GivenUpPost DEF ControlsInv, AnswerPost
  <2>3. TypingTypes'
    BY <1>2, <2>1 DEF ControlsInv, TypingTypes
  <2>4. Cardinality(Controls(arrived')) + Cardinality(ControlPosts(posts')) + One(armed') <= armings'
    BY <2>1, <2>2 DEF ControlsInv, One
  <2>5. ControlsInv' <=> /\ TypingTypes' /\ Numbered(posts', posted')
                         /\ Controls(draft') = {} /\ Controls(waiting') = {}
                         /\ Cardinality(Controls(arrived')) + Cardinality(ControlPosts(posts')) + One(armed')
                              <= armings'
    BY DEF ControlsInv, Numbered, Controls, ControlPosts, One
  <2> QED BY <1>0, <1>2, <2>1, <2>2, <2>3, <2>4, <2>5
<1> QED BY <1>5, <1>6, <1>7, <1>8, <1>9, <1>10, <1>11

LEMMA DesktopKeepsControls ==
    ASSUME ControlsInv, 
           \/ WriteDraft \/ SubmitComposer \/ HandleControl \/ LinkChanges
           \/ PressPaste \/ \E n \in pasting : ClipboardRead(n)
    PROVE  ControlsInv'
<1> DEFINE e == <<>>
           k == <<Key(struck + 1, FALSE)>>
<1>0. /\ struck \in Nat /\ armings \in Nat /\ armed \in BOOLEAN /\ online \in BOOLEAN
      /\ draft \in Seq(Keystroke) /\ waiting \in Seq(Keystroke)
      /\ Controls(draft) = {} /\ Controls(waiting) = {} /\ posted \in Nat /\ pasting \subseteq Nat
  BY DEF ControlsInv, TypingTypes
<1>1. e \in Seq(Keystroke) /\ Controls(e) = {} /\ k \in Seq(Keystroke) /\ Controls(k) = {}
  <2>1. struck + 1 \in Nat
    BY <1>0
  <2>2. e \in Seq(Keystroke) /\ Controls(e) = {}
    BY DEF Controls
  <2> QED BY <2>1, <2>2, Keys
<1>3. Type(1) => struck' \in Nat
  BY <1>0 DEF Type
<1>4. UNCHANGED <<armed, armings>> => One(armed') + armings <= armings' + One(armed)
  BY <1>0 DEF One
<1> HIDE DEF e, k
<1>5. ASSUME NEW s \in Seq(Keystroke), Controls(s) = {}, EnqueueOrSend(s)
      PROVE  /\ posted' \in {posted, posted + 1} /\ online' \in BOOLEAN
             /\ waiting' \in Seq(Keystroke) /\ Controls(waiting') = {}
             /\ arrived' \in {arrived, arrived \o s}
  <2>1. waiting \o s \in Seq(Keystroke) /\ Controls(waiting \o s) = {}
    BY <1>0, <1>5, Joined, JoinedControls
  <2>2. waiting' \in {waiting, waiting \o s}
    BY <1>5 DEF EnqueueOrSend
  <2> QED BY <1>0, <1>5, <2>1, <2>2 DEF EnqueueOrSend
<1>6. CASE WriteDraft
  <2>1. /\ UNCHANGED <<posts, posted, arrived, sending, device, armings, armed, online, waiting, pasting>>
        /\ struck' \in Nat /\ draft' = Append(draft, Key(struck + 1, FALSE))
    BY <1>3, <1>6 DEF WriteDraft, Untaken, desktopVars
  <2>2. draft' \in Seq(Keystroke) /\ Controls(draft') = {}
    <3>1. struck + 1 \in Nat
      BY <1>0
    <3> QED BY <1>0, <2>1, <3>1, Written
  <2> QED BY <1>0, <1>4, <2>1, <2>2, RestKeepsControls
<1>7. CASE SubmitComposer
  <2>1. /\ UNCHANGED <<posts, sending, device, armings, armed, struck, pasting>>
        /\ draft' = e /\ EnqueueOrSend(draft)
    BY <1>7 DEF SubmitComposer, Untaken, e
  <2> QED BY <1>0, <1>1, <1>5, <2>1, ArrivalKeepsControls
<1>8. CASE HandleControl
  <2>1. /\ UNCHANGED <<posts, sending, device, armings, armed, draft, pasting>>
        /\ struck' \in Nat /\ EnqueueOrSend(k)
    BY <1>3, <1>8 DEF HandleControl, Untaken, k
  <2> QED BY <1>0, <1>1, <1>5, <2>1, ArrivalKeepsControls
<1>9. CASE LinkChanges
  <2>1. /\ UNCHANGED <<posts, sending, device, armings, armed, draft, posted, struck, pasting>>
        /\ online' \in BOOLEAN
    BY <1>0, <1>9 DEF LinkChanges, Untaken
  <2>2. CASE online
    BY <1>0, <1>1, <1>9, <2>1, <2>2, ArrivalKeepsControls DEF LinkChanges
  <2>3. CASE ~online
    <3>1. PICK n \in 0..Len(waiting) : arrived' = arrived \o SubSeq(waiting, 1, n) /\ waiting' = e
      BY <1>9, <2>3 DEF LinkChanges, e
    <3>2. SubSeq(waiting, 1, n) \in Seq(Keystroke) /\ Controls(SubSeq(waiting, 1, n)) = {}
      BY <1>0, Prefix
    <3> QED BY <1>0, <1>1, <2>1, <3>1, <3>2, ArrivalKeepsControls
  <2> QED BY <2>2, <2>3
<1>10. CASE PressPaste
  <2>1. /\ UNCHANGED <<posts, posted, arrived, sending, device, armings, armed, draft, online, waiting>>
        /\ struck' \in Nat /\ pasting' = pasting \cup {struck + 1}
    BY <1>3, <1>10 DEF PressPaste, Untaken
  <2>2. pasting' \subseteq Nat
    BY <1>0, <2>1
  <2> QED BY <1>0, <1>4, <2>1, <2>2, RestKeepsControls
<1>11. ASSUME NEW n \in pasting, ClipboardRead(n) PROVE ControlsInv'
  <2>1. /\ UNCHANGED <<posts, sending, device, armings, armed, draft, struck>>
        /\ pasting' \subseteq Nat
    BY <1>0, <1>11 DEF ClipboardRead, Untaken
  <2>2. CASE EnqueueOrSend(<<Key(n, FALSE)>>)
    <3>1. <<Key(n, FALSE)>> \in Seq(Keystroke) /\ Controls(<<Key(n, FALSE)>>) = {}
      BY <1>0, Keys
    <3> DEFINE s == <<Key(n, FALSE)>>
    <3> HIDE DEF s
    <3> QED BY <1>0, <1>5, <2>1, <2>2, <3>1, ArrivalKeepsControls DEF s
  <2>3. CASE UNCHANGED <<posted, arrived, online, waiting>>
    BY <1>0, <1>4, <2>1, <2>3, RestKeepsControls
  <2> QED BY <1>11, <2>2, <2>3 DEF ClipboardRead
<1> QED BY <1>6, <1>7, <1>8, <1>9, <1>10, <1>11

LEMMA ControlsStep == ControlsInv /\ [TypingNext]_typingVars => ControlsInv'
<1> SUFFICES ASSUME ControlsInv, [TypingNext]_typingVars PROVE ControlsInv'
  OBVIOUS
<1>1. CASE PostsNext /\ UNCHANGED desktopVars
  BY <1>1, PhoneKeepsControls, ConsoleKeepsControls DEF PostsNext
<1>2. CASE \/ WriteDraft \/ SubmitComposer \/ HandleControl \/ LinkChanges
           \/ PressPaste \/ \E n \in pasting : ClipboardRead(n)
  BY <1>2, DesktopKeepsControls
<1>3. CASE UNCHANGED typingVars
  BY <1>3 DEF typingVars, postVars, desktopVars, ControlsInv, TypingTypes, Numbered, Controls, ControlPosts, One
<1> QED BY <1>1, <1>2, <1>3 DEF TypingNext

\* One sequence holds a key of the other.
Meet(s, t) == ToSet(s) \cap ToSet(t) # {}

\* Keys that were typed between two moments.
Fresh(s, n, m) == Increasing(s) /\ \A i \in DOMAIN s : n < s[i].nr /\ s[i].nr <= m

\* The keys of a sequence were typed before those of a set, or after them.
Before(s, P) == \A i \in DOMAIN s : \A m \in P : s[i].nr < m
After(s, P) == \A i \in DOMAIN s : \A m \in P : m < s[i].nr

\* What a POST brings, while it is on its way: new keys, which the draft may still hold.
OnItsWay(s) ==
    /\ Increasing(s) /\ UpTo(s, struck) /\ Below(arrived, s)
    /\ Below(s, draft) \/ Meet(s, draft)

\* What has arrived comes before what waits, and that before the draft; except that the
\* console keeps a draft until it knows that it has arrived. There is one POST. A text
\* for which the page still waits comes after what was sent.
Ordered ==
    /\ Increasing(arrived) /\ UpTo(arrived, struck)
    /\ Increasing(draft) /\ UpTo(draft, struck)
    /\ Below(arrived, draft) \/ (device = "console" /\ Meet(draft, arrived))
    /\ Increasing(waiting) /\ UpTo(waiting, struck)
    /\ Below(arrived, waiting) /\ Below(waiting, draft)
    /\ online => waiting = <<>>
    /\ device # "desktop" => waiting = <<>>
    /\ device = "phone" => draft = <<>>
    /\ \A p, q \in posts : p = q
    /\ posts # {} => device # "desktop"
    /\ \A p \in posts : sending \/ p.stage = "late"
    /\ \A p \in posts : p.stage \in Unanswered => OnItsWay(p.keys)
    /\ pasting # {} => device = "desktop"
    /\ \A m \in pasting : m <= struck
    /\ Before(arrived, pasting) /\ Before(waiting, pasting) /\ After(draft, pasting)

OrderInv == ~lapped /\ ~again => Ordered

LEMMA Numbers == \A s \in Seq(Keystroke) : \A i \in DOMAIN s : s[i].nr \in Nat
<1> SUFFICES ASSUME NEW s \in Seq(Keystroke), NEW i \in DOMAIN s PROVE s[i].nr \in Nat
  OBVIOUS
<1>1. s[i] \in Keystroke
  OBVIOUS
<1> QED BY <1>1 DEF Keystroke

LEMMA Empty ==
    /\ Increasing(<<>>) /\ \A n : UpTo(<<>>, n)
    /\ \A s : Below(<<>>, s) /\ Below(s, <<>>)
    /\ \A P : Before(<<>>, P) /\ After(<<>>, P)
    /\ \A s : Before(s, {}) /\ After(s, {})
BY DEF Increasing, UpTo, Below, Before, After

LEMMA JoinedOrder ==
    ASSUME NEW s \in Seq(Keystroke), NEW t \in Seq(Keystroke), NEW r \in Seq(Keystroke), NEW n
    PROVE  /\ Increasing(s) /\ Increasing(t) /\ Below(s, t) => Increasing(s \o t)
           /\ UpTo(s, n) /\ UpTo(t, n) => UpTo(s \o t, n)
           /\ Below(r, s) /\ Below(r, t) => Below(r, s \o t)
           /\ Below(s, r) /\ Below(t, r) => Below(s \o t, r)
           /\ Meet(r, s) \/ Meet(r, t) => Meet(r, s \o t)
           /\ Meet(s, r) \/ Meet(t, r) => Meet(s \o t, r)
<1> DEFINE u == s \o t
<1>1. /\ \A i \in DOMAIN u : \/ i \in DOMAIN s /\ u[i] = s[i]
                             \/ i - Len(s) \in DOMAIN t /\ i > Len(s) /\ u[i] = t[i - Len(s)]
      /\ \A i \in DOMAIN s : i \in DOMAIN u /\ u[i] = s[i]
      /\ \A i \in DOMAIN t : i + Len(s) \in DOMAIN u /\ u[i + Len(s)] = t[i]
  BY Joined
<1>2. /\ Len(s) \in Nat /\ \A i \in DOMAIN s : i \in Nat /\ i <= Len(s)
      /\ \A i \in DOMAIN u : i \in Nat
  <2>1. u \in Seq(Keystroke)
    BY Joined
  <2> HIDE DEF u
  <2> QED BY <2>1
<1> HIDE DEF u
<1>3. ASSUME Increasing(s), Increasing(t), Below(s, t) PROVE Increasing(u)
  <2> SUFFICES ASSUME NEW i \in DOMAIN u, NEW j \in DOMAIN u, i < j PROVE u[i].nr < u[j].nr
    BY DEF Increasing
  <2>1. CASE j \in DOMAIN s /\ u[j] = s[j]
    <3>1. i \in DOMAIN s /\ u[i] = s[i]
      BY <1>1, <1>2, <2>1
    <3> QED BY <1>3, <2>1, <3>1 DEF Increasing
  <2>2. CASE j - Len(s) \in DOMAIN t /\ j > Len(s) /\ u[j] = t[j - Len(s)]
    <3>1. CASE i \in DOMAIN s /\ u[i] = s[i]
      BY <1>3, <2>2, <3>1 DEF Below
    <3>2. CASE i - Len(s) \in DOMAIN t /\ i > Len(s) /\ u[i] = t[i - Len(s)]
      <4>1. i - Len(s) < j - Len(s)
        BY <1>2
      <4> QED BY <1>3, <2>2, <3>2, <4>1 DEF Increasing
    <3> QED BY <1>1, <3>1, <3>2
  <2> QED BY <1>1, <2>1, <2>2
<1>4. UpTo(s, n) /\ UpTo(t, n) => UpTo(u, n)
  BY <1>1 DEF UpTo
<1>5. /\ Below(r, s) /\ Below(r, t) => Below(r, u)
      /\ Below(s, r) /\ Below(t, r) => Below(u, r)
  BY <1>1 DEF Below
<1>6. ToSet(s) \subseteq ToSet(u) /\ ToSet(t) \subseteq ToSet(u)
  BY <1>1 DEF ToSet
<1>7. /\ Meet(r, s) \/ Meet(r, t) => Meet(r, u)
      /\ Meet(s, r) \/ Meet(t, r) => Meet(u, r)
  BY <1>6 DEF Meet
<1> QED BY <1>3, <1>4, <1>5, <1>7 DEF u

LEMMA JoinedAround ==
    ASSUME NEW s \in Seq(Keystroke), NEW t \in Seq(Keystroke), NEW P
    PROVE  /\ Before(s, P) /\ Before(t, P) => Before(s \o t, P)
           /\ After(s, P) /\ After(t, P) => After(s \o t, P)
<1>1. \A i \in DOMAIN (s \o t) :
        \/ i \in DOMAIN s /\ (s \o t)[i] = s[i]
        \/ i - Len(s) \in DOMAIN t /\ (s \o t)[i] = t[i - Len(s)]
  BY Joined
<1> QED BY <1>1 DEF Before, After

\* New keys follow everything that there was.
LEMMA FreshOnes ==
    ASSUME NEW s \in Seq(Keystroke), NEW n \in Nat, NEW m \in Nat, n <= m, Fresh(s, n, m)
    PROVE  /\ Increasing(s) /\ UpTo(s, m)
           /\ \A t \in Seq(Keystroke) : UpTo(t, n) => Below(t, s) /\ UpTo(t, m)
BY Numbers DEF Fresh, UpTo, Below

LEMMA OneFresh ==
    ASSUME NEW n \in Nat, NEW m \in Nat, n < m, NEW b \in BOOLEAN
    PROVE  Fresh(<<Key(m, b)>>, n, m)
<1> DEFINE k == Key(m, b)
<1>1. k.nr = m
  BY Keys
<1> HIDE DEF k
<1>2. DOMAIN <<k>> = {1} /\ <<k>>[1] = k
  OBVIOUS
<1> QED BY <1>1, <1>2 DEF Fresh, Increasing, k

\* The order, after a step.
OrderedAfter ==
    /\ Increasing(arrived') /\ UpTo(arrived', struck')
    /\ Increasing(draft') /\ UpTo(draft', struck')
    /\ Below(arrived', draft') \/ (device' = "console" /\ Meet(draft', arrived'))
    /\ Increasing(waiting') /\ UpTo(waiting', struck')
    /\ Below(arrived', waiting') /\ Below(waiting', draft')
    /\ online' => waiting' = <<>>
    /\ device' # "desktop" => waiting' = <<>>
    /\ device' = "phone" => draft' = <<>>
    /\ \A p, q \in posts' : p = q
    /\ posts' # {} => device' # "desktop"
    /\ \A p \in posts' : sending' \/ p.stage = "late"
    /\ \A p \in posts' : p.stage \in Unanswered =>
         /\ Increasing(p.keys) /\ UpTo(p.keys, struck') /\ Below(arrived', p.keys)
         /\ Below(p.keys, draft') \/ Meet(p.keys, draft')
    /\ pasting' # {} => device' = "desktop"
    /\ \A m \in pasting' : m <= struck'
    /\ Before(arrived', pasting') /\ Before(waiting', pasting') /\ After(draft', pasting')

LEMMA Afterwards == OrderedAfter <=> Ordered'
BY DEF OrderedAfter, Ordered, OnItsWay, Increasing, UpTo, Below, Meet, ToSet, Before, After, Unanswered

LEMMA Later ==
    ASSUME NEW s \in Seq(Keystroke), NEW n \in Nat, NEW m \in Nat, n <= m, UpTo(s, n)
    PROVE  UpTo(s, m)
BY Numbers DEF UpTo

\* Posts that are sent one after the other.
LEMMA SendingKeepsOrder ==
    ASSUME ControlsInv, Ordered, struck' \in Nat, struck <= struck',
           UNCHANGED <<device, draft, arrived, waiting, online, pasting>>,
           NEW a \in Seq(Keystroke), NEW laps,
           \/ SendPieces(<<>>, laps)
           \/ /\ SendPieces(<<a>>, laps) /\ posts = {} /\ device # "desktop"
              /\ Increasing(a) /\ UpTo(a, struck') /\ Below(arrived, a)
              /\ Below(a, draft) \/ Meet(a, draft)
    PROVE  Ordered'
<1>1. /\ struck \in Nat /\ draft \in Seq(Keystroke) /\ arrived \in Seq(Keystroke)
      /\ waiting \in Seq(Keystroke) /\ sending \in BOOLEAN /\ pasting \subseteq Nat
      /\ \A p \in posts : p.keys \in Seq(Keystroke)
  BY DEF ControlsInv, TypingTypes, Numbered, Posted
<1>2. /\ UpTo(draft, struck') /\ UpTo(arrived, struck') /\ UpTo(waiting, struck')
      /\ \A p \in posts : UpTo(p.keys, struck) => UpTo(p.keys, struck')
      /\ \A m \in pasting : m <= struck'
  BY <1>1, Later DEF Ordered
<1>3. CASE SendPieces(<<>>, laps)
  <2>1. posts' = posts /\ (sending => sending')
    BY <1>3, Pieces
  <2> QED BY <1>2, <2>1, Afterwards DEF OrderedAfter, Ordered, OnItsWay
<1>4. CASE /\ SendPieces(<<a>>, laps) /\ posts = {} /\ device # "desktop"
           /\ Increasing(a) /\ UpTo(a, struck') /\ Below(arrived, a)
           /\ Below(a, draft) \/ Meet(a, draft)
  <2>1. posts' = {Post(posted + 1, a)} /\ sending'
    BY <1>4, Pieces
  <2>2. \A p \in posts' : p.keys = a
    BY <2>1 DEF Post
  <2> QED BY <1>2, <1>4, <2>1, <2>2, Afterwards DEF OrderedAfter, Ordered
<1> QED BY <1>3, <1>4

LEMMA PrintingKeepsOrder ==
    ASSUME ControlsInv, Ordered, NEW keys \in Seq(Keystroke), keys # <<>>, Controls(keys) = {},
           NEW plain, HandlePrintable(keys, plain), ~lapped', device = "phone",
           struck' \in Nat, struck <= struck', Fresh(keys, struck, struck'),
           UNCHANGED <<device, draft, arrived, waiting, online, pasting>>
    PROVE  Ordered'
<1> DEFINE c == <<Key(keys[1].nr, TRUE)>>
<1>1. keys[1].nr \in Nat /\ 1 \in DOMAIN keys
  BY FirstAndRest
<1>2. c \in Seq(Keystroke)
  BY <1>1, Keys
<1>3. Fresh(c, struck, struck')
  <2>1. struck \in Nat /\ struck < keys[1].nr /\ keys[1].nr <= struck'
    BY <1>1 DEF ControlsInv, TypingTypes, Fresh
  <2>2. Fresh(c, struck, keys[1].nr)
    BY <1>1, <2>1, OneFresh
  <2> HIDE DEF c
  <2> QED BY <1>1, <1>2, <2>1, <2>2, Numbers DEF Fresh
<1>8. PICK laps \in BOOLEAN :
        \/ SendPieces(<<>>, laps)
        \/ ~sending /\ SendPieces(<<keys>>, laps)
        \/ ~sending /\ SendPieces(<<c>>, laps)
        \/ laps /\ (SendPieces(<<Tail(keys)>>, laps) \/ SendPieces(<<c, Tail(keys)>>, laps))
  BY Printed
<1>4. \/ SendPieces(<<>>, laps)
      \/ ~sending /\ SendPieces(<<keys>>, laps)
      \/ ~sending /\ SendPieces(<<c>>, laps)
  BY <1>8, PiecesLap
<1> HIDE DEF c
<1>5. draft = <<>> /\ UpTo(arrived, struck) /\ \A p \in posts : sending \/ p.stage = "late"
  BY DEF Ordered
<1>9. ASSUME NEW a, ~sending, SendPieces(<<a>>, laps) PROVE posts = {}
  <2>1. <<a>> # <<>>
    OBVIOUS
  <2>2. \A p \in posts : p.stage # "late"
    BY ONLY <1>9, <2>1, ~lapped', PiecesLap
  <2> QED BY <1>5, <1>9, <2>2
<1>6. struck \in Nat /\ arrived \in Seq(Keystroke)
  BY DEF ControlsInv, TypingTypes
<1>7. \A s \in Seq(Keystroke) : Fresh(s, struck, struck') =>
        Increasing(s) /\ UpTo(s, struck') /\ Below(arrived, s) /\ Below(s, draft)
  BY <1>5, <1>6, FreshOnes, Empty
<1> QED BY <1>2, <1>3, <1>4, <1>5, <1>7, <1>9, SendingKeepsOrder

LEMMA RestKeepsOrder ==
    ASSUME ControlsInv, Ordered, struck' \in Nat, struck <= struck', posts' = posts,
           UNCHANGED <<device, draft, arrived, waiting, online, sending, pasting>>
    PROVE  Ordered'
<1>1. /\ struck \in Nat /\ draft \in Seq(Keystroke) /\ arrived \in Seq(Keystroke)
      /\ waiting \in Seq(Keystroke) /\ pasting \subseteq Nat /\ \A p \in posts : p.keys \in Seq(Keystroke)
  BY DEF ControlsInv, TypingTypes, Numbered, Posted
<1>2. /\ UpTo(draft, struck') /\ UpTo(arrived, struck') /\ UpTo(waiting, struck')
      /\ \A p \in posts : UpTo(p.keys, struck) => UpTo(p.keys, struck')
      /\ \A m \in pasting : m <= struck'
  BY <1>1, Later DEF Ordered
<1> QED BY <1>2, Afterwards DEF OrderedAfter, Ordered, OnItsWay

LEMMA PhoneKeepsOrder ==
    ASSUME ControlsInv, Ordered, ~lapped', UNCHANGED desktopVars,
           \/ \E plain \in BOOLEAN : PressKey(plain)
           \/ PressCtrl \/ PressSpecial \/ Paste \/ StartComposition
           \/ EndComposition /\ device = "phone"
           \/ ArmCtrl \/ PressButton
    PROVE  Ordered'
<1> DEFINE k == <<Key(struck + 1, FALSE)>>
           c == <<Key(struck + 1, TRUE)>>
           kk == <<Key(struck + 1, FALSE), Key(struck + 2, FALSE)>>
<1>0. struck \in Nat /\ arrived \in Seq(Keystroke)
  BY DEF ControlsInv, TypingTypes
<1>1. /\ k \in Seq(Keystroke) /\ Fresh(k, struck, struck + 1) /\ k # <<>> /\ Controls(k) = {}
      /\ c \in Seq(Keystroke) /\ Fresh(c, struck, struck + 1)
      /\ kk \in Seq(Keystroke) /\ Fresh(kk, struck, struck + 2) /\ kk # <<>> /\ Controls(kk) = {}
  <2>1. struck + 1 \in Nat /\ struck + 2 \in Nat /\ struck < struck + 1
    BY <1>0
  <2>2. k # <<>>
    OBVIOUS
  <2>3. /\ k \in Seq(Keystroke) /\ c \in Seq(Keystroke) /\ Controls(k) = {}
        /\ Fresh(k, struck, struck + 1) /\ Fresh(c, struck, struck + 1)
    BY <1>0, <2>1, Keys, OneFresh
  <2>4. /\ kk \in Seq(Keystroke) /\ kk # <<>> /\ Controls(kk) = {} /\ Len(kk) = 2
        /\ kk[1].nr = struck + 1 /\ kk[2].nr = struck + 2
    BY <2>1, TwoKeys
  <2> HIDE DEF kk
  <2>5. DOMAIN kk = {1, 2}
    BY <2>4
  <2>6. Fresh(kk, struck, struck + 2)
    BY <1>0, <2>4, <2>5 DEF Fresh, Increasing
  <2> QED BY <2>2, <2>3, <2>4, <2>6
<1>2. UNCHANGED <<waiting, online, pasting>>
  BY DEF desktopVars
<1>3. draft = <<>> \/ device # "phone"
  BY DEF Ordered
<1>4. UpTo(arrived, struck) /\ \A p \in posts : sending \/ p.stage = "late"
  BY DEF Ordered
<1>16. ASSUME NEW a, NEW laps, ~sending, SendPieces(<<a>>, laps) PROVE posts = {}
  <2>1. <<a>> # <<>>
    OBVIOUS
  <2>2. \A p \in posts : p.stage # "late"
    BY ONLY <1>16, <2>1, ~lapped', PiecesLap
  <2> QED BY <1>4, <1>16, <2>2
<1> HIDE DEF k, c, kk
<1>5. ASSUME UNCHANGED <<device, draft, arrived>>, struck' = struck + 1, device = "phone",
             NEW a \in {k, c}, NEW laps, SendPieces(<<>>, laps) \/ (posts = {} /\ SendPieces(<<a>>, laps))
      PROVE  Ordered'
  <2>1. struck' \in Nat /\ struck <= struck'
    BY <1>0, <1>5
  <2>2. Increasing(a) /\ UpTo(a, struck') /\ Below(arrived, a) /\ Below(a, draft)
    BY <1>0, <1>1, <1>3, <1>4, <1>5, <2>1, FreshOnes, Empty
  <2> QED BY <1>1, <1>2, <1>5, <2>1, <2>2, SendingKeepsOrder
<1>6. ASSUME UNCHANGED <<device, draft, arrived>>, device = "phone",
             NEW plain, \/ struck' = struck + 1 /\ HandlePrintable(k, plain)
                        \/ struck' = struck + 2 /\ HandlePrintable(kk, plain)
      PROVE  Ordered'
  <2>1. struck' \in Nat /\ struck <= struck'
    BY <1>0, <1>6
  <2> QED BY <1>1, <1>2, <1>6, <2>1, PrintingKeepsOrder
<1>7. ASSUME UNCHANGED <<device, draft, arrived>>, device = "phone", struck' \in Nat, struck <= struck',
             NEW laps, SendPieces(<<>>, laps)
      PROVE  Ordered'
  BY <1>1, <1>2, <1>7, SendingKeepsOrder
<1>8. ASSUME NEW plain \in BOOLEAN, PressKey(plain) PROVE Ordered'
  <2>1. UNCHANGED <<device, draft, arrived>> /\ struck' = struck + 1 /\ device = "phone"
    BY <1>8 DEF PressKey, Elsewhere, Type, OnPhone
  <2>2. CASE sending
    BY <1>5, <1>8, <2>1, <2>2 DEF PressKey
  <2>3. CASE ~sending
    BY <1>6, <1>8, <2>1, <2>3 DEF PressKey, k
  <2> QED BY <2>2, <2>3
<1>9. CASE PressCtrl
  <2>1. UNCHANGED <<device, draft, arrived>> /\ struck' = struck + 1 /\ device = "phone" /\ Emit(<<c>>, FALSE)
    BY <1>9 DEF PressCtrl, Elsewhere, Type, OnPhone, c
  <2> QED BY <1>16, <1>5, <2>1 DEF Emit
<1>10. CASE PressSpecial
  <2>1. UNCHANGED <<device, draft, arrived>> /\ struck' = struck + 1 /\ device = "phone" /\ Emit(<<k>>, FALSE)
    BY <1>10 DEF PressSpecial, Elsewhere, Type, OnPhone, k
  <2> QED BY <1>16, <1>5, <2>1 DEF Emit
<1>11. CASE Paste
  <2>1. UNCHANGED <<device, draft, arrived>> /\ struck' = struck + 2 /\ device = "phone"
    BY <1>11 DEF Paste, Elsewhere, Type, OnPhone
  <2>2. CASE sending
    <3>1. struck' \in Nat /\ struck <= struck'
      BY <1>0, <2>1
    <3> QED BY <1>7, <1>11, <2>1, <2>2, <3>1 DEF Paste
  <2>3. CASE ~sending
    BY <1>6, <1>11, <2>1, <2>3 DEF Paste, kk
  <2> QED BY <2>2, <2>3
<1>12. CASE StartComposition
  BY <1>0, <1>2, <1>12, RestKeepsOrder DEF StartComposition
<1>13. CASE EndComposition /\ device = "phone"
  <2>1. UNCHANGED <<device, draft, arrived>> /\ struck' = struck + 2 /\ HandlePrintable(kk, FALSE)
    BY <1>13 DEF EndComposition, Type, kk
  <2> QED BY <1>6, <1>13, <2>1
<1>14. CASE ArmCtrl
  BY <1>0, <1>2, <1>14, RestKeepsOrder DEF ArmCtrl
<1>15. CASE PressButton
  <2>1. /\ UNCHANGED <<device, draft, arrived>> /\ struck' = struck + 1 /\ device = "phone"
        /\ SendPieces(<<k>>, posts # {})
    BY <1>15 DEF PressButton, Elsewhere, Type, OnPhone, k
  <2>2. posts = {}
    BY ONLY <2>1, ~lapped', PiecesLap
  <2> QED BY <1>5, <2>1, <2>2
<1> QED BY <1>8, <1>9, <1>10, <1>11, <1>12, <1>13, <1>14, <1>15

\* The bridge answers; what it has written may still be in the draft of the console.
LEMMA ForwardKeepsOrder ==
    ASSUME ControlsInv, Ordered, NEW p \in posts, NEW refuses, ForwardInput(p, refuses),
           UNCHANGED desktopVars
    PROVE  Ordered'
<1>1. /\ struck \in Nat /\ draft \in Seq(Keystroke) /\ arrived \in Seq(Keystroke)
      /\ waiting \in Seq(Keystroke) /\ p.keys \in Seq(Keystroke) /\ p \in Posted
  BY DEF ControlsInv, TypingTypes, Numbered, Posted
<1>2. \/ p.stage = "sent" /\ \E stage \in {"ok", "refused"} : AnswerPost(p, stage)
      \/ p.stage = "late" /\ posts' = posts \ {p}
  BY DEF ForwardInput
<1>3. arrived' \in {arrived, arrived \o p.keys}
  BY DEF ForwardInput
<1>4. UNCHANGED <<device, struck, draft, sending, waiting, online, pasting>>
  BY DEF ForwardInput, desktopVars
<1>5. /\ \A q, r \in posts' : q = r
      /\ \A q \in posts' : q.stage \notin Unanswered /\ sending
  <2>1. posts \ {p} = {} /\ (sending \/ p.stage = "late")
    BY DEF Ordered
  <2>2. \A stage : [p EXCEPT !.stage = stage].stage = stage
    BY <1>1 DEF Posted
  <2> QED BY <1>2, <2>1, <2>2 DEF AnswerPost, Unanswered
<1>6. device # "desktop" /\ waiting = <<>> /\ pasting = {}
  BY DEF Ordered
<1>7. OnItsWay(p.keys)
  BY <1>2 DEF Ordered, Unanswered
<1>8. Increasing(arrived') /\ UpTo(arrived', struck)
  <2>1. Increasing(arrived \o p.keys) /\ UpTo(arrived \o p.keys, struck)
    BY <1>1, <1>7, JoinedOrder DEF Ordered, OnItsWay
  <2> QED BY <1>3, <2>1 DEF Ordered
<1>9. Below(arrived', draft) \/ (device = "console" /\ Meet(draft, arrived'))
  <2>1. CASE arrived' = arrived
    BY <2>1 DEF Ordered
  <2>2. CASE arrived' = arrived \o p.keys
    <3>1. CASE device = "phone"
      BY <3>1, Empty DEF Ordered
    <3>2. CASE Below(arrived, draft) /\ Below(p.keys, draft)
      BY <1>1, <2>2, <3>2, JoinedOrder
    <3>3. CASE device = "console" /\ Meet(draft, arrived)
      BY <1>1, <2>2, <3>3, JoinedOrder
    <3>4. CASE device = "console" /\ Meet(p.keys, draft)
      <4>1. Meet(draft, p.keys)
        BY <3>4 DEF Meet
      <4> QED BY <1>1, <2>2, <3>4, <4>1, JoinedOrder
    <3>5. device \in {"phone", "console"}
      BY <1>6 DEF ControlsInv, TypingTypes
    <3> QED BY <1>7, <3>1, <3>2, <3>3, <3>4, <3>5 DEF Ordered, OnItsWay
  <2> QED BY <1>3, <2>1, <2>2
<1> QED BY <1>4, <1>5, <1>6, <1>8, <1>9, Empty, Afterwards DEF OrderedAfter, Ordered

\* The draft is one key longer.
LEMMA WritingKeepsOrder ==
    ASSUME ControlsInv, Ordered, struck' = struck + 1, draft' = Append(draft, Key(struck + 1, FALSE)),
           device # "phone", UNCHANGED <<device, posts, arrived, sending, waiting, online, pasting>>
    PROVE  Ordered'
<1> DEFINE k == <<Key(struck + 1, FALSE)>>
<1>1. /\ struck \in Nat /\ draft \in Seq(Keystroke) /\ arrived \in Seq(Keystroke)
      /\ waiting \in Seq(Keystroke) /\ pasting \subseteq Nat /\ \A p \in posts : p.keys \in Seq(Keystroke)
  BY DEF ControlsInv, TypingTypes, Numbered, Posted
<1>2. k \in Seq(Keystroke) /\ Fresh(k, struck, struck + 1) /\ draft' = draft \o k
  <2>1. struck + 1 \in Nat /\ struck < struck + 1
    BY <1>1
  <2> QED BY <1>1, <2>1, Keys, OneFresh, Written
<1> HIDE DEF k
<1>3. /\ struck' \in Nat /\ struck <= struck' /\ Increasing(k) /\ UpTo(k, struck')
      /\ \A t \in Seq(Keystroke) : UpTo(t, struck) => Below(t, k) /\ UpTo(t, struck')
  <2>1. struck + 1 \in Nat /\ struck <= struck + 1
    BY <1>1
  <2> QED BY <1>1, <1>2, <2>1, FreshOnes
<1>4. Increasing(draft') /\ UpTo(draft', struck')
  BY <1>1, <1>2, <1>3, JoinedOrder DEF Ordered
<1>5. \A s \in Seq(Keystroke) : UpTo(s, struck) =>
        /\ Below(s, draft) => Below(s, draft')
        /\ Meet(s, draft) => Meet(s, draft')
        /\ Meet(draft, s) => Meet(draft', s)
  <2>1. ASSUME NEW s \in Seq(Keystroke), UpTo(s, struck)
        PROVE  /\ Below(s, draft) => Below(s, draft')
               /\ Meet(s, draft) => Meet(s, draft')
               /\ Meet(draft, s) => Meet(draft', s)
    <3>1. Below(s, k)
      BY ONLY <1>3, <2>1
    <3>2. /\ Below(s, draft) /\ Below(s, k) => Below(s, draft \o k)
          /\ Meet(s, draft) => Meet(s, draft \o k)
          /\ Meet(draft, s) => Meet(draft \o k, s)
      BY ONLY <1>1, <1>2, <2>1, JoinedOrder
    <3> QED BY ONLY <1>2, <3>1, <3>2
  <2> QED BY <2>1
<1>6. /\ UpTo(arrived, struck) /\ UpTo(waiting, struck)
      /\ \A p \in posts : p.stage \in Unanswered => UpTo(p.keys, struck)
  BY DEF Ordered, OnItsWay
<1>7. Below(arrived', draft') \/ (device' = "console" /\ Meet(draft', arrived'))
  BY <1>1, <1>5, <1>6 DEF Ordered
<1>8. Below(waiting', draft') /\ UpTo(arrived', struck') /\ UpTo(waiting', struck')
  BY <1>1, <1>3, <1>5, <1>6 DEF Ordered
<1>9. \A p \in posts' : p.stage \in Unanswered =>
         /\ Increasing(p.keys) /\ UpTo(p.keys, struck') /\ Below(arrived', p.keys)
         /\ Below(p.keys, draft') \/ Meet(p.keys, draft')
  BY <1>1, <1>3, <1>5, <1>6 DEF Ordered, OnItsWay
<1>10. After(draft', pasting) /\ \A m \in pasting : m <= struck'
  <2>1. \A m \in pasting : m <= struck /\ m \in Nat
    BY <1>1 DEF Ordered
  <2>2. After(k, pasting)
    BY <1>1, <1>2, <2>1, Numbers DEF After, Fresh
  <2>3. After(draft, pasting)
    BY DEF Ordered
  <2>4. After(draft \o k, pasting)
    BY ONLY <1>1, <1>2, <2>2, <2>3, JoinedAround
  <2>5. \A m \in pasting : m <= struck'
    BY <1>1, <1>3, <2>1
  <2> QED BY <1>2, <2>4, <2>5
<1> QED BY <1>4, <1>7, <1>8, <1>9, <1>10, Afterwards DEF OrderedAfter, Ordered

LEMMA ConsoleKeepsOrder ==
    ASSUME ControlsInv, Ordered, ~lapped', ~again', UNCHANGED desktopVars,
           \/ Write \/ SubmitDraft \/ QuickAction \/ CodexComesAndGoes
           \/ \E p \in posts : PostTerminalInput(p) \/ PostConsoleSend(p) \/ InputAnswered(p) \/ GiveUp(p)
    PROVE  Ordered'
<1> DEFINE k == <<Key(struck + 1, FALSE)>>
<1>0. struck \in Nat /\ arrived \in Seq(Keystroke) /\ draft \in Seq(Keystroke)
  BY DEF ControlsInv, TypingTypes
<1>1. k \in Seq(Keystroke) /\ Fresh(k, struck, struck + 1)
  <2>1. struck + 1 \in Nat /\ struck < struck + 1
    BY <1>0
  <2> QED BY <1>0, <2>1, Keys, OneFresh
<1>2. UNCHANGED <<waiting, online, pasting>>
  BY DEF desktopVars
<1>3. /\ UpTo(arrived, struck) /\ UpTo(draft, struck) /\ Increasing(draft)
      /\ \A p \in posts : sending \/ p.stage = "late"
  BY DEF Ordered
<1>11. ASSUME NEW a, NEW laps, ~sending, SendPieces(<<a>>, laps) PROVE posts = {}
  <2>1. <<a>> # <<>>
    OBVIOUS
  <2>2. \A p \in posts : p.stage # "late"
    BY ONLY <1>11, <2>1, ~lapped', PiecesLap
  <2> QED BY <1>3, <1>11, <2>2
<1> HIDE DEF k
<1>4. CASE Write
  BY <1>2, <1>4, WritingKeepsOrder DEF Write, OnConsole, Type, Unsubmitted
<1>5. CASE SubmitDraft
  <2>1. /\ UNCHANGED <<device, draft, arrived, struck>> /\ SendPieces(<<draft>>, FALSE) /\ ~sending
        /\ draft # <<>> /\ device = "console" /\ ToSet(draft) \cap ToSet(arrived) = {}
    BY <1>5 DEF SubmitDraft, Unsubmitted, OnConsole
  <2>2. Below(arrived, draft)
    BY <2>1 DEF Ordered, Meet
  <2>3. Meet(draft, draft)
    <3>1. 1 \in DOMAIN draft
      BY <1>0, <2>1
    <3> QED BY <3>1 DEF Meet, ToSet
  <2>4. posts = {}
    BY <1>11, <2>1
  <2>5. struck' \in Nat /\ struck <= struck' /\ UpTo(draft, struck') /\ device # "desktop"
    BY <1>0, <1>3, <2>1
  <2> QED BY <1>0, <1>2, <1>3, <2>1, <2>2, <2>3, <2>4, <2>5, SendingKeepsOrder
<1>6. CASE QuickAction
  <2>1. /\ UNCHANGED <<device, draft, arrived>> /\ struck' = struck + 1 /\ ~sending
        /\ SendPieces(<<k>>, draft # <<>>) /\ device = "console"
    BY <1>6 DEF QuickAction, Unsubmitted, OnConsole, Type, k
  <2>4. draft = <<>>
    BY ONLY <2>1, ~lapped', PiecesLap
  <2>5. posts = {}
    BY <1>11, <2>1
  <2>2. struck' \in Nat /\ struck <= struck'
    BY <1>0, <2>1
  <2>3. Increasing(k) /\ UpTo(k, struck') /\ Below(arrived, k) /\ Below(k, draft)
    BY <1>0, <1>1, <1>3, <2>1, <2>2, <2>4, FreshOnes, Empty
  <2> QED BY <1>1, <1>2, <1>3, <2>1, <2>2, <2>3, <2>5, SendingKeepsOrder
<1>7. CASE CodexComesAndGoes
  BY <1>0, <1>2, <1>7, RestKeepsOrder DEF CodexComesAndGoes
<1>8. ASSUME NEW p \in posts, PostTerminalInput(p) \/ PostConsoleSend(p) PROVE Ordered'
  BY <1>8, ForwardKeepsOrder DEF PostTerminalInput, PostConsoleSend
<1>9. ASSUME NEW p \in posts, InputAnswered(p) PROVE Ordered'
  <2>1. /\ posts' = posts \ {p} /\ draft' \in {<<>>, draft}
        /\ UNCHANGED <<device, struck, arrived>>
    BY <1>9 DEF InputAnswered
  <2>2. posts' = {}
    BY <2>1 DEF Ordered
  <2>3. CASE draft' = draft
    BY <1>2, <2>1, <2>2, <2>3, Afterwards DEF OrderedAfter, Ordered
  <2>4. CASE draft' = <<>>
    BY <1>2, <2>1, <2>2, <2>4, Empty, Afterwards DEF OrderedAfter, Ordered
  <2> QED BY <2>1, <2>3, <2>4
<1>10. ASSUME NEW p \in posts, GiveUp(p) PROVE Ordered'
  <2>1. /\ p.stage = "sent" /\ AnswerPost(p, "late")
        /\ UNCHANGED <<device, struck, draft, arrived>>
    BY <1>10 DEF GiveUp
  <2>2. p \in Posted /\ posts \ {p} = {} /\ OnItsWay(p.keys)
    BY <2>1 DEF Ordered, ControlsInv, Numbered, Unanswered
  <2>3. \A q \in posts' : q.stage = "late" /\ q.keys = p.keys
    BY <2>1, <2>2 DEF AnswerPost, Posted
  <2>4. \A q, r \in posts' : q = r
    BY <2>1, <2>2 DEF AnswerPost
  <2>5. device # "desktop"
    BY DEF Ordered
  <2> QED BY <1>2, <2>1, <2>2, <2>3, <2>4, <2>5, Afterwards DEF OrderedAfter, Ordered, OnItsWay
<1> QED BY <1>4, <1>5, <1>6, <1>7, <1>8, <1>9, <1>10

LEMMA DesktopKeepsOrder ==
    ASSUME ControlsInv, Ordered, ~lapped',
           \/ WriteDraft \/ SubmitComposer \/ HandleControl \/ LinkChanges
           \/ PressPaste \/ \E n \in pasting : ClipboardRead(n)
    PROVE  Ordered'
<1> DEFINE k == <<Key(struck + 1, FALSE)>>
<1>0. /\ struck \in Nat /\ arrived \in Seq(Keystroke) /\ draft \in Seq(Keystroke)
      /\ waiting \in Seq(Keystroke) /\ pasting \subseteq Nat
  BY DEF ControlsInv, TypingTypes
<1>1. k \in Seq(Keystroke) /\ Fresh(k, struck, struck + 1)
  <2>1. struck + 1 \in Nat /\ struck < struck + 1
    BY <1>0
  <2> QED BY <1>0, <2>1, Keys, OneFresh
<1>2. device = "desktop" /\ posts = {}
  <2>1. device = "desktop"
    BY DEF WriteDraft, SubmitComposer, HandleControl, LinkChanges, PressPaste, ClipboardRead, OnDesktop,
           Ordered
  <2> QED BY <2>1 DEF Ordered
<1>3. Below(arrived, draft)
  BY <1>2 DEF Ordered
<1> HIDE DEF k
\* Keys that follow what was sent before.
<1>4. ASSUME NEW s \in Seq(Keystroke), EnqueueOrSend(s), struck' \in Nat, struck <= struck',
             draft' \in Seq(Keystroke),
             Increasing(s), UpTo(s, struck'), Below(arrived, s), Below(waiting, s),
             UNCHANGED <<device, posts>>,
             Increasing(draft'), UpTo(draft', struck'), Below(s, draft'), Below(arrived, draft'),
             Below(waiting, draft'), After(draft', pasting'),
             pasting' \subseteq pasting, Before(s, pasting')
      PROVE  Ordered'
  <2>1. UpTo(arrived, struck') /\ UpTo(waiting, struck')
    BY <1>0, <1>4, Later DEF Ordered
  <2>2. /\ Increasing(arrived \o s) /\ UpTo(arrived \o s, struck')
        /\ Increasing(waiting \o s) /\ UpTo(waiting \o s, struck')
        /\ Below(arrived, waiting \o s)
    BY <1>0, <1>4, <2>1, JoinedOrder DEF Ordered
  <2>5. /\ Before(arrived, pasting') /\ Before(waiting, pasting')
        /\ \A m \in pasting' : m <= struck'
    <3>1. Before(arrived, pasting) /\ Before(waiting, pasting) /\ \A m \in pasting : m <= struck
      BY DEF Ordered
    <3>2. Before(arrived, pasting') /\ Before(waiting, pasting')
      BY ONLY <1>4, <3>1 DEF Before
    <3>3. \A m \in pasting' : m \in Nat /\ m <= struck
      BY <1>0, <1>4, <3>1
    <3>4. \A m \in pasting' : m <= struck'
      BY ONLY <1>0, <1>4, <3>3
    <3> QED BY ONLY <3>2, <3>4
  <2>6. Before(arrived \o s, pasting') /\ Before(waiting \o s, pasting')
    BY ONLY <1>0, <1>4, <2>5, JoinedAround
  <2>7. Below(arrived \o s, draft') /\ Below(waiting \o s, draft')
    <3>1. \A r \in Seq(Keystroke) : /\ Below(arrived, r) /\ Below(s, r) => Below(arrived \o s, r)
                                    /\ Below(waiting, r) /\ Below(s, r) => Below(waiting \o s, r)
      BY ONLY <1>0, <1>4, JoinedOrder
    <3>2. draft' \in Seq(Keystroke) /\ Below(arrived, draft') /\ Below(waiting, draft') /\ Below(s, draft')
      BY ONLY <1>4
    <3> QED BY ONLY <3>1, <3>2, Zenon
  <2>3. CASE online
    <3>1. /\ arrived' \in {arrived, arrived \o s} /\ waiting' = waiting /\ waiting = <<>>
          /\ online' = online
      BY <1>4, <2>3 DEF EnqueueOrSend, Ordered
    <3>2. Increasing(arrived') /\ UpTo(arrived', struck')
      BY <2>1, <2>2, <3>1 DEF Ordered
    <3> QED BY <1>2, <1>4, <2>5, <2>6, <2>7, <3>1, <3>2, Empty, Afterwards DEF OrderedAfter
  <2>4. CASE ~online
    <3>1. waiting' = waiting \o s /\ arrived' = arrived /\ online' = online
      BY <1>4, <2>4 DEF EnqueueOrSend
    <3> QED BY <1>2, <1>4, <2>1, <2>2, <2>4, <2>5, <2>6, <2>7, <3>1, Empty, Afterwards
            DEF OrderedAfter, Ordered
  <2> QED BY <2>3, <2>4
<1>5. CASE WriteDraft
  BY <1>2, <1>5, WritingKeepsOrder DEF WriteDraft, Type, Untaken, desktopVars
<1>6. CASE SubmitComposer
  <2>1. /\ UNCHANGED <<device, posts, struck>> /\ draft' = <<>> /\ EnqueueOrSend(draft)
        /\ pasting' = pasting /\ pasting = {}
    BY <1>6 DEF SubmitComposer, Untaken
  <2>2. /\ struck' \in Nat /\ struck <= struck' /\ Increasing(draft) /\ UpTo(draft, struck')
        /\ Below(waiting, draft) /\ draft' \in Seq(Keystroke)
    BY <1>0, <2>1 DEF Ordered
  <2> QED BY <1>0, <1>3, <1>4, <2>1, <2>2, Empty
<1>7. CASE HandleControl
  <2>1. /\ UNCHANGED <<device, posts>> /\ draft' = <<>> /\ struck' = struck + 1 /\ EnqueueOrSend(k)
        /\ pasting' = pasting /\ pasting = {}
    BY <1>7 DEF HandleControl, Untaken, Type, k
  <2>2. struck' \in Nat /\ struck <= struck'
    BY <1>0, <2>1
  <2>3. Increasing(k) /\ UpTo(k, struck') /\ Below(arrived, k) /\ Below(waiting, k)
    <3>1. UpTo(arrived, struck) /\ UpTo(waiting, struck)
      BY DEF Ordered
    <3> QED BY <1>0, <1>1, <2>1, <2>2, <3>1, FreshOnes
  <2>4. draft' \in Seq(Keystroke)
    BY <2>1
  <2> QED BY <1>1, <1>4, <2>1, <2>2, <2>3, <2>4, Empty
<1>8. CASE LinkChanges
  <2>1. UNCHANGED <<device, posts, struck, draft, sending, pasting>>
    BY <1>8 DEF LinkChanges, Untaken
  <2>2. CASE online
    <3>1. UNCHANGED <<arrived, waiting>> /\ ~online'
      BY <1>8, <2>2 DEF LinkChanges
    <3> QED BY <1>2, <2>1, <3>1, Afterwards DEF OrderedAfter, Ordered
  <2>3. CASE ~online
    <3>1. PICK n \in 0..Len(waiting) : arrived' = arrived \o SubSeq(waiting, 1, n) /\ waiting' = <<>>
      BY <1>8, <2>3 DEF LinkChanges
    <3> DEFINE s == SubSeq(waiting, 1, n)
    <3>2. /\ s \in Seq(Keystroke)
          /\ \A i \in DOMAIN s : i \in DOMAIN waiting /\ s[i] = waiting[i]
      BY <1>0, Prefix
    <3> HIDE DEF s
    <3>3. Increasing(s) /\ UpTo(s, struck) /\ Below(arrived, s) /\ Below(s, draft)
      BY <3>2 DEF Ordered, Increasing, UpTo, Below
    <3>4. /\ Increasing(arrived \o s) /\ UpTo(arrived \o s, struck) /\ Below(arrived \o s, draft)
      BY <1>0, <1>3, <3>2, <3>3, JoinedOrder DEF Ordered
    <3>5. arrived' = arrived \o s
      BY <3>1 DEF s
    <3>6. Before(arrived \o s, pasting)
      <4>1. Before(arrived, pasting) /\ Before(waiting, pasting)
        BY DEF Ordered
      <4>2. Before(s, pasting)
        BY ONLY <3>2, <4>1 DEF Before
      <4> QED BY ONLY <1>0, <3>2, <4>1, <4>2, JoinedAround
    <3> QED BY <1>2, <2>1, <3>1, <3>4, <3>5, <3>6, Empty, Afterwards DEF OrderedAfter, Ordered
  <2> QED BY <2>2, <2>3
<1>9. CASE PressPaste
  <2>1. /\ UNCHANGED <<device, posts, sending, arrived, waiting, online, draft>> /\ struck' = struck + 1
        /\ pasting' = pasting \cup {struck + 1} /\ draft = <<>>
    BY <1>9 DEF PressPaste, Untaken, Type
  <2>2. UpTo(arrived, struck) /\ UpTo(waiting, struck) /\ struck' \in Nat /\ struck <= struck'
    BY <1>0, <2>1 DEF Ordered
  <2>3. UpTo(arrived, struck') /\ UpTo(waiting, struck') /\ \A m \in pasting' : m <= struck'
    BY <1>0, <2>1, <2>2, Later DEF Ordered
  <2>4. Before(arrived, pasting') /\ Before(waiting, pasting')
    <3>1. ASSUME NEW s \in Seq(Keystroke), UpTo(s, struck), Before(s, pasting)
          PROVE  Before(s, pasting')
      <4>1. \A i \in DOMAIN s : s[i].nr \in Nat /\ s[i].nr <= struck
        BY <3>1, Numbers DEF UpTo
      <4>2. \A i \in DOMAIN s : s[i].nr < struck + 1
        BY ONLY <1>0, <4>1
      <4> QED BY ONLY <2>1, <3>1, <4>2 DEF Before
    <3>2. Before(arrived, pasting) /\ Before(waiting, pasting)
      BY DEF Ordered
    <3> QED BY <1>0, <2>2, <3>1, <3>2
  <2> QED BY <1>2, <2>1, <2>3, <2>4, Empty, Afterwards DEF OrderedAfter, Ordered
<1>10. ASSUME NEW n \in pasting, ClipboardRead(n) PROVE Ordered'
  <2>1. /\ UNCHANGED <<device, posts, sending, struck, draft>> /\ pasting' = pasting \ {n}
    BY <1>10 DEF ClipboardRead, Untaken
  <2>2. CASE UNCHANGED <<posted, arrived, online, waiting>>
    BY <1>2, <2>1, <2>2, Afterwards DEF OrderedAfter, Ordered, Before, After
  <2>3. CASE EnqueueOrSend(<<Key(n, FALSE)>>) /\ lapped' = (lapped \/ \E m \in pasting' : m < n)
    <3> DEFINE s == <<Key(n, FALSE)>>
               key == Key(n, FALSE)
    <3>1. n \in Nat /\ n <= struck /\ \A m \in pasting : m \in Nat
      BY <1>0 DEF Ordered
    <3>2. s \in Seq(Keystroke) /\ key.nr = n
      BY <3>1, Keys
    <3> HIDE DEF key
    <3>3. DOMAIN s = {1} /\ s[1] = key
      BY DEF key
    <3> HIDE DEF s
    <3>4. \A m \in pasting' : n < m
      <4>1. ~(\E m \in pasting' : m < n)
        BY ONLY <2>3, ~lapped', Zenon
      <4>2. \A m \in pasting' : m \in Nat /\ m # n
        BY <2>1, <3>1
      <4> QED BY ONLY <3>1, <4>1, <4>2
    <3>5. /\ Increasing(s) /\ UpTo(s, struck) /\ Below(arrived, s) /\ Below(waiting, s)
          /\ Below(s, draft) /\ Before(s, pasting')
      BY <3>1, <3>2, <3>3, <3>4 DEF Increasing, UpTo, Below, Before, Ordered, After
    <3>6. After(draft', pasting') /\ Increasing(draft') /\ UpTo(draft', struck') /\ Below(waiting, draft')
      BY <2>1 DEF Ordered, After
    <3>7. EnqueueOrSend(s) /\ struck' \in Nat /\ struck <= struck' /\ pasting' \subseteq pasting
      BY <1>0, <2>1, <2>3 DEF s
    <3> QED BY <1>0, <1>3, <1>4, <2>1, <3>2, <3>5, <3>6, <3>7
  <2> QED BY <1>10, <2>2, <2>3 DEF ClipboardRead
<1> QED BY <1>5, <1>6, <1>7, <1>8, <1>9, <1>10

TypingInv == ControlsInv /\ (composing => device = "phone") /\ OrderInv

LEMMA TypingInvInit == TypingInit => TypingInv
<1> SUFFICES ASSUME TypingInit PROVE TypingInv
  OBVIOUS
<1>1. Ordered
  BY Empty DEF TypingInit, Ordered
<1> QED BY <1>1, ControlsInvInit DEF TypingInit, TypingInv, OrderInv

\* What the history notes, it keeps.
LEMMA HistoryIsKept ==
    ASSUME TypingNext
    PROVE  /\ lapped => lapped'
           /\ again => again'
           /\ device' = device /\ (composing' => composing \/ device = "phone")
<1>1. ASSUME NEW pieces, NEW laps, SendPieces(pieces, laps) PROVE lapped => lapped'
  BY ONLY <1>1, PiecesLap
<1>2. ASSUME NEW pieces, NEW laps, Emit(pieces, laps) PROVE lapped => lapped'
  BY ONLY <1>1, <1>2 DEF Emit
<1>3. ASSUME NEW keys, NEW plain, HandlePrintable(keys, plain) PROVE lapped => lapped'
  BY ONLY <1>2, <1>3 DEF HandlePrintable
<1>4. ASSUME NEW plain \in BOOLEAN, PressKey(plain) PROVE UNCHANGED <<device, again, composing>> /\ (lapped => lapped')
  BY <1>1, <1>3, <1>4 DEF PressKey, Elsewhere
<1>5. CASE PressCtrl \/ PressSpecial \/ Paste \/ PressButton
  <2>1. UNCHANGED <<device, again, composing>>
    BY <1>5 DEF PressCtrl, PressSpecial, Paste, PressButton, Elsewhere
  <2>2. lapped => lapped'
    BY <1>1, <1>2, <1>3, <1>5 DEF PressCtrl, PressSpecial, Paste, PressButton
  <2> QED BY <2>1, <2>2
<1>6. CASE EndComposition
  <2>1. UNCHANGED <<device, again>> /\ composing' = FALSE
    BY <1>6 DEF EndComposition
  <2>2. lapped => lapped'
    BY <1>3, <1>6 DEF EndComposition
  <2> QED BY <2>1, <2>2
<1>7. CASE StartComposition \/ ArmCtrl
  <2>1. UNCHANGED <<device, lapped, again>> /\ device = "phone"
    BY <1>7 DEF StartComposition, ArmCtrl, OnPhone
  <2> QED BY <2>1
<1>8. CASE Write \/ CodexComesAndGoes
  <2>1. UNCHANGED <<device, lapped, again, composing>>
    BY <1>8 DEF Write, CodexComesAndGoes, Unsubmitted
  <2> QED BY <2>1
<1>9. CASE SubmitDraft \/ QuickAction
  <2>1. UNCHANGED <<device, composing>>
    BY <1>9 DEF SubmitDraft, QuickAction, Unsubmitted
  <2>2. lapped => lapped'
    BY <1>1, <1>9 DEF SubmitDraft, QuickAction
  <2>3. again => again'
    BY <1>9, Zenon DEF SubmitDraft, QuickAction
  <2> QED BY <2>1, <2>2, <2>3
<1>10. ASSUME NEW p \in posts, PostTerminalInput(p) \/ PostConsoleSend(p) \/ InputAnswered(p) \/ GiveUp(p)
       PROVE  UNCHANGED <<device, composing, lapped, again>>
  BY <1>10 DEF PostTerminalInput, PostConsoleSend, InputAnswered, ForwardInput, GiveUp
<1>11. CASE \/ WriteDraft \/ SubmitComposer \/ HandleControl \/ LinkChanges
            \/ PressPaste \/ \E n \in pasting : ClipboardRead(n)
  <2>1. UNCHANGED <<device, composing, again>>
    BY <1>11 DEF WriteDraft, SubmitComposer, HandleControl, LinkChanges, PressPaste, ClipboardRead, Untaken
  <2>2. ASSUME NEW n, ClipboardRead(n) PROVE lapped => lapped'
    BY <2>2, Zenon DEF ClipboardRead
  <2>3. CASE WriteDraft \/ SubmitComposer \/ HandleControl \/ LinkChanges \/ PressPaste
    <3>1. lapped => lapped'
      BY <2>3, Zenon DEF WriteDraft, SubmitComposer, HandleControl, LinkChanges, PressPaste
    <3> QED BY <2>1, <3>1
  <2> QED BY <1>11, <2>1, <2>2, <2>3
<1>12. CASE PostsNext
  BY <1>4, <1>5, <1>6, <1>7, <1>8, <1>9, <1>10, <1>12 DEF PostsNext
<1> QED BY <1>11, <1>12 DEF TypingNext

LEMMA TypingStep == TypingInv /\ [TypingNext]_typingVars => TypingInv'
<1> SUFFICES ASSUME TypingInv, [TypingNext]_typingVars PROVE TypingInv'
  OBVIOUS
<1>1. ControlsInv /\ ControlsInv' /\ (composing => device = "phone")
  BY ControlsStep DEF TypingInv
<1>2. CASE UNCHANGED typingVars
  BY <1>1, <1>2 DEF typingVars, postVars, desktopVars, TypingInv, OrderInv, OrderedAfter, Ordered, OnItsWay
<1>3. CASE TypingNext
  <2>1. /\ composing' => device' = "phone"
        /\ lapped => lapped'
        /\ again => again'
    BY <1>1, <1>3, HistoryIsKept
  <2>2. ASSUME ~lapped', ~again' PROVE Ordered'
    <3>1. Ordered
      BY <2>1, <2>2 DEF TypingInv, OrderInv
    <3>2. CASE PostsNext /\ UNCHANGED desktopVars
      <4>1. CASE \/ \E plain \in BOOLEAN : PressKey(plain)
                 \/ PressCtrl \/ PressSpecial \/ Paste \/ StartComposition
                 \/ EndComposition \/ ArmCtrl \/ PressButton
        <5>1. EndComposition => device = "phone"
          BY <1>1 DEF EndComposition
        <5> QED BY <1>1, <2>2, <3>1, <3>2, <4>1, <5>1, PhoneKeepsOrder
      <4>2. CASE \/ Write \/ SubmitDraft \/ QuickAction \/ CodexComesAndGoes
                 \/ \E p \in posts : PostTerminalInput(p) \/ PostConsoleSend(p) \/ InputAnswered(p)
                                     \/ GiveUp(p)
        BY <1>1, <2>2, <3>1, <3>2, <4>2, ConsoleKeepsOrder
      <4> QED BY <3>2, <4>1, <4>2 DEF PostsNext
    <3>3. CASE \/ WriteDraft \/ SubmitComposer \/ HandleControl \/ LinkChanges
               \/ PressPaste \/ \E n \in pasting : ClipboardRead(n)
      BY <1>1, <2>2, <3>1, <3>3, DesktopKeepsOrder
    <3> QED BY <1>3, <3>2, <3>3 DEF TypingNext
  <2> QED BY <1>1, <2>1, <2>2 DEF TypingInv, OrderInv
<1> QED BY <1>2, <1>3

LEMMA TypingMoves == [Next]_vars => [TypingNext]_typingVars
BY DEF Next, vars, OnUsers, OnRequests, OnLists, OnFilters, OnOverview, OnSignIn, OnAccess, OnTyping,
       terminalVars

\* However many posts fail, and whatever is typed, pasted, armed and sent on the pages
\* of the terminal, its keys arrive at most once and in the order in which they were
\* typed (emit, handlePrintable, handleSubmit, submitDraft and their posts), unless
\* input was sent while other input was on its way: several pieces for one text, a
\* button before the draft or before the answer to a post, anything while a post that
\* was given up is under way or a page waits for the clipboard; or a draft was sent
\* again. And Ctrl works for at most one key.
THEOREM KeysArriveOnce == Spec => []TypedOnce
<1>1. Init => TypingInv
  BY TypingInvInit DEF Init
<1>2. TypingInv /\ [Next]_vars => TypingInv'
  BY TypingStep, TypingMoves
<1>3. TypingInv => TypedOnce
  <2> SUFFICES ASSUME TypingInv PROVE TypedOnce
    OBVIOUS
  <2>1. CtrlKeys = Controls(arrived)
    BY DEF CtrlKeys, Controls
  <2>2. /\ Cardinality(ControlPosts(posts)) \in Nat
        /\ Cardinality(Controls(arrived)) \in Nat
    BY FS_Subset, FS_CardinalityType, JoinedControls
       DEF ControlPosts, Numbered, ControlsInv, TypingTypes, TypingInv
  <2>3. /\ Cardinality(Controls(arrived)) + Cardinality(ControlPosts(posts)) + One(armed) <= armings
        /\ armings \in Nat /\ One(armed) \in {0, 1}
    BY DEF TypingInv, ControlsInv, TypingTypes, One
  <2>4. Cardinality(CtrlKeys) <= armings
    BY <2>1, <2>2, <2>3
  <2> QED BY <2>4 DEF TypingInv, OrderInv, Ordered, TypedOnce
<1> QED BY <1>1, <1>2, <1>3, PTL DEF Spec

=============================================================================
