----------------------------- MODULE ImportReview -----------------------------
(***************************************************************************)
(* From the restore section of the users page to the page of the import    *)
(* review (app/app/import-review/page.js), in one browser tab: its session *)
(* storage holds the reports that were handed over. The review shows those *)
(* or, when there are none, or the user wants it, the reports that the     *)
(* backend makes of a backup of what there is (the "live backup"); and has *)
(* the user type a phrase that names the bundle.                           *)
(***************************************************************************)
EXTENDS RestorePlan, Sequences, SequencesExt

CONSTANTS
    MaxReviews      \* how often the review is opened or loaded (a bound)

VARIABLES
    at,             \* the page that is open
    handoff,        \* what session storage holds
    workspace,      \* what is reviewed
    answers,        \* the live backups on their way
    loading,        \* loading
    typed,          \* typedReviewValue: the bundle of the phrase, or NoBundle if blank
    issued,         \* the bundles named by the last packet, or issued (history)
    opened          \* how often the review has been opened or loaded

reviewVars == <<at, handoff, workspace, answers, loading, typed, issued, opened>>

\* The reports of a workspace, where they are from, and whether the restore section
\* was overtaken when it handed them over (history).
NoWorkspace == [dryRun |-> NoBundle, plan |-> NoBundle, from |-> "nowhere", mixed |-> FALSE]
Live(b) == [dryRun |-> b, plan |-> b, from |-> "live backup", mixed |-> FALSE]

OpenedOnce == opened < MaxReviews /\ opened' = opened + 1

-----------------------------------------------------------------------------
(* Loading. *)

ShowWorkspace(w) == workspace' = w /\ typed' = NoBundle

\* loadWorkspace: what was handed over is there at once; a live backup is asked for.
LoadWorkspace(h, forceLive) ==
    IF ~forceLive /\ h # NoWorkspace
    THEN ShowWorkspace(h) /\ loading' = FALSE /\ UNCHANGED answers
    ELSE /\ \E b \in Bundles : answers' = Append(answers, b)
         /\ loading' = TRUE /\ UNCHANGED <<workspace, typed>>

\* The page is opened anew: nothing on its way is waited for any more.
OpenReview(h) ==
    /\ at' = "review" /\ handoff' = h
    /\ typed' = NoBundle
    /\ IF h # NoWorkspace THEN workspace' = h /\ loading' = FALSE /\ answers' = <<>>
       ELSE /\ workspace' = NoWorkspace /\ loading' = TRUE
            /\ \E b \in Bundles : answers' = <<b>>

\* handleOpenImportReviewWorkspace
HandOver ==
    /\ at = "users" /\ HandsOver /\ OpenedOnce
    /\ OpenReview([dryRun |-> dryRun, plan |-> importPlan, from |-> "restore handoff",
                   mixed |-> overtaken])
    /\ UNCHANGED <<restoreVars, issued>>

\* By its address.
Visit ==
    /\ at = "users" /\ OpenedOnce
    /\ OpenReview(handoff)
    /\ UNCHANGED <<restoreVars, issued>>

\* "Refresh"
ReloadReview ==
    /\ at = "review" /\ ~loading /\ OpenedOnce
    /\ LoadWorkspace(handoff, FALSE)
    /\ UNCHANGED <<restoreVars, at, handoff, issued>>

\* handleUseLiveBackupWorkspace: the handoff is gone, even if the request fails.
UseLiveBackup ==
    /\ at = "review" /\ workspace # NoWorkspace /\ OpenedOnce
    /\ handoff' = NoWorkspace
    /\ LoadWorkspace(NoWorkspace, TRUE)
    /\ UNCHANGED <<restoreVars, at, issued>>

LiveArrives(i) ==
    /\ i \in DOMAIN answers /\ answers' = RemoveAt(answers, i)
    /\ ShowWorkspace(Live(answers[i])) /\ loading' = FALSE
    /\ UNCHANGED <<restoreVars, at, handoff, issued, opened>>

LiveFails(i) ==
    /\ i \in DOMAIN answers /\ answers' = RemoveAt(answers, i)
    /\ workspace' = NoWorkspace /\ loading' = FALSE
    /\ UNCHANGED <<restoreVars, at, handoff, typed, issued, opened>>

-----------------------------------------------------------------------------
(* What the user does there. *)

\* The phrase on the page, copied.
TypePhrase ==
    /\ at = "review" /\ workspace # NoWorkspace
    /\ typed' = workspace.plan
    /\ UNCHANGED <<restoreVars, at, handoff, workspace, answers, loading, issued, opened>>

\* What the files name: markdown, packets and trails name the bundle of the dry run
\* and the plan; the plan itself and its sections are files, too.
Packets(w) == {{w.dryRun, w.plan}, {w.plan}}

\* The buttons that download or copy one.
Download ==
    /\ at = "review" /\ workspace # NoWorkspace
    /\ \E names \in Packets(workspace) : issued' = [names |-> names, mixed |-> workspace.mixed]
    /\ UNCHANGED <<restoreVars, at, handoff, workspace, answers, loading, typed, opened>>

\* handleConfirmReviewAcknowledgement: who acknowledges has read the report of the dry
\* run, and typed the phrase of the plan.
Acknowledge ==
    /\ at = "review" /\ workspace # NoWorkspace /\ typed = workspace.plan
    /\ issued' = [names |-> {workspace.dryRun, typed}, mixed |-> workspace.mixed]
    /\ UNCHANGED <<restoreVars, at, handoff, workspace, answers, loading, typed, opened>>

\* "Restore workspace": the users page is opened anew, with an empty editor.
BackToUsers ==
    /\ at = "review"
    /\ at' = "users" /\ workspace' = NoWorkspace /\ answers' = <<>> /\ loading' = FALSE
    /\ typed' = NoBundle /\ bundleText' = NoBundle /\ asked' = NotAsked
    /\ dryRun' = NoBundle /\ importPlan' = NoBundle /\ overtaken' = FALSE
    /\ UNCHANGED <<handoff, issued, opened>>

ReviewInit ==
    /\ at = "users" /\ handoff = NoWorkspace /\ workspace = NoWorkspace /\ answers = <<>>
    /\ loading = FALSE /\ typed = NoBundle /\ issued = [names |-> {}, mixed |-> FALSE] /\ opened = 0

ReviewNext ==
    \/ at = "users" /\ RestoreNext /\ UNCHANGED reviewVars
    \/ HandOver \/ Visit \/ ReloadReview \/ UseLiveBackup
    \/ \E i \in DOMAIN answers : LiveArrives(i) \/ LiveFails(i)
    \/ TypePhrase \/ Download \/ Acknowledge \/ BackToUsers

-----------------------------------------------------------------------------
(* Properties. *)

\* What is handed over, reviewed and issued is one bundle: the two reports are
\* of the text that is in the editor when they are handed over, and the phrase the
\* user has typed is the one of the bundle that the review shows. (The editor is not
\* disabled while a report is on its way: a text that overtakes it is excluded, up
\* to the next change of the text. See the README.)
OneBundle ==
    /\ HandsOver /\ ~overtaken => {dryRun, importPlan} = {bundleText}
    /\ ~issued.mixed => Cardinality(issued.names) <= 1
    /\ typed # NoBundle /\ workspace # NoWorkspace => typed = workspace.plan

=============================================================================
