----------------------------- MODULE RestorePlan -----------------------------
(***************************************************************************)
(* The restore section of the users page (app/app/users/page.js): the      *)
(* admin pastes a backup bundle, has it validated, has an import plan      *)
(* built, and hands both reports to the page of the import review.         *)
(***************************************************************************)
EXTENDS Naturals

CONSTANTS
    Bundles,        \* texts that analyzeBackupBundleText finds ready
    NoBundle        \* an empty editor, or one with another text; no report

VARIABLES
    bundleText,     \* backupBundleText
    asked,          \* the report on its way (restoreLoading): its kind and bundle
    dryRun,         \* restoreDryRun: of which bundle
    importPlan,     \* restoreImportPlan: of which bundle
    overtaken       \* a report arrived after another text (history)

restoreVars == <<bundleText, asked, dryRun, importPlan, overtaken>>

NotAsked == [kind |-> "none", of |-> NoBundle]

\* Variant: the reports stay.
TextOnly(b) == bundleText' = b /\ UNCHANGED <<dryRun, importPlan>>

SetText(b) == bundleText' = b /\ dryRun' = NoBundle /\ importPlan' = NoBundle

\* The user types, loads a file or the sample, or clears the editor, at any time.
ChangeText(b) ==
    /\ b # bundleText /\ SetText(b)
    /\ overtaken' = (asked # NotAsked)
    /\ UNCHANGED asked

\* handleRunRestoreDryRun and handleBuildRestoreImportPlan
AskFor(kind) ==
    /\ asked = NotAsked /\ bundleText # NoBundle
    /\ asked' = [kind |-> kind, of |-> bundleText]
    /\ UNCHANGED <<bundleText, dryRun, importPlan, overtaken>>

ReportArrives ==
    /\ asked # NotAsked /\ asked' = NotAsked
    /\ IF asked.kind = "dry-run" THEN dryRun' = asked.of /\ importPlan' = NoBundle
       ELSE importPlan' = asked.of /\ UNCHANGED dryRun
    /\ UNCHANGED <<bundleText, overtaken>>

ReportFails ==
    /\ asked # NotAsked /\ asked' = NotAsked
    /\ IF asked.kind = "dry-run" THEN dryRun' = NoBundle /\ UNCHANGED importPlan
       ELSE importPlan' = NoBundle /\ UNCHANGED dryRun
    /\ UNCHANGED <<bundleText, overtaken>>

RestoreInit ==
    /\ bundleText = NoBundle /\ asked = NotAsked
    /\ dryRun = NoBundle /\ importPlan = NoBundle /\ overtaken = FALSE

RestoreNext ==
    \/ \E b \in Bundles \cup {NoBundle} : ChangeText(b)
    \/ AskFor("dry-run") \/ AskFor("import-plan")
    \/ ReportArrives \/ ReportFails

\* handleOpenImportReviewWorkspace hands over the two reports if there are both.
HandsOver == dryRun # NoBundle /\ importPlan # NoBundle

=============================================================================
