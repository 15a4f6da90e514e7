---------------------------- MODULE Frontend ----------------------------
(***************************************************************************)
(* A browser tab: the list of users, the restore section of that page and  *)
(* the import review, the inbox of upgrade requests, the saved views of    *)
(* either, which other tabs share, and their filters, all of an admin; the *)
(* page that every user starts from; the sign-in in several windows. And   *)
(* of the other frontend, of the Codex mobile terminal: its sign-in, and   *)
(* its input.                                                              *)
(***************************************************************************)
EXTENDS UserAdministration, UpgradeRequests, ImportReview, SavedViews, PageFilters, Overview,
        SignIn, TerminalAccess, TerminalInput

restorePages == <<restoreVars, reviewVars>>
terminalVars == <<accessVars, typingVars>>
vars == <<listingVars, adminVars, drafts, restorePages, viewVars, filtersVars, overviewVars,
          signInVars, terminalVars>>

Init ==
    /\ AdminInit /\ RequestsInit /\ RestoreInit /\ ReviewInit /\ ViewsInit /\ FiltersInit
    /\ OverviewInit /\ SignInInit /\ AccessInit /\ TypingInit
    /\ (audit => page = "views")
    /\ (page # "filters" => address = <<>>)
    /\ (page # "overview" => ~local /\ backend = CHOOSE b \in Backends : b.session)
    /\ (page # "signin" => ~must)
    /\ (page # "access" => secret = 0)
    /\ (page # "typing" => device = "phone")

listsVars == <<listingVars, adminVars, drafts>>
savedVars == <<viewVars, filtersVars>>
OnLists(A) ==
    A /\ UNCHANGED <<restorePages, savedVars, overviewVars, signInVars, terminalVars>>
OnUsers(A) == page = "users" /\ OnLists(A) /\ UNCHANGED drafts
OnRequests(A) == page = "requests" /\ OnLists(A)
OnFilters(A) ==
    /\ page = "filters" /\ A
    /\ UNCHANGED <<listsVars, restorePages, viewVars, overviewVars, signInVars, terminalVars>>
OnOverview(A) ==
    /\ page = "overview" /\ A
    /\ UNCHANGED <<listsVars, restorePages, savedVars, signInVars, terminalVars>>
OnSignIn(A) ==
    /\ page = "signin" /\ A
    /\ UNCHANGED <<listsVars, restorePages, savedVars, overviewVars, terminalVars>>
frontendVars == <<listsVars, restorePages, savedVars, overviewVars, signInVars>>
OnAccess(A) == page = "access" /\ A /\ UNCHANGED <<frontendVars, typingVars>>
OnTyping(A) == page = "typing" /\ A /\ UNCHANGED <<frontendVars, accessVars>>

Next ==
    \/ OnUsers(UsersNext) \/ OnRequests(RequestsNext)
    \/ OnFilters(FiltersNext) \/ OnOverview(OverviewNext) \/ OnSignIn(SignInNext)
    \/ /\ page = "restore" /\ ReviewNext
       /\ UNCHANGED <<listsVars, savedVars, overviewVars, signInVars, terminalVars>>
    \/ /\ page = "views" /\ ViewsNext
       /\ UNCHANGED <<listsVars, restorePages, filtersVars, overviewVars, signInVars,
                      terminalVars>>
    \/ OnAccess(AccessNext) \/ OnTyping(TypingNext)

Spec == Init /\ [][Next]_vars

\* Requests and GETs are answered some time, and in the end the backend serves every
\* PATCH; the user and others owe nothing.
Answers ==
    /\ WF_vars(OnUsers(\E c \in calls : ServePatch(c) /\ Unnoticed(c)))
    /\ WF_vars(OnUsers(\E c \in calls : c.op = "bulk" /\ UserDone(c)))
    /\ WF_vars(OnUsers(\E c \in calls : c.op = "bulk" /\ UserRefused(c)))
    /\ WF_vars(OnUsers(UsersAnswered(1)))
    /\ WF_vars(OnRequests((\E c \in calls : ServePatch(c) /\ Unnoticed(c)) /\ UNCHANGED drafts))
    /\ WF_vars(OnRequests(\E c \in calls : c.op = "bulk" /\ RequestDone(c)))
    /\ WF_vars(OnRequests(\E c \in calls : c.op = "bulk" /\ RequestRefused(c)))

\* So are those of the start page, which the interval refreshes again and again.
Refreshed ==
    /\ WF_vars(OnOverview(Refresh))
    /\ WF_vars(OnOverview(UserArrives(1))) /\ WF_vars(OnOverview(UserFails(1)))
    /\ \A k \in Lists : WF_vars(OnOverview(ListArrives(1, k)))
    /\ \A k \in Lists : WF_vars(OnOverview(ListRefused(1, k)))

\* The windows of the browser: answers come, and timers fire.
Browsers ==
    /\ WF_vars(OnSignIn(\E r \in requests : ServeForm(r) \/ ServeRequest(r)))
    /\ WF_vars(OnSignIn(\E r \in requests : Arrives(r)))
    /\ WF_vars(OnSignIn(\E t \in Windows : TimerFires(t)))

\* A text settles, and a router.replace is carried out.
Addresses == WF_vars(OnFilters(TextSettles)) /\ WF_vars(OnFilters(AddressArrives))

\* Windows of the terminal ask for their websocket and their snapshot again and again.
Terminals ==
    \A t \in Screens : WF_vars(OnAccess(Upgrade(t))) /\ WF_vars(OnAccess(GetConsole(t)))

FairSpec == Spec /\ Answers /\ Refreshed /\ Browsers /\ Addresses /\ Terminals

-----------------------------------------------------------------------------
(* Properties. *)

\* The types of the state; and only rows that are listed are selected, so that a bulk
\* change starts with rows the admin sees, whatever lists have arrived meanwhile.
AdminTypeOK ==
    /\ table \in [Rows -> Contents \cup {NoRow}] /\ list \in [Rows -> Contents \cup {NoRow}]
    /\ drafts \in [Rows -> Contents \cup {NoRow}]
    /\ filter \in {"all"} \cup States /\ selected \subseteq Listed
    /\ \A c \in calls :
        c.op \in {"patch", "bulk"} /\ c.stage = "sent" => c.row \in Rows /\ c.value \in Patches
    /\ stored \subseteq View /\ \A t \in Tabs : views[t] \subseteq View

\* Each page shows what the server has, for the filters that it shows, once nothing is
\* under way.
ShowsWhatItSaved ==
    /\ page = "users" => ShowsUsers
    /\ page = "requests" => ShowsRequests
    /\ page = "filters" => ShowsFiltered

\* Once the user has done what there is to do, every page comes to rest: a bulk change,
\* which disables the whole page, ends, whatever the backend refuses; windows are not
\* sent to and fro between the sign-in and the workspace, whatever has become of their
\* session; and windows of the terminal get their websockets, with every token of the
\* secret that the bridge has, whenever the two processes were restarted; and the address
\* of a page leads back to its filters.
ComesToRest ==
    <>[](/\ page \in {"users", "requests"} => ~Busy("bulk")
         /\ page = "filters" => AddressFollows
         /\ page = "signin" => AtRest
         /\ page = "access" => AllLetIn)

\* The start page ends up with the right first step, and one that is not disabled,
\* unless the session ends, whatever order the answers of overlapping refreshes
\* arrive in, and whatever summary and lists they come from.
OverviewSettles ==
    <>[](page = "overview" =>
            \/ left \/ ~backend.session
            \/ Primary = {FirstThingToDo(backend)} /\ Primary \cap Blocked = {})

=============================================================================
