-------------------------------- MODULE SignIn --------------------------------
(***************************************************************************)
(* The windows of one browser on the pages around the workspace: sign-in,  *)
(* registration, plans, the change of the password. The windows share a    *)
(* cookie, which names a session that the backend may know no longer. The  *)
(* middleware looks at the cookie only; a page of the workspace asks the   *)
(* backend who the user is, and sends to the sign-in who is nobody.        *)
(*                                                                         *)
(* A link and router.replace keep the window's scripts running: requests   *)
(* and timers of a page outlive it. The submission of a form, and an       *)
(* address that is typed in, do not.                                       *)
(***************************************************************************)
EXTENDS Naturals

CONSTANTS
    Windows,
    SignUp,         \* publicSignupEnabled
    MaxMoves,       \* how many things the user does (a bound)
    MaxFaults       \* how often a session ends or a request is lost (a bound)

ASSUME SignInAssumption == SignUp \in BOOLEAN /\ MaxMoves \in Nat /\ MaxFaults \in Nat

VARIABLES
    cookie,         \* the session in the cookie of the browser, or NoSession
    live,           \* the sessions that the backend knows
    must,           \* must_change_password of the first admin, "owner"
    windows,        \* the page that each window shows, and for whom
    requests,       \* the requests under way
    moves, faults

signInVars == <<cookie, live, must, windows, requests, moves, faults>>

Users == {"owner", "guest"}
NoSession == [nr |-> 0, who |-> "nobody"]

\* The pages. The many pages of the workspace are two.
InsideApp == {"/app", "/app/server-review", "/change-password"}
Paths == InsideApp \cup {"/login", "/register", "/upgrade", "/review", "/commercial-license"}

\* A page before it has loaded anything.
Page(p, timer) == [at |-> p, user |-> "nobody", must |-> FALSE, timer |-> timer]

-----------------------------------------------------------------------------
(* Where links lead. *)

\* Variant: who has a cookie need not sign in.
PassOn(p) ==
    IF p \in {"/", "/login"} THEN IF cookie # NoSession THEN "/app" ELSE "/login"
    ELSE IF p \in InsideApp /\ cookie = NoSession THEN "/login" ELSE p

\* The page "/" is never shown.
middleware(p) ==
    IF p = "/" THEN IF cookie # NoSession THEN "/app" ELSE "/login"
    ELSE IF p \in InsideApp /\ cookie = NoSession THEN "/login" ELSE p

Footer == {"/", "/review", "/login"}
TrialLinks == {p \in {"/register"} : SignUp}
LoginLinks == TrialLinks \cup {"/upgrade", "/"}
RegisterLinks == {"/login"}
ReviewLinks == {"/", "/login", "/app", "/app/server-review"}
LicenseLinks == {"/upgrade", "/login", "/"}
UpgradeLinks(w) == {"/commercial-license"} \cup IF w.user = "nobody" THEN {"/", "/login"} ELSE {"/app"}

\* The bar above the pages of the workspace.
WorkspaceChrome == {"/app", "/app/server-review", "/change-password"}
BackLink(w) == {p \in {"/app"} : w.user # "nobody" /\ ~w.must}
\* What a page offers that cannot find out who the user is.
NoUserLinks(w) == {p \in {"/login", "/register", "/"} : w.user = "nobody"}

Links(w) ==
    IF w.at \in InsideApp
    THEN WorkspaceChrome \cup IF w.at = "/change-password" THEN BackLink(w) ELSE NoUserLinks(w)
    ELSE Footer \cup CASE w.at = "/login" -> LoginLinks
                       [] w.at = "/register" -> RegisterLinks
                       [] w.at = "/review" -> ReviewLinks
                       [] w.at = "/commercial-license" -> LicenseLinks
                       [] w.at = "/upgrade" -> UpgradeLinks(w)

-----------------------------------------------------------------------------
(* Windows and requests. *)

\* "by": whether the page that sent it is still there; "with": the cookie it took along.
Request(t, kind) ==
    [window |-> t, kind |-> kind, by |-> TRUE, with |-> cookie, stage |-> "sent",
     who |-> "nobody", must |-> FALSE]

Pending(t, kinds) == \E r \in requests : r.window = t /\ r.by /\ r.kind \in kinds
Forms == {"login", "demo", "register"}

Asks(t, p) ==
    IF p \in InsideApp THEN {Request(t, "me")}
    ELSE IF p = "/upgrade" THEN {Request(t, "plan")} ELSE {}

\* Window t opens a page, in a new document or by its scripts. ("rs": the requests.)
OpenDocument(t, p, rs) ==
    /\ windows' = [windows EXCEPT ![t] = Page(middleware(p), FALSE)]
    /\ requests' = {r \in rs : r.window # t} \cup Asks(t, middleware(p))

Replace(t, p, rs) ==
    IF middleware(p) = windows[t].at
    THEN requests' = rs /\ UNCHANGED windows
    ELSE /\ windows' = [windows EXCEPT ![t] = Page(middleware(p), @.timer)]
         /\ requests' = {[r EXCEPT !.by = @ /\ r.window # t] : r \in rs} \cup Asks(t, middleware(p))

\* What the user does; at first in a chosen window, for all are alike then.
Move(t) ==
    /\ moves < MaxMoves /\ moves' = moves + 1 /\ ~Pending(t, Forms)
    /\ moves = 0 => t = CHOOSE w \in Windows : TRUE
Fault == faults < MaxFaults /\ faults' = faults + 1

Follow(t, p) ==
    /\ Move(t) /\ p \in Links(windows[t]) \ {windows[t].at}
    /\ Replace(t, p, requests)
    /\ UNCHANGED <<cookie, live, must, faults>>

OpenAddress(t, p) ==
    /\ Move(t) /\ OpenDocument(t, p, requests)
    /\ UNCHANGED <<cookie, live, must, faults>>

\* The forms of the sign-in and the registration.
SubmitForm(t, kind) ==
    /\ Move(t)
    /\ \/ windows[t].at = "/register" /\ SignUp /\ kind = "register"
       \/ windows[t].at = "/login" /\ kind \in {"login", "demo"}
    /\ requests' = requests \cup {Request(t, kind)}
    /\ UNCHANGED <<cookie, live, must, windows, faults>>

\* handleSubmit of the plans and of the password, handleLogout: disabled meanwhile,
\* or not, but the user cannot tell.
Submit(t, kind) ==
    /\ Move(t) /\ ~Pending(t, {kind})
    /\ \/ kind = "upgrade" /\ windows[t].at = "/upgrade"
       \/ kind = "change" /\ windows[t].at = "/change-password" /\ windows[t].user # "nobody"
       \/ kind = "logout" /\ windows[t].at \in InsideApp
    /\ requests' = requests \cup {Request(t, kind)}
    /\ UNCHANGED <<cookie, live, must, windows, faults>>

-----------------------------------------------------------------------------
(* The backend. *)

\* A sign-in or a registration: the password is right, the name is free; or not.
ServeForm(r) ==
    /\ r.stage = "sent" /\ r.kind \in Forms
    /\ \/ LET who == IF r.kind = "login" THEN "owner" ELSE "guest"
              new == [nr |-> moves, who |-> who]
          IN  /\ new \notin live /\ live' = live \cup {new}
              /\ requests' = (requests \ {r}) \cup
                    {[r EXCEPT !.stage = "ok", !.with = new, !.who = who,
                               !.must = must /\ who = "owner"]}
       \/ requests' = (requests \ {r}) \cup {[r EXCEPT !.stage = "refused"]} /\ UNCHANGED live
    /\ UNCHANGED <<cookie, must, windows, moves, faults>>

\* A password that is wrong or not new is refused, like a session that is not known.
ServeRequest(r) ==
    /\ r.stage = "sent" /\ r.kind \notin Forms
    /\ LET known == r.with \in live \/ r.kind = "upgrade"
       IN  \/ /\ known
              /\ live' = live \ {s \in {r.with} : r.kind = "logout"}
              /\ must' = (must /\ ~(r.kind = "change" /\ r.with.who = "owner"))
              /\ requests' = (requests \ {r}) \cup
                    {[r EXCEPT !.stage = "ok", !.who = r.with.who,
                               !.must = must /\ r.with.who = "owner"]}
              /\ UNCHANGED faults
           \/ /\ IF known /\ r.kind # "change" THEN Fault ELSE UNCHANGED faults
              /\ requests' = (requests \ {r}) \cup {[r EXCEPT !.stage = "refused"]}
              /\ UNCHANGED <<live, must>>
    /\ UNCHANGED <<cookie, windows, moves>>

\* A session expires, or its user is deleted.
SessionEnds ==
    /\ Fault /\ \E s \in live : live' = live \ {s}
    /\ UNCHANGED <<cookie, must, windows, requests, moves>>

-----------------------------------------------------------------------------
(* Answers. *)

\* The redirect after the submission of a form brings the cookie, and opens page p.
SignedIn(r, p) ==
    /\ r.stage = "ok" /\ cookie' = r.with
    /\ windows' = [windows EXCEPT ![r.window] = Page(p, FALSE)]
    /\ requests' = {s \in requests : s.window # r.window} \cup
                        {[Request(r.window, "me") EXCEPT !.with = r.with]}
    /\ UNCHANGED <<live, must, moves, faults>>

AfterSignIn(r) == IF r.must THEN "/change-password" ELSE "/app"

\* POST of login/submit, login/demo and register/submit.
LoginArrives(r) == r.kind = "login" /\ SignedIn(r, AfterSignIn(r))
DemoArrives(r) == r.kind = "demo" /\ SignedIn(r, AfterSignIn(r))
RegisterArrives(r) == r.kind = "register" /\ SignedIn(r, "/app")

\* redirectWithError: the page of the form, again.
FormRefused(r) ==
    /\ r.kind \in Forms /\ r.stage = "refused"
    /\ OpenDocument(r.window, windows[r.window].at, requests)
    /\ UNCHANGED <<cookie, live, must, moves, faults>>

\* What a page knows of the user of an answer, if it is still there.
Known(r) ==
    IF r.by /\ r.stage = "ok"
    THEN [windows EXCEPT ![r.window].user = r.who, ![r.window].must = r.must] ELSE windows

\* checkAuth: the page is shown, or left; even by a page that is gone.
AuthChecked(r) ==
    /\ r.kind = "me" /\ r.stage \in {"ok", "refused"}
    /\ IF r.stage = "refused" THEN Replace(r.window, "/login", requests \ {r})
       ELSE requests' = requests \ {r} /\ windows' = Known(r)
    /\ UNCHANGED <<cookie, live, must, moves, faults>>

\* loadUser of the plans
PlanLoaded(r) ==
    /\ r.kind = "plan" /\ r.stage \in {"ok", "refused"}
    /\ requests' = requests \ {r} /\ windows' = Known(r)
    /\ UNCHANGED <<cookie, live, must, moves, faults>>

\* handleSubmit of the plans
UpgradeSent(r) ==
    /\ r.kind = "upgrade" /\ r.stage \in {"ok", "refused"}
    /\ requests' = requests \ {r}
    /\ UNCHANGED <<cookie, live, must, windows, moves, faults>>

\* handleSubmit of the password: a success sets a timer, which no page clears.
PasswordChanged(r) ==
    /\ r.kind = "change" /\ r.stage \in {"ok", "refused"}
    /\ requests' = requests \ {r}
    /\ windows' = [windows EXCEPT ![r.window].timer = @ \/ r.stage = "ok"]
    /\ UNCHANGED <<cookie, live, must, moves, faults>>

TimerFires(t) ==
    /\ windows[t].timer
    /\ LET q == middleware("/app")
       IN  /\ windows' = [windows EXCEPT ![t] =
                            IF q = @.at THEN [@ EXCEPT !.timer = FALSE] ELSE Page(q, FALSE)]
           /\ requests' = IF q = windows[t].at THEN requests
                          ELSE {[r EXCEPT !.by = @ /\ r.window # t] : r \in requests} \cup Asks(t, q)
    /\ UNCHANGED <<cookie, live, must, moves, faults>>

\* handleLogout: the cookie is cleared if the backend did; the page is left anyway.
LoggedOut(r) ==
    /\ r.kind = "logout" /\ r.stage \in {"ok", "refused"}
    /\ cookie' = IF r.stage = "ok" THEN NoSession ELSE cookie
    /\ windows' = [windows EXCEPT ![r.window] = Page("/login", @.timer)]
    /\ requests' = {[s EXCEPT !.by = @ /\ s.window # r.window] : s \in requests \ {r}}
    /\ UNCHANGED <<live, must, moves, faults>>

Arrives(r) ==
    \/ LoginArrives(r) \/ DemoArrives(r) \/ RegisterArrives(r) \/ FormRefused(r)
    \/ AuthChecked(r) \/ PlanLoaded(r) \/ UpgradeSent(r) \/ PasswordChanged(r) \/ LoggedOut(r)

SignInInit ==
    /\ cookie = NoSession /\ live = {} /\ must \in BOOLEAN
    /\ windows = [t \in Windows |-> Page("/login", FALSE)]
    /\ requests = {} /\ moves = 0 /\ faults = 0

SignInNext ==
    \/ \E t \in Windows, p \in Paths \cup {"/"} : Follow(t, p) \/ OpenAddress(t, p)
    \/ \E t \in Windows : TimerFires(t)
    \/ \E t \in Windows, kind \in Forms : SubmitForm(t, kind)
    \/ \E t \in Windows, kind \in {"upgrade", "change", "logout"} : Submit(t, kind)
    \/ \E r \in requests :
        ServeForm(r) \/ ServeRequest(r) \/ Arrives(r)
    \/ SessionEnds

-----------------------------------------------------------------------------
(* Properties. *)

\* A window is at rest if it shows a page that nothing is going to replace.
AtRest ==
    /\ requests = {}
    /\ \A t \in Windows : ~windows[t].timer /\ (windows[t].at \in InsideApp => windows[t].user # "nobody")

=============================================================================
