---------------------------- MODULE TerminalAccess ----------------------------
(***************************************************************************)
(* The sign-in of the Codex mobile terminal: windows of one browser, whose *)
(* cookie carries a token that the web app signs with a secret and that    *)
(* nobody stores. The web app (apps/web) serves the pages and forwards     *)
(* their requests; the bridge (server) accepts their websockets. Each was  *)
(* started with the secret that the environment had then, and checks       *)
(* tokens with it; the middleware only looks whether there is one.         *)
(***************************************************************************)
EXTENDS Naturals

CONSTANTS
    Screens,        \* the windows
    MaxSecrets,     \* how many secrets the environment has had in the end, and
    MaxSteps        \* how much the user does (bounds)

ASSUME AccessAssumption == MaxSecrets \in Nat \ {0} /\ MaxSteps \in Nat

VARIABLES
    token,          \* the cookie: the secret that has signed it, or 0
    lasting,        \* whether the cookie outlives the browser
    secret,         \* WEB_TERMINAL_SESSION_SECRET in the environment, 0 if it is not set,
    web, bridge,    \* and in the two processes
    screens,        \* what each window shows
    signIns,        \* the sign-ins and sign-outs under way
    steps           \* how much the user has done

accessVars == <<token, lasting, secret, web, bridge, screens, signIns, steps>>

TerminalPages == {"/terminal", "/console"}

\* A window: its page; "next", what its sign-in form leads to; whether it has a
\* websocket, and whether its last request was refused (401); and "kept", the page that
\* the sign-in keeps the user from (history).
Screen(p, next) == [at |-> p, next |-> next, live |-> FALSE, refused |-> FALSE, kept |-> p]

-----------------------------------------------------------------------------
(* Tokens. *)

\* createSessionToken and verifySessionToken of the web app.
createSessionToken == web
isAuthenticatedRequest == token # 0 /\ token = web

\* isAuthorizedCookie of the bridge.
isAuthorizedCookie == token # 0 /\ token = bridge

\* looksLikeSignedSession
LooksSigned == token # 0

\* The middleware sends to the sign-in, with the page to come back to.
Open(p) ==
    IF p \in TerminalPages /\ ~LooksSigned
    THEN [Screen("/login", p) EXCEPT !.kept = p]
    ELSE Screen(p, "/terminal")

-----------------------------------------------------------------------------
(* The user. *)

Awaits(t) == \E r \in signIns : r.screen = t
Step(t) == steps < MaxSteps /\ steps' = steps + 1 /\ ~Awaits(t)
Shows(t, s) == screens' = [screens EXCEPT ![t] = s]

\* A link of the first page or of another, or an address.
GoTo(t, p) ==
    /\ Step(t) /\ p # screens[t].at
    /\ Shows(t, Open(p))
    /\ UNCHANGED <<token, lasting, secret, web, bridge, signIns>>

\* The form of the sign-in; and POST /logout, which no page offers.
SendForm(t, kind, remember) ==
    /\ Step(t)
    /\ kind = "sign-out" \/ screens[t].at = "/login"
    /\ signIns' = signIns \cup
        {[screen |-> t, kind |-> kind, remember |-> remember, stage |-> "sent", token |-> 0]}
    /\ UNCHANGED <<token, lasting, secret, web, bridge, screens>>

\* The browser is closed, and restores its windows later.
RestartBrowser ==
    /\ steps < MaxSteps /\ steps' = steps + 1
    /\ token' = IF lasting THEN token ELSE 0
    /\ screens' = [t \in Screens |->
        IF screens[t].at \in TerminalPages /\ token' = 0
        THEN [Screen("/login", screens[t].at) EXCEPT !.kept = screens[t].at]
        ELSE [screens[t] EXCEPT !.live = FALSE, !.refused = FALSE]]
    /\ signIns' = {}
    /\ UNCHANGED <<lasting, secret, web, bridge>>

-----------------------------------------------------------------------------
(* Sign-in and sign-out. *)

\* POST of login/submit. "right" and "wrong" is what the user has typed; "blank" is
\* what the trim leaves of it. Without a secret, name or password nobody signs in.
SubmitSignIn(r) ==
    /\ r.stage = "sent" /\ r.kind # "sign-out"
    /\ signIns' = (signIns \ {r}) \cup
        {[r EXCEPT !.stage = IF web = 0 THEN "server" ELSE IF r.kind = "blank" THEN "missing"
                             ELSE IF r.kind = "wrong" THEN "invalid" ELSE "ok",
                   !.token = createSessionToken]}
    /\ UNCHANGED <<token, lasting, secret, web, bridge, screens, steps>>

\* Its answer: the page that the form leads to, or the form again. A blank form loses
\* its "next".
SignedInTo(r) ==
    /\ r.stage = "ok"
    /\ token' = r.token /\ lasting' = r.remember
    /\ Shows(r.screen, [Screen(screens[r.screen].next, "/terminal")
                            EXCEPT !.kept = screens[r.screen].kept])

\* Variant: the form leads to the terminal after any error.
AskForNothing(r) ==
    /\ r.stage \in {"server", "invalid", "missing"} /\ UNCHANGED <<token, lasting>>
    /\ Shows(r.screen, [screens[r.screen] EXCEPT !.next = "/terminal"])

AskAgain(r) ==
    /\ r.stage \in {"server", "invalid", "missing"} /\ UNCHANGED <<token, lasting>>
    /\ Shows(r.screen, IF r.stage = "missing" THEN Screen("/login", "/terminal")
                       ELSE screens[r.screen])

\* POST of logout.
SignedOut(r) ==
    /\ r.kind = "sign-out" /\ token' = 0
    /\ Shows(r.screen, Screen("/login", "/terminal")) /\ UNCHANGED lasting

SignInAnswered(r) ==
    /\ SignedInTo(r) \/ AskAgain(r) \/ SignedOut(r)
    /\ signIns' = signIns \ {r}
    /\ UNCHANGED <<secret, web, bridge, steps>>

-----------------------------------------------------------------------------
(* The requests of the pages; what the bridge does is in TerminalBridge. *)

\* A route of the web app: 401, or what the bridge answers, or 502 without an answer.
Forward(t) ==
    /\ Shows(t, [screens[t] EXCEPT !.refused = ~isAuthenticatedRequest])
    /\ UNCHANGED <<token, lasting, secret, web, bridge, signIns, steps>>

\* The console asks again and again, and so does the iPhone terminal.
GetConsole(t) == screens[t].at \in TerminalPages /\ Forward(t)
ConsoleSend(t) == screens[t].at = "/console" /\ Forward(t)
TerminalKeys(t) == screens[t].at = "/terminal" /\ Forward(t)
ChatGptLogin(t) == screens[t].at = "/terminal" /\ Forward(t)
SessionReset(t) == screens[t].at \in TerminalPages /\ Forward(t)

\* The websocket: asked for again and again, and accepted or not.
Upgrade(t) ==
    /\ screens[t].at \in TerminalPages /\ ~screens[t].live /\ isAuthorizedCookie
    /\ Shows(t, [screens[t] EXCEPT !.live = TRUE])
    /\ UNCHANGED <<token, lasting, secret, web, bridge, signIns, steps>>

-----------------------------------------------------------------------------
(* The operator. *)

NewSecret ==
    /\ secret < MaxSecrets /\ secret' = secret + 1
    /\ UNCHANGED <<token, lasting, web, bridge, screens, signIns, steps>>

RestartWeb ==
    /\ web # secret /\ web' = secret
    /\ signIns' = {r \in signIns : r.stage # "sent"}
    /\ UNCHANGED <<token, lasting, secret, bridge, screens, steps>>

RestartBridge ==
    /\ bridge # secret /\ bridge' = secret
    /\ screens' = [t \in Screens |-> [screens[t] EXCEPT !.live = FALSE]]
    /\ UNCHANGED <<token, lasting, secret, web, signIns, steps>>

AccessInit ==
    /\ token = 0 /\ lasting = FALSE
    /\ secret \in 0..1 /\ web = secret /\ bridge = secret
    /\ screens = [t \in Screens |-> Open("/")]
    /\ signIns = {} /\ steps = 0

AccessNext ==
    \/ \E t \in Screens :
        \/ \E p \in TerminalPages \cup {"/", "/login"} : GoTo(t, p)
        \/ \E kind \in {"right", "wrong", "blank", "sign-out"}, remember \in BOOLEAN :
                SendForm(t, kind, remember)
        \/ GetConsole(t) \/ ConsoleSend(t) \/ TerminalKeys(t) \/ ChatGptLogin(t) \/ SessionReset(t)
        \/ Upgrade(t)
    \/ RestartBrowser
    \/ \E r \in signIns : SubmitSignIn(r) \/ SignInAnswered(r)
    \/ NewSecret \/ RestartWeb \/ RestartBridge

-----------------------------------------------------------------------------
(* Properties. *)

\* Whoever was sent to the sign-in from a page of the terminal comes back to that page,
\* however often the sign-in was refused on the way, unless as blank, and whatever is
\* done in other windows; or goes elsewhere on purpose.
LeadsBack == \A t \in Screens :
    screens[t].at \in TerminalPages /\ screens[t].kept \in TerminalPages =>
        screens[t].at = screens[t].kept

\* A window of the terminal that the bridge would let in has its websocket, and a
\* console that the web app would answer is not refused.
AllLetIn == \A t \in Screens : screens[t].at \in TerminalPages =>
    /\ isAuthorizedCookie => screens[t].live
    /\ screens[t].at = "/console" /\ isAuthenticatedRequest => ~screens[t].refused

=============================================================================
