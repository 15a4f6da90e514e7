---------------------------- MODULE TerminalPage ----------------------------
(***************************************************************************)
(* A page of the Codex mobile terminal, with the bridge that serves it:    *)
(* the iPhone terminal (mobile-ios/useTerminalTransportIOS.js) or the      *)
(* console (console/ConsoleWorkspace.js). Both listen to one websocket,    *)
(* open another one some time after it is lost, and fetch snapshots of the *)
(* console; the iPhone terminal at the start and while it has no           *)
(* websocket, the console all the time. The third page, the desktop        *)
(* terminal, is in TerminalSurface, with the specification of all three.   *)
(*                                                                         *)
(* The browser runs one callback at a time. An animation frame that delays *)
(* output is a slower message here.                                        *)
(***************************************************************************)
EXTENDS TerminalBridge

CONSTANTS
    Pages,          \* the pages a user may open
    MaxFetches      \* the snapshots under way at a time, for each page (a bound)

ASSUME PageAssumption ==
    /\ Pages \subseteq {"console", "phone", "desktop"}
    /\ MaxFetches \in [Pages -> Nat \ {0}]

VARIABLES
    page,       \* the page that is open
    conn,       \* socketRef.current, or NoConn once it is lost
    link,       \* connectionState
    timer,      \* whether connect() is due: at the start, then by reconnectTimerRef
    polling,    \* whether a timer fetches snapshots
    requests,   \* how many GET /api/console are on their way
    answers,    \* the snapshots on their way back, or the answer to "Reset"
    shown       \* lines

pageVars == <<page, conn, link, timer, polling, requests, answers, shown>>

PollsAlways == page = "console"

\* What the page keeps of its output: as much as a snapshot holds.
Shown(s) == Newest(s, MaxSnapshot)

\* The websocket that the next "new WebSocket" returns: a new one, whichever.
Unused == {c \in Conns : sock[c] = "none"}
Opened == CHOOSE c \in Conns : sock[c] = "none"

-----------------------------------------------------------------------------
(* The page. *)

\* Variant: trusts the websocket.
ConnectStopsPolling ==
    /\ timer /\ Unused # {}
    /\ Ask(Opened)
    /\ conn' = Opened /\ link' = "connecting" /\ timer' = FALSE /\ polling' = FALSE
    /\ UNCHANGED <<page, requests, answers, shown>>

\* connect(); the iPhone terminal stops polling.
Connect ==
    /\ timer /\ Unused # {}
    /\ Ask(Opened)
    /\ conn' = Opened /\ link' = "connecting" /\ timer' = FALSE /\ polling' = PollsAlways
    /\ UNCHANGED <<page, requests, answers, shown>>

\* A message arrives; the "open" event comes with the first one.
Receive ==
    /\ conn # NoConn /\ inbox[conn] # <<>>
    /\ LET m == Head(inbox[conn])
       IN  /\ shown' = IF m.kind = "output" THEN Shown(Append(shown, m.chunk)) ELSE shown
           /\ link' = IF m.kind = "ready" THEN "connected"
                      ELSE IF m.kind = "exit" /\ PollsAlways THEN "reconnecting" ELSE link
    /\ inbox' = [inbox EXCEPT ![conn] = Tail(@)]
    /\ UNCHANGED <<session, pty, fed, screen, clients, sock, buffer,
                   page, conn, timer, polling, requests, answers>>

\* Variant: waits for the user to reload the page.
LoseForGood ==
    /\ conn # NoConn /\ Unused # {}
    /\ conn' = NoConn /\ link' = "reconnecting" /\ polling' = TRUE
    /\ UNCHANGED <<bridgeVars, page, timer, requests, answers, shown>>

\* The websocket closes or fails, or the heartbeat gives it up: schedule the
\* next connect() and poll. As many losses as there are connections (a bound).
Lose ==
    /\ conn # NoConn /\ Unused # {}
    /\ conn' = NoConn /\ link' = "reconnecting" /\ timer' = TRUE /\ polling' = TRUE
    /\ UNCHANGED <<bridgeVars, page, requests, answers, shown>>

\* The interval timer fires: fetchSnapshot, or refresh.
Poll ==
    /\ polling /\ requests + Len(answers) < MaxFetches[page]
    /\ requests' = requests + 1
    /\ UNCHANGED <<bridgeVars, page, conn, link, timer, polling, answers, shown>>

\* The bridge answers GET /api/console.
Serve ==
    /\ requests > 0 /\ requests' = requests - 1
    /\ GetConsole
    /\ answers' = Append(answers, [lines |-> Shown(SnapshotBuffer), active |-> TRUE])
    /\ UNCHANGED <<page, conn, link, timer, polling, shown>>

\* The bridge answers the "Reset" of the console, which then clears its lines.
ResetAnswered ==
    /\ PollsAlways /\ requests + Len(answers) < MaxFetches[page]
    /\ answers' = Append(answers, [lines |-> <<>>, active |-> FALSE])
    /\ UNCHANGED <<page, conn, link, timer, polling, requests, shown>>

\* An answer arrives, perhaps after a later one. A snapshot is always of an
\* active session: getConsoleSnapshot has just ensured one.
Answer(i) ==
    /\ i \in 1..Len(answers)
    /\ answers' = RemoveAt(answers, i)
    /\ shown' = answers[i].lines
    /\ link' = IF ~PollsAlways THEN link
               ELSE IF answers[i].active THEN "connected" ELSE "reconnecting"
    /\ UNCHANGED <<bridgeVars, page, conn, timer, polling, requests>>

-----------------------------------------------------------------------------
(* The page and its steps. *)

PageInit ==
    /\ BridgeInit
    /\ page \in Pages
    /\ conn = NoConn /\ link = "connecting" /\ timer = TRUE
    /\ polling = PollsAlways
    /\ requests = IF page = "desktop" THEN 0 ELSE 1
    /\ answers = <<>> /\ shown = <<>>

\* The iPhone's heartbeat notices a websocket that the bridge has lost.
HeartbeatTimeout == conn # NoConn /\ sock[conn] = "closed" /\ Lose

PageNext ==
    \/ Connect \/ Receive \/ Lose \/ Poll \/ Serve
    \/ \E i \in 1..MaxFetches[page] : Answer(i)

-----------------------------------------------------------------------------
(* Properties. *)

\* The iPhone page that lost its websocket gets another one, and says that it is
\* connected. (The console does not notice a loss without a close, and the
\* desktop page says "Reconnecting" for good once the terminal has ended.)
Reconnects == page = "phone" => []<>(conn # NoConn /\ sock[conn] = "open" /\ link = "connected")

\* While the console is open, a terminal that has ended or was reset is started
\* again (the other pages leave that to the user, who must type). And when the terminal
\* is quiet the console shows in the end what the bridge has, whatever was lost or
\* overtaken on the way.
ConsoleRecovers == page = "console" =>
    /\ session = NoPty ~> session # NoPty
    /\ <>[](shown = Shown(buffer))

\* At least none of it is missing.
MissesNothing == <>[](ToSet(Shown(buffer)) \subseteq ToSet(shown))

=============================================================================
