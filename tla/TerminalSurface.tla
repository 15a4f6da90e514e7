--------------------------- MODULE TerminalSurface ---------------------------
(***************************************************************************)
(* The desktop page of the Codex mobile terminal (TerminalSurface.js), and *)
(* the specification of a browser with any of the three pages open. The    *)
(* desktop page shows what its websocket brings and nothing else. What is  *)
(* typed while the websocket is down waits in a queue; keystrokes are      *)
(* numbered in the order in which they are typed.                          *)
(***************************************************************************)
EXTENDS TerminalPage

CONSTANTS
    MaxTyped,       \* how many keystrokes the user types (a bound)
    QueueLimit      \* the length of pendingInputQueueRef, 24 in the code

ASSUME SurfaceAssumption == MaxTyped \in Nat /\ QueueLimit \in Nat \ {0}

VARIABLES
    up,         \* whether the readyState of the websocket is OPEN
    queue,      \* pendingInputQueueRef
    typed,      \* how many keystrokes were typed
    sent        \* history: the keystrokes sent, in that order

surfaceVars == <<up, queue, typed, sent>>
vars == <<bridgeVars, pageVars, surfaceVars>>

-----------------------------------------------------------------------------
(* The desktop page. *)

\* connectSocket
ConnectSocket ==
    /\ timer /\ Unused # {}
    /\ Ask(Opened)
    /\ conn' = Opened /\ timer' = FALSE
    /\ UNCHANGED <<page, link, polling, requests, answers, shown, surfaceVars>>

\* Variant: sends the newest first.
FlushBackwards == sent' = sent \o Reverse(queue) /\ queue' = <<>>

\* Variant: sends one of them.
FlushOne ==
    IF queue = <<>> THEN UNCHANGED <<sent, queue>>
    ELSE sent' = Append(sent, Head(queue)) /\ queue' = Tail(queue)

\* flushPendingInput
FlushPendingInput == sent' = sent \o queue /\ queue' = <<>>

\* The "open" event.
OpenEvent ==
    /\ conn # NoConn /\ ~up /\ sock[conn] \in {"open", "closed"}
    /\ up' = TRUE /\ link' = "connected"
    /\ FlushPendingInput
    /\ UNCHANGED <<bridgeVars, page, conn, timer, polling, requests, answers, shown, typed>>

\* The "message" event.
MessageEvent ==
    /\ up /\ inbox[conn] # <<>>
    /\ LET m == Head(inbox[conn])
       IN  /\ shown' = IF m.kind = "output" THEN Shown(Append(shown, m.chunk)) ELSE shown
           /\ link' = IF m.kind = "ready" THEN "connected"
                      ELSE IF m.kind = "output" THEN link ELSE "reconnecting"
    /\ inbox' = [inbox EXCEPT ![conn] = Tail(@)]
    /\ UNCHANGED <<session, pty, fed, screen, clients, sock, buffer,
                   page, conn, timer, polling, requests, answers, surfaceVars>>

\* The "close" and "error" events, or the heartbeat: queueReconnect.
CloseEvent ==
    /\ conn # NoConn /\ Unused # {}
    /\ conn' = NoConn /\ up' = FALSE /\ link' = "reconnecting" /\ timer' = TRUE
    /\ UNCHANGED <<bridgeVars, page, polling, requests, answers, shown, queue, typed, sent>>

\* What enqueueOrSendInput keeps: the newest.
Enqueue == Newest(Append(queue, typed + 1), QueueLimit)

\* enqueueOrSendInput
EnqueueOrSendInput ==
    /\ typed < MaxTyped
    /\ typed' = typed + 1
    /\ IF up THEN sent' = Append(sent, typed + 1) /\ UNCHANGED queue
       ELSE queue' = Enqueue /\ UNCHANGED sent
    /\ UNCHANGED <<bridgeVars, pageVars, up>>

-----------------------------------------------------------------------------
(* The specification of all three pages. *)

Init ==
    /\ PageInit
    /\ up = FALSE /\ queue = <<>> /\ typed = 0 /\ sent = <<>>

\* What the user types reaches the bridge, a line in the console and keystrokes
\* elsewhere, or the request of "Reset" does, of this page or of another.
User ==
    /\ \/ PollsAlways /\ SendToConsole /\ UNCHANGED pageVars
       \/ ~PollsAlways /\ Write /\ UNCHANGED pageVars
       \/ Reset /\ (ResetAnswered \/ UNCHANGED pageVars)
    /\ UNCHANGED surfaceVars

\* The bridge does its part, and loses websockets: those that the page has left,
\* or the one it uses, of which the page hears later.
Bridge ==
    /\ Terminal \/ \E c \in Conns : Attach(c) \/ (Detach(c) /\ (c = conn => Unused # {}))
    /\ UNCHANGED <<pageVars, surfaceVars>>

Desktop == page = "desktop"
    /\ (ConnectSocket \/ OpenEvent \/ MessageEvent \/ CloseEvent \/ EnqueueOrSendInput)
Other == page # "desktop" /\ PageNext /\ UNCHANGED surfaceVars

Next == Desktop \/ Other \/ User \/ Bridge

Spec == Init /\ [][Next]_vars

Runs(A) == page # "desktop" /\ A /\ UNCHANGED surfaceVars
Listens(A) == page = "desktop" /\ A

\* The browser fires its timers and delivers what arrives, the network is slow
\* but delivers, a killed pty ends and node-pty reports output and exits. The
\* user, the programs and the losses owe nothing.
FairSpec ==
    /\ Spec
    /\ WF_vars(Runs(Connect)) /\ WF_vars(Runs(Receive))
    /\ WF_vars(Runs(Poll)) /\ WF_vars(Runs(Serve)) /\ WF_vars(Runs(Answer(1)))
    /\ WF_vars(page = "phone" /\ Runs(HeartbeatTimeout))
    /\ WF_vars(Listens(ConnectSocket)) /\ WF_vars(Listens(OpenEvent))
    /\ WF_vars(Listens(MessageEvent))
    /\ WF_vars(\E c \in Conns : Attach(c) /\ UNCHANGED <<pageVars, surfaceVars>>)
    /\ WF_vars(\E p \in Ptys : (OnData(p) \/ OnExit(p)) /\ UNCHANGED <<pageVars, surfaceVars>>)
    /\ WF_vars(\E p \in Ptys :
        pty[p] = "killed" /\ PtyEnds(p) /\ UNCHANGED <<pageVars, surfaceVars>>)

-----------------------------------------------------------------------------
(* Properties. *)

\* Keystrokes are sent in the order in which they were typed, through every loss
\* of the websocket, and the newest of them is never the one that is dropped.
TypedInOrder ==
    LET all == sent \o queue
    IN  /\ \A i, j \in DOMAIN all : i < j => all[i] < all[j]
        /\ typed > 0 => typed = Last(all)
        /\ Len(queue) <= QueueLimit

\* What waits in the queue is sent in the end: every loss is followed by a flush.
QueueDrains == queue # <<>> ~> queue = <<>>

=============================================================================
