--------------------------- MODULE TerminalBridge ---------------------------
(***************************************************************************)
(* The bridge server of the Codex mobile terminal                          *)
(* (products/codex-mobile-terminal/server): one SessionManager that shares *)
(* one pseudo-terminal, a client of a tmux session, among websockets and   *)
(* HTTP requests.                                                          *)
(*                                                                         *)
(* Node runs one callback at a time, so every handler is one step; what    *)
(* interleaves are the events between them: output and exit of the ptys,   *)
(* messages, requests and closed sockets.                                  *)
(*                                                                         *)
(* The programs in the tmux session draw on it a chunk of output at a      *)
(* time, numbered from 1. Text is abstracted to these numbers.             *)
(***************************************************************************)
EXTENDS Naturals, SequencesExt

CONSTANTS
    Ptys,           \* the ptys that may ever be spawned (a bound)
    Conns,          \* the websocket connections, each made once (a bound)
    MaxOutput,      \* how many chunks the programs draw (a bound)
    MaxBuffer,      \* MAX_BUFFER_CHARS, in chunks
    MaxSnapshot,    \* MAX_SNAPSHOT_CHARS, in chunks
    TuiChunks,      \* the chunks that draw the Codex interface
    SpawnFails,     \* whether pty.spawn may throw
    NoPty, NoConn

ASSUME BridgeAssumption ==
    /\ MaxOutput \in Nat /\ MaxBuffer \in Nat \ {0} /\ MaxSnapshot \in 1..MaxBuffer
    /\ TuiChunks \subseteq 1..MaxOutput
    /\ SpawnFails \in BOOLEAN
    /\ NoPty \notin Ptys /\ NoConn \notin Conns

Chunks == 1..MaxOutput
Message == [kind: {"ready", "output", "exit", "error"}, chunk: 0..MaxOutput]
PtyStates == {"unborn", "live", "killed", "exited", "gone"}

VARIABLES
    session,    \* this.session: the pty that serves requests, or NoPty
    pty,        \* the life of each pty; "gone" once onExit has run
    fed,        \* how many chunks tmux has sent to each pty
    screen,     \* how many chunks the programs have drawn
    clients,    \* this.clients: the attached websockets
    sock,       \* each websocket: "none", "asked", "open" or "closed"
    inbox,      \* what was sent over it and not received yet
    buffer      \* this.outputBuffer

bridgeVars == <<session, pty, fed, screen, clients, sock, inbox, buffer>>

-----------------------------------------------------------------------------
(* Helpers *)

Msg(kind, n) == [kind |-> kind, chunk |-> n]
Newest(s, n) == SubSeq(s, IF Len(s) > n THEN Len(s) - n + 1 ELSE 1, Len(s))

\* captureTmuxPane: what the terminal shows now.
Pane == IF screen = 0 THEN <<>> ELSE <<screen>>

\* detectCodexTuiText
ShowsTui(s) == \E i \in 1..Len(s) : s[i] \in TuiChunks

\* Variant: stops at the first client.
BroadcastToOne(m) == [c \in Conns |->
    IF c \in clients /\ c = CHOOSE d \in clients : TRUE
    THEN Append(inbox[c], m) ELSE inbox[c]]

\* A message to every attached client whose socket is open.
Broadcast(m) == [c \in Conns |->
    IF c \in clients /\ sock[c] = "open" THEN Append(inbox[c], m) ELSE inbox[c]]

\* The bound on Ptys must not keep a handler from spawning one: there is a pty
\* left for every exit that is still to come and for the request after it.
Unborn == {p \in Ptys : pty[p] = "unborn"}
Pending == {p \in Ptys : pty[p] \in {"killed", "exited"}}
Spare == Cardinality(Unborn) >= 2 * (Cardinality(Pending) + 1)

\* The pty that the next pty.spawn returns: a new one, whichever it is.
Spawned == CHOOSE p \in Ptys : pty[p] = "unborn"

\* Variant: always spawns.
SpawnAlways(p) ==
    /\ Unborn # {} /\ p = Spawned
    /\ session' = p
    /\ pty' = [pty EXCEPT ![p] = "live"]
    /\ fed' = [fed EXCEPT ![p] = IF screen = 0 THEN 0 ELSE screen - 1]

\* ensureSession returns p: the session, or a new tmux client, for which tmux
\* draws its screen again.
EnsureSession(p) ==
    \/ /\ session # NoPty /\ p = session
       /\ UNCHANGED <<session, pty, fed>>
    \/ /\ session = NoPty /\ Unborn # {} /\ p = Spawned
       /\ session' = p
       /\ pty' = [pty EXCEPT ![p] = "live"]
       /\ fed' = [fed EXCEPT ![p] = IF screen = 0 THEN 0 ELSE screen - 1]

\* pty.spawn throws.
SessionFails == SpawnFails /\ session = NoPty /\ UNCHANGED <<session, pty, fed>>

-----------------------------------------------------------------------------
(* The ptys and the programs behind them. *)

\* A program draws, as soon as there is a tmux session.
Draw ==
    /\ screen < MaxOutput /\ \E p \in Ptys : pty[p] # "unborn"
    /\ screen' = screen + 1
    /\ UNCHANGED <<session, pty, fed, clients, sock, inbox, buffer>>

\* Variant: the buffer is not cut.
OnDataUncut(p) ==
    /\ pty[p] \in {"live", "killed"} /\ fed[p] < screen
    /\ fed' = [fed EXCEPT ![p] = @ + 1]
    /\ buffer' = Append(buffer, fed[p] + 1)
    /\ inbox' = Broadcast(Msg("output", fed[p] + 1))
    /\ UNCHANGED <<session, pty, screen, clients, sock>>

\* proc.onData
OnData(p) ==
    /\ pty[p] \in {"live", "killed"} /\ fed[p] < screen
    /\ fed' = [fed EXCEPT ![p] = @ + 1]
    /\ buffer' = Newest(Append(buffer, fed[p] + 1), MaxBuffer)
    /\ inbox' = Broadcast(Msg("output", fed[p] + 1))
    /\ UNCHANGED <<session, pty, screen, clients, sock>>

\* The process ends: it was killed, or the user left the shell.
PtyEnds(p) ==
    /\ pty[p] = "killed" \/ (pty[p] = "live" /\ Spare)
    /\ pty' = [pty EXCEPT ![p] = "exited"]
    /\ UNCHANGED <<session, fed, screen, clients, sock, inbox, buffer>>

\* Variant: keeps the session.
OnExitKeepsSession(p) ==
    /\ pty[p] = "exited"
    /\ pty' = [pty EXCEPT ![p] = "gone"]
    /\ inbox' = Broadcast(Msg("exit", 0))
    /\ UNCHANGED <<session, fed, screen, clients, sock, buffer>>

\* proc.onExit: whichever pty has ended, this.session becomes null.
OnExit(p) ==
    /\ pty[p] = "exited"
    /\ pty' = [pty EXCEPT ![p] = "gone"]
    /\ inbox' = Broadcast(Msg("exit", 0))
    /\ session' = NoPty
    /\ UNCHANGED <<fed, screen, clients, sock, buffer>>

-----------------------------------------------------------------------------
(* Websockets. *)

\* A browser opens a websocket with a valid cookie.
Ask(c) ==
    /\ sock[c] = "none"
    /\ sock' = [sock EXCEPT ![c] = "asked"]
    /\ UNCHANGED <<session, pty, fed, screen, clients, inbox, buffer>>

\* The connection handler and attachClient.
Attach(c) ==
    /\ sock[c] = "asked"
    /\ \/ /\ \E p \in Ptys : EnsureSession(p)
          /\ clients' = clients \cup {c}
          /\ sock' = [sock EXCEPT ![c] = "open"]
          /\ inbox' = [inbox EXCEPT ![c] = <<Msg("ready", 0)>>]
       \/ /\ SessionFails
          /\ sock' = [sock EXCEPT ![c] = "closed"]
          /\ inbox' = [inbox EXCEPT ![c] = <<Msg("error", 0)>>]
          /\ UNCHANGED clients
    /\ UNCHANGED <<screen, buffer>>

\* The bridge notices that the other end is gone: detachClient.
Detach(c) ==
    /\ sock[c] = "open"
    /\ sock' = [sock EXCEPT ![c] = "closed"]
    /\ clients' = clients \ {c}
    /\ UNCHANGED <<session, pty, fed, screen, inbox, buffer>>

-----------------------------------------------------------------------------
(* HTTP requests, and websocket messages that do the same. *)

\* Input, resize, API key, ChatGPT login: they need a session, and write to it.
Write ==
    /\ \E p \in Ptys : EnsureSession(p)
    /\ UNCHANGED <<screen, clients, sock, inbox, buffer>>

\* getConsoleSnapshot: a blank buffer is filled from the screen.
SnapshotBuffer == IF buffer = <<>> THEN Pane ELSE buffer

GetConsole ==
    /\ \E p \in Ptys : EnsureSession(p)
    /\ buffer' = SnapshotBuffer
    /\ UNCHANGED <<screen, clients, sock, inbox>>

\* POST /api/console/send, and isCodexTuiActive: refused while the recent
\* output, or else the screen, shows the Codex interface.
SendToConsole ==
    /\ \E p \in Ptys : EnsureSession(p)
    /\ \/ /\ ShowsTui(Newest(buffer, MaxSnapshot))
          /\ UNCHANGED buffer
       \/ /\ ~ShowsTui(Newest(buffer, MaxSnapshot))
          /\ buffer' = IF Pane = <<>> THEN buffer ELSE Pane
    /\ UNCHANGED <<screen, clients, sock, inbox>>

\* POST /api/session/reset
Reset ==
    /\ session # NoPty /\ Spare
    /\ pty' = [pty EXCEPT ![session] = IF @ = "live" THEN "killed" ELSE @]
    /\ session' = NoPty
    /\ UNCHANGED <<fed, screen, clients, sock, inbox, buffer>>

-----------------------------------------------------------------------------
(* The bridge, with anybody talking to it. *)

BridgeInit ==
    /\ session = NoPty
    /\ pty = [p \in Ptys |-> "unborn"]
    /\ fed = [p \in Ptys |-> 0]
    /\ screen = 0
    /\ clients = {}
    /\ sock = [c \in Conns |-> "none"]
    /\ inbox = [c \in Conns |-> <<>>]
    /\ buffer = <<>>

\* What happens whatever the clients do.
Terminal == Draw \/ \E p \in Ptys : OnData(p) \/ PtyEnds(p) \/ OnExit(p)

\* Everything but "Reset".
CalmNext ==
    \/ Terminal
    \/ \E c \in Conns : Ask(c) \/ Attach(c) \/ Detach(c)
    \/ Write \/ GetConsole \/ SendToConsole

CalmSpec == BridgeInit /\ [][CalmNext]_bridgeVars
BridgeSpec == BridgeInit /\ [][CalmNext \/ Reset]_bridgeVars

-----------------------------------------------------------------------------
(* Properties. *)

BridgeTypeOK ==
    /\ session \in Ptys \cup {NoPty}
    /\ pty \in [Ptys -> PtyStates]
    /\ fed \in [Ptys -> 0..MaxOutput]
    /\ screen \in 0..MaxOutput
    /\ clients \subseteq Conns
    /\ sock \in [Conns -> {"none", "asked", "open", "closed"}]
    /\ inbox \in [Conns -> Seq(Message)]
    /\ buffer \in Seq(Chunks) /\ Len(buffer) <= MaxBuffer

\* A pty that has ended, and was reported to have, serves no request: input is
\* never written to it again.
SessionIsNotGone == session # NoPty => pty[session] \notin {"unborn", "killed", "gone"}

\* There is one terminal: at most one pty that nobody killed. A second one would
\* send the same screen to every client once more.
OneTerminal == \A p, q \in Ptys : pty[p] = "live" /\ pty[q] = "live" => p = q

\* A client follows the terminal: between two exits, whoever else comes and
\* goes, it is sent every chunk once and in the order in which they were drawn.
NoGaps == \A c \in Conns : \A i \in 1..(Len(inbox[c]) - 1) :
    inbox[c][i].kind = "output" /\ inbox[c][i + 1].kind = "output" =>
        inbox[c][i + 1].chunk = inbox[c][i].chunk + 1

=============================================================================
