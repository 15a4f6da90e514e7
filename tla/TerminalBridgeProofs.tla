------------------------ MODULE TerminalBridgeProofs ------------------------
(***************************************************************************)
(* What TerminalBridge guarantees for every number of ptys, connections    *)
(* and chunks of output, and for every size of its buffers.                *)
(***************************************************************************)
EXTENDS TerminalBridge, SequenceTheorems, TLAPS

USE BridgeAssumption

-----------------------------------------------------------------------------
(* What the helpers return. *)

\* Cutting a sequence keeps its newest elements.
LEMMA NewestCuts ==
    ASSUME NEW S, NEW s \in Seq(S), NEW n \in Nat \ {0}
    PROVE  /\ Newest(s, n) \in Seq(S)
           /\ Len(Newest(s, n)) = IF Len(s) > n THEN n ELSE Len(s)
           /\ \A i \in 1..Len(Newest(s, n)) :
                 Newest(s, n)[i] = s[i + (Len(s) - Len(Newest(s, n)))]
<1>1. Len(s) \in Nat
  OBVIOUS
<1>2. CASE Len(s) > n
  <2>1. Newest(s, n) = SubSeq(s, Len(s) - n + 1, Len(s))
    BY <1>2 DEF Newest
  <2>2. \A i \in (Len(s) - n + 1)..Len(s) : s[i] \in S
    BY <1>1, <1>2
  <2> QED BY <1>1, <1>2, <2>1, <2>2, SubSeqProperties
<1>3. CASE ~(Len(s) > n)
  <2>1. Newest(s, n) = s
    BY <1>3, SubSeqFull DEF Newest
  <2>2. \A i \in 1..Len(s) : i + (Len(s) - Len(s)) = i
    BY <1>1
  <2> QED BY <1>3, <2>1, <2>2
<1> QED BY <1>2, <1>3

LEMMA MsgIsMessage ==
    ASSUME NEW kind \in {"ready", "output", "exit", "error"}, NEW n \in 0..MaxOutput
    PROVE  Msg(kind, n) \in Message /\ Msg(kind, n).kind = kind /\ Msg(kind, n).chunk = n
BY DEF Msg, Message

\* A message that is broadcast is the last one that an attached client was sent.
LEMMA BroadcastReaches ==
    ASSUME BridgeTypeOK, NEW m \in Message, NEW c \in Conns, inbox' = Broadcast(m)
    PROVE  /\ inbox'[c] \in Seq(Message)
           /\ \/ inbox'[c] = Append(inbox[c], m) /\ c \in clients /\ sock[c] = "open"
              \/ inbox'[c] = inbox[c] /\ ~(c \in clients /\ sock[c] = "open")
BY AppendProperties DEF BridgeTypeOK, Broadcast

\* ensureSession leaves a session, and the pty that it spawns is a new one.
Spawns ==
    /\ session = NoPty
    /\ \E p \in Ptys :
          /\ pty[p] = "unborn" /\ session' = p /\ pty' = [pty EXCEPT ![p] = "live"]
          /\ fed' \in [Ptys -> 0..MaxOutput]

LEMMA EnsureSessionStep ==
    ASSUME BridgeTypeOK, NEW p \in Ptys, EnsureSession(p)
    PROVE  (session # NoPty /\ UNCHANGED <<session, pty, fed>>) \/ Spawns
<1>1. CASE session # NoPty
  BY <1>1 DEF EnsureSession
<1>2. CASE session = NoPty
  <2>1. Spawned \in Ptys /\ pty[Spawned] = "unborn"
    BY <1>2 DEF EnsureSession, Spawned, Unborn
  <2>2. p = Spawned /\ session' = p /\ pty' = [pty EXCEPT ![p] = "live"]
        /\ fed' = [fed EXCEPT ![p] = IF screen = 0 THEN 0 ELSE screen - 1]
    BY <1>2 DEF EnsureSession
  <2>3. (IF screen = 0 THEN 0 ELSE screen - 1) \in 0..MaxOutput
    BY DEF BridgeTypeOK
  <2>4. fed' \in [Ptys -> 0..MaxOutput]
    BY <2>2, <2>3 DEF BridgeTypeOK
  <2> QED BY <1>2, <2>1, <2>2, <2>4 DEF Spawns
<1> QED BY <1>1, <1>2

\* The steps that may ensure a session.
Requests == (\E c \in Conns : Attach(c)) \/ Write \/ GetConsole \/ SendToConsole

LEMMA RequestStep ==
    ASSUME BridgeTypeOK, Requests
    PROVE  UNCHANGED <<session, pty, fed>> \/ Spawns
BY EnsureSessionStep DEF Requests, Attach, Write, GetConsole, SendToConsole, SessionFails

-----------------------------------------------------------------------------
(* Types, and the pty that serves requests. *)

LEMMA SpawnsTypes ==
    ASSUME BridgeTypeOK, UNCHANGED <<session, pty, fed>> \/ Spawns
    PROVE  /\ session' \in Ptys \cup {NoPty} /\ pty' \in [Ptys -> PtyStates]
           /\ fed' \in [Ptys -> 0..MaxOutput]
BY DEF BridgeTypeOK, Spawns, PtyStates

LEMMA BridgeTypeInit == BridgeInit => BridgeTypeOK
BY DEF BridgeInit, BridgeTypeOK, PtyStates

LEMMA BridgeTypeStep ==
    ASSUME BridgeTypeOK, [CalmNext \/ Reset]_bridgeVars PROVE BridgeTypeOK'
<1>1. CASE Draw
  BY <1>1 DEF Draw, BridgeTypeOK
<1>2. ASSUME NEW p \in Ptys, OnData(p) PROVE BridgeTypeOK'
  <2>1. fed[p] + 1 \in 1..MaxOutput /\ fed[p] + 1 \in Chunks
    BY <1>2 DEF OnData, BridgeTypeOK, Chunks
  <2>2. fed' \in [Ptys -> 0..MaxOutput]
    BY <1>2, <2>1 DEF OnData, BridgeTypeOK
  <2>3. inbox' \in [Conns -> Seq(Message)]
    <3>1. Msg("output", fed[p] + 1) \in Message
      BY <2>1, MsgIsMessage
    <3>2. inbox' = Broadcast(Msg("output", fed[p] + 1))
      BY <1>2 DEF OnData
    <3>3. \A c \in Conns : inbox'[c] \in Seq(Message)
      BY <3>1, <3>2, BroadcastReaches
    <3> QED BY <3>2, <3>3 DEF Broadcast
  <2>4. buffer' \in Seq(Chunks) /\ Len(buffer') <= MaxBuffer
    <3> DEFINE longer == Append(buffer, fed[p] + 1)
    <3>1. longer \in Seq(Chunks)
      BY <2>1, AppendProperties DEF BridgeTypeOK
    <3>2. buffer' = Newest(longer, MaxBuffer)
      BY <1>2 DEF OnData
    <3> HIDE DEF longer
    <3>3. Len(longer) \in Nat
      BY <3>1
    <3>4. /\ Newest(longer, MaxBuffer) \in Seq(Chunks)
          /\ Len(Newest(longer, MaxBuffer)) = IF Len(longer) > MaxBuffer THEN MaxBuffer
                                              ELSE Len(longer)
      BY <3>1, NewestCuts
    <3> QED BY <3>2, <3>3, <3>4
  <2> QED BY <1>2, <2>2, <2>3, <2>4 DEF OnData, BridgeTypeOK
<1>3. ASSUME NEW p \in Ptys, PtyEnds(p) PROVE BridgeTypeOK'
  BY <1>3 DEF PtyEnds, BridgeTypeOK, PtyStates
<1>4. ASSUME NEW p \in Ptys, OnExit(p) PROVE BridgeTypeOK'
  <2>1. inbox' \in [Conns -> Seq(Message)]
    <3>1. Msg("exit", 0) \in Message
      BY MsgIsMessage
    <3>2. inbox' = Broadcast(Msg("exit", 0))
      BY <1>4 DEF OnExit
    <3>3. \A c \in Conns : inbox'[c] \in Seq(Message)
      BY <3>1, <3>2, BroadcastReaches
    <3> QED BY <3>2, <3>3 DEF Broadcast
  <2> QED BY <1>4, <2>1 DEF OnExit, BridgeTypeOK, PtyStates
<1>5. ASSUME NEW c \in Conns, Ask(c) PROVE BridgeTypeOK'
  BY <1>5 DEF Ask, BridgeTypeOK
<1>6. ASSUME NEW c \in Conns, Attach(c) PROVE BridgeTypeOK'
  <2>1. <<Msg("ready", 0)>> \in Seq(Message) /\ <<Msg("error", 0)>> \in Seq(Message)
    BY MsgIsMessage
  <2>2. clients' \subseteq Conns /\ sock' \in [Conns -> {"none", "asked", "open", "closed"}]
    BY <1>6 DEF Attach, BridgeTypeOK
  <2>3. PICK hello \in Seq(Message) : inbox' = [inbox EXCEPT ![c] = hello]
    BY <1>6, <2>1 DEF Attach
  <2>4. inbox' \in [Conns -> Seq(Message)]
    BY <2>3 DEF BridgeTypeOK
  <2> QED BY <1>6, <2>2, <2>4, RequestStep, SpawnsTypes DEF Attach, Requests, BridgeTypeOK
<1>7. ASSUME NEW c \in Conns, Detach(c) PROVE BridgeTypeOK'
  BY <1>7 DEF Detach, BridgeTypeOK
<1>8. CASE Write
  BY <1>8, RequestStep, SpawnsTypes DEF Write, Requests, BridgeTypeOK
<1>9. Pane \in Seq(Chunks) /\ Len(Pane) <= MaxBuffer
  <2>1. CASE screen = 0
    BY <2>1 DEF Pane
  <2>2. CASE screen # 0
    <3>1. screen \in Chunks /\ Pane = <<screen>>
      BY <2>2 DEF Pane, BridgeTypeOK, Chunks
    <3>2. Len(<<screen>>) = 1 /\ <<screen>> \in Seq(Chunks)
      BY <3>1
    <3> QED BY <3>1, <3>2
  <2> QED BY <2>1, <2>2
<1>10. CASE GetConsole
  BY <1>9, <1>10, RequestStep, SpawnsTypes DEF GetConsole, SnapshotBuffer, Requests, BridgeTypeOK
<1>11. CASE SendToConsole
  BY <1>9, <1>11, RequestStep, SpawnsTypes DEF SendToConsole, Requests, BridgeTypeOK
<1>12. CASE Reset
  BY <1>12 DEF Reset, BridgeTypeOK, PtyStates
<1>13. CASE UNCHANGED bridgeVars
  BY <1>13 DEF bridgeVars, BridgeTypeOK
<1> QED BY <1>1, <1>2, <1>3, <1>4, <1>5, <1>6, <1>7, <1>8, <1>10, <1>11, <1>12, <1>13
        DEF CalmNext, Terminal

\* The invariant behind SessionIsNotGone says a little more: the pty has not been
\* killed either.
Served == session # NoPty => pty[session] \in {"live", "exited"}

LEMMA ServedStep ==
    ASSUME BridgeTypeOK, Served, [CalmNext \/ Reset]_bridgeVars PROVE Served'
<1>1. CASE Requests
  BY <1>1, RequestStep DEF Spawns, Served, BridgeTypeOK
<1>2. ASSUME NEW p \in Ptys, PtyEnds(p) PROVE Served'
  BY <1>2 DEF PtyEnds, Served, BridgeTypeOK
<1>3. ASSUME NEW p \in Ptys, OnExit(p) PROVE Served'
  BY <1>3 DEF OnExit, Served
<1>4. CASE Reset
  BY <1>4 DEF Reset, Served
<1> QED BY <1>1, <1>2, <1>3, <1>4
        DEF CalmNext, Terminal, Requests, Draw, OnData, Ask, Detach, bridgeVars, Served

\* Sessions, ptys, messages and buffers are what they should be, and the buffer keeps to
\* its limit, however output, requests and websockets interleave.
THEOREM BridgeTypes == BridgeSpec => []BridgeTypeOK
<1>1. BridgeTypeOK /\ [CalmNext \/ Reset]_bridgeVars => BridgeTypeOK'
  BY BridgeTypeStep
<1> QED BY <1>1, BridgeTypeInit, PTL DEF BridgeSpec

\* The pty that serves requests is one whose exit has not been reported, resets and
\* failing spawns notwithstanding: ensureSession, onExit and reset.
THEOREM SessionsAreServed == BridgeSpec => []SessionIsNotGone
<1>1. BridgeInit => Served
  BY DEF BridgeInit, Served
<1>2. BridgeTypeOK /\ Served /\ [CalmNext \/ Reset]_bridgeVars => Served'
  BY ServedStep
<1>3. Served => SessionIsNotGone
  BY DEF Served, SessionIsNotGone
<1> QED BY <1>1, <1>2, <1>3, BridgeTypes, PTL DEF BridgeSpec

-----------------------------------------------------------------------------
(* Without resets there is one terminal, and its clients miss nothing. *)

\* A pty that has not been reported as ended is the session.
OneSession == \A p \in Ptys :
    /\ pty[p] # "killed"
    /\ pty[p] \in {"live", "exited"} => session = p

\* A client that is attached is up to date: unless its last message says that the
\* terminal is ready, or has ended, it is the newest output of the session.
UpToDate ==
    /\ \A c \in Conns : sock[c] = "none" \/ sock[c] = "asked" => inbox[c] = <<>>
    /\ \A c \in clients :
          /\ sock[c] = "open" /\ inbox[c] # <<>>
          /\ LET last == inbox[c][Len(inbox[c])]
             IN  last.kind = "output" => session # NoPty /\ last.chunk = fed[session]

CalmInv == BridgeTypeOK /\ Served /\ OneSession /\ UpToDate /\ NoGaps

LEMMA CalmInit == BridgeInit => CalmInv
<1> SUFFICES ASSUME BridgeInit PROVE CalmInv
  OBVIOUS
<1>1. \A c \in Conns : inbox[c] = <<>>
  BY DEF BridgeInit
<1>2. NoGaps
  BY <1>1 DEF NoGaps
<1> QED BY <1>1, <1>2, BridgeTypeInit DEF CalmInv, BridgeInit, Served, OneSession, UpToDate

LEMMA OneSessionStep ==
    ASSUME BridgeTypeOK, OneSession, [CalmNext]_bridgeVars PROVE OneSession'
<1>1. CASE Requests
  BY <1>1, RequestStep DEF Spawns, OneSession, BridgeTypeOK
<1>2. ASSUME NEW p \in Ptys, PtyEnds(p) PROVE OneSession'
  BY <1>2 DEF PtyEnds, OneSession, BridgeTypeOK
<1>3. ASSUME NEW p \in Ptys, OnExit(p) PROVE OneSession'
  BY <1>3 DEF OnExit, OneSession, BridgeTypeOK
<1> QED BY <1>1, <1>2, <1>3
        DEF CalmNext, Terminal, Requests, Draw, OnData, Ask, Detach, bridgeVars, OneSession

\* One more message leaves no gap, if it is not output or follows on the last one.
NoGapsIn(s) == \A i \in 1..(Len(s) - 1) :
    s[i].kind = "output" /\ s[i + 1].kind = "output" => s[i + 1].chunk = s[i].chunk + 1

LEMMA AppendNoGap ==
    ASSUME NEW s \in Seq(Message), NEW m \in Message, NoGapsIn(s),
           m.kind = "output" /\ s # <<>> /\ s[Len(s)].kind = "output" =>
               m.chunk = s[Len(s)].chunk + 1
    PROVE  NoGapsIn(Append(s, m))
<1> DEFINE t == Append(s, m)
<1>1. /\ Len(t) = Len(s) + 1 /\ Len(s) \in Nat /\ t[Len(s) + 1] = m
      /\ \A i \in 1..Len(s) : t[i] = s[i]
  BY AppendProperties
<1>2. SUFFICES ASSUME NEW i \in 1..(Len(t) - 1), t[i].kind = "output", t[i + 1].kind = "output"
               PROVE  t[i + 1].chunk = t[i].chunk + 1
  BY DEF NoGapsIn
<1> HIDE DEF t
<1>3. CASE i = Len(s)
  BY <1>1, <1>2, <1>3
<1>4. CASE i < Len(s)
  BY <1>1, <1>2, <1>4 DEF NoGapsIn
<1> QED BY <1>1, <1>2, <1>3, <1>4

LEMMA FollowStep ==
    ASSUME CalmInv, [CalmNext]_bridgeVars PROVE UpToDate' /\ NoGaps'
<1> USE DEF CalmInv
<1>1. ASSUME NEW m \in Message, inbox' = Broadcast(m), UNCHANGED <<clients, sock>>,
             m.kind = "output" => session' # NoPty /\ m.chunk = fed'[session'],
             m.kind = "output" => session' = session /\ fed'[session] = fed[session] + 1
      PROVE  UpToDate' /\ NoGaps'
  <2>1. ASSUME NEW c \in Conns
        PROVE  \/ inbox'[c] = Append(inbox[c], m) /\ c \in clients
               \/ inbox'[c] = inbox[c] /\ c \notin clients
    BY <1>1, BroadcastReaches DEF UpToDate
  <2>2. ASSUME NEW c \in Conns PROVE inbox[c] \in Seq(Message)
    BY DEF BridgeTypeOK
  <2>3. UpToDate'
    <3>1. ASSUME NEW c \in clients
          PROVE  inbox'[c] # <<>> /\ inbox'[c][Len(inbox'[c])] = m
      <4>1. inbox'[c] = Append(inbox[c], m) /\ inbox[c] \in Seq(Message)
        BY <2>1, <2>2 DEF BridgeTypeOK
      <4> QED BY <4>1, AppendProperties
    <3>2. \A c \in Conns : sock[c] = "none" \/ sock[c] = "asked" => inbox'[c] = <<>>
      BY <2>1 DEF UpToDate
    <3> QED BY <1>1, <3>1, <3>2 DEF UpToDate
  <2>4. ASSUME NEW c \in Conns PROVE NoGapsIn(inbox'[c])
    <3>1. NoGapsIn(inbox[c])
      BY DEF NoGaps, NoGapsIn
    <3>2. CASE inbox'[c] = Append(inbox[c], m) /\ c \in clients
      BY <1>1, <2>2, <3>1, <3>2, AppendNoGap DEF UpToDate
    <3> QED BY <2>1, <3>1, <3>2
  <2> QED BY <2>3, <2>4 DEF NoGaps, NoGapsIn
<1>2. ASSUME NEW p \in Ptys, OnData(p) PROVE UpToDate' /\ NoGaps'
  <2>1. session = p
    BY <1>2 DEF OnData, OneSession
  <2>2. /\ session' = session /\ session # NoPty /\ fed'[session] = fed[session] + 1
        /\ fed[session] + 1 \in 0..MaxOutput
    BY <1>2, <2>1 DEF OnData, BridgeTypeOK
  <2>3. /\ Msg("output", fed[p] + 1) \in Message
        /\ Msg("output", fed[p] + 1).chunk = fed[p] + 1
    BY <2>1, <2>2, MsgIsMessage
  <2> QED BY <1>1, <1>2, <2>1, <2>2, <2>3 DEF OnData
<1>3. ASSUME NEW p \in Ptys, OnExit(p) PROVE UpToDate' /\ NoGaps'
  <2>1. Msg("exit", 0) \in Message /\ Msg("exit", 0).kind = "exit"
    BY MsgIsMessage
  <2> QED BY <1>1, <1>3, <2>1 DEF OnExit
\* A request that spawns finds no session, so no client waits for more output.
<1>4. ASSUME Requests, UNCHANGED <<clients, sock, inbox>> PROVE UpToDate' /\ NoGaps'
  BY <1>4, RequestStep DEF Spawns, UpToDate, NoGaps
<1>5. ASSUME NEW c \in Conns, Attach(c) PROVE UpToDate' /\ NoGaps'
  <2>1. PICK m :
           /\ inbox' = [inbox EXCEPT ![c] = <<m>>] /\ m.kind # "output"
           /\ \/ clients' = clients /\ sock' = [sock EXCEPT ![c] = "closed"]
              \/ clients' = clients \cup {c} /\ sock' = [sock EXCEPT ![c] = "open"]
    BY <1>5, MsgIsMessage DEF Attach
  <2>2. Len(<<m>>) = 1 /\ <<m>>[1] = m /\ <<m>> # <<>>
    OBVIOUS
  <2>3. UNCHANGED <<session, pty, fed>> \/ Spawns
    BY <1>5, RequestStep DEF Requests
  <2>4. sock[c] = "asked" /\ c \notin clients
    BY <1>5 DEF Attach, UpToDate
  <2>5. UpToDate'
    BY <2>1, <2>2, <2>3, <2>4 DEF UpToDate, Spawns, BridgeTypeOK
  <2>6. NoGaps'
    BY <2>1, <2>2 DEF NoGaps, BridgeTypeOK
  <2> QED BY <2>5, <2>6
<1>6. ASSUME NEW c \in Conns, Ask(c) \/ Detach(c) PROVE UpToDate' /\ NoGaps'
  BY <1>6 DEF Ask, Detach, UpToDate, NoGaps, BridgeTypeOK
<1>7. ASSUME UNCHANGED <<session, fed, clients, sock, inbox>> PROVE UpToDate' /\ NoGaps'
  BY <1>7 DEF UpToDate, NoGaps
<1> QED BY <1>2, <1>3, <1>4, <1>5, <1>6, <1>7 DEF CalmNext, Terminal, Draw, PtyEnds, Requests, Write,
        GetConsole, SendToConsole, bridgeVars

LEMMA CalmStep == CalmInv /\ [CalmNext]_bridgeVars => CalmInv'
BY BridgeTypeStep, ServedStep, OneSessionStep, FollowStep DEF CalmInv

LEMMA CalmInductive == CalmSpec => []CalmInv
BY CalmInit, CalmStep, PTL DEF CalmSpec

\* While nobody presses "Reset" there is one terminal: ensureSession spawns a pty only
\* after onExit of the last one.
THEOREM ThereIsOneTerminal == CalmSpec => []OneTerminal
<1>1. CalmInv => OneTerminal
  BY DEF CalmInv, OneSession, OneTerminal
<1> QED BY <1>1, CalmInductive, PTL

\* While nobody presses "Reset" every client is sent every chunk of output once and in
\* order between two exits, whoever else attaches or detaches: onData, onExit,
\* attachClient and detachClient.
THEOREM ClientsMissNothing == CalmSpec => []NoGaps
<1>1. CalmInv => NoGaps
  BY DEF CalmInv
<1> QED BY <1>1, CalmInductive, PTL

=============================================================================
