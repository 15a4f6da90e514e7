----------------------- MODULE TerminalSurfaceProofs -----------------------
(***************************************************************************)
(* What the bridge guarantees to the three pages of TerminalSurface, and   *)
(* what becomes of the keystrokes of the desktop page, for every number of *)
(* websockets, ptys and keystrokes and for every size of the buffers and   *)
(* of the queue.                                                           *)
(***************************************************************************)
EXTENDS TerminalSurface, TerminalBridgeProofs

USE BridgeAssumption, SurfaceAssumption

-----------------------------------------------------------------------------
(* The bridge, whichever page is open. *)

\* A page reads what its websocket brought.
Reads == \E c \in Conns :
    /\ inbox[c] # <<>> /\ inbox' = [inbox EXCEPT ![c] = Tail(@)]
    /\ UNCHANGED <<session, pty, fed, screen, clients, sock, buffer>>

Connected ==
    /\ conn \in Conns \cup {NoConn}
    /\ up => page = "desktop" /\ conn # NoConn

\* A step of a page is one of the bridge, or reads, or leaves the bridge alone.
LEMMA BridgeDoes ==
    ASSUME Connected, [Next]_vars
    PROVE  ([CalmNext \/ Reset]_bridgeVars \/ Reads) /\ Connected'
<1> USE DEF Connected
<1>1. Unused # {} => Opened \in Conns
  BY DEF Unused, Opened
<1>2. CASE Desktop
  <2>1. CASE ConnectSocket
    <3>1. Opened \in Conns /\ Ask(Opened) /\ conn' = Opened /\ UNCHANGED <<page, up>>
      BY <1>1, <2>1 DEF ConnectSocket, surfaceVars
    <3>2. Connected'
      BY <1>2, <3>1 DEF Desktop
    <3> QED BY <3>1, <3>2 DEF CalmNext
  <2>2. CASE OpenEvent
    BY <1>2, <2>2 DEF OpenEvent, Desktop
  <2>3. CASE MessageEvent
    BY <2>3 DEF MessageEvent, Reads, surfaceVars
  <2>4. CASE CloseEvent
    BY <2>4 DEF CloseEvent
  <2>5. CASE EnqueueOrSendInput
    BY <2>5 DEF EnqueueOrSendInput, pageVars
  <2> QED BY <1>2, <2>1, <2>2, <2>3, <2>4, <2>5 DEF Desktop
<1>3. CASE Other
  <2> USE <1>3 DEF Other, surfaceVars
  <2>1. CASE Connect
    BY <1>1, <2>1 DEF Connect, CalmNext
  <2>2. CASE Receive
    BY <2>2 DEF Receive, Reads
  <2>3. CASE Lose
    BY <2>3 DEF Lose
  <2>4. CASE Poll
    BY <2>4 DEF Poll
  <2>5. CASE Serve
    BY <2>5 DEF Serve, CalmNext
  <2>6. ASSUME NEW i \in 1..MaxFetches[page], Answer(i)
        PROVE  UNCHANGED bridgeVars /\ Connected'
    BY <2>6 DEF Answer
  <2> QED BY <2>1, <2>2, <2>3, <2>4, <2>5, <2>6 DEF PageNext
<1>4. CASE User
  BY <1>4 DEF User, ResetAnswered, CalmNext, pageVars, surfaceVars
<1>5. CASE Bridge
  BY <1>5 DEF Bridge, CalmNext, pageVars, surfaceVars
<1>6. CASE UNCHANGED vars
  BY <1>6 DEF vars, pageVars, surfaceVars
<1> QED BY <1>2, <1>3, <1>4, <1>5, <1>6 DEF Next

LEMMA ReadsKeep == BridgeTypeOK /\ Served /\ Reads => BridgeTypeOK' /\ Served'
<1> SUFFICES ASSUME BridgeTypeOK, Served, Reads PROVE BridgeTypeOK' /\ Served'
  OBVIOUS
<1>1. PICK c \in Conns : inbox[c] # <<>> /\ inbox' = [inbox EXCEPT ![c] = Tail(@)]
  BY DEF Reads
<1>2. Tail(inbox[c]) \in Seq(Message)
  BY <1>1, HeadTailProperties DEF BridgeTypeOK
<1> QED BY <1>1, <1>2 DEF Reads, BridgeTypeOK, Served

BridgeInv == BridgeTypeOK /\ Served /\ Connected

LEMMA BridgeInvariant == Spec => []BridgeInv
<1>1. Init => BridgeInv
  BY BridgeTypeInit DEF Init, PageInit, BridgeInit, BridgeInv, Served, Connected
<1>2. BridgeInv /\ [Next]_vars => BridgeInv'
  BY BridgeDoes, ReadsKeep, BridgeTypeStep, ServedStep DEF BridgeInv
<1> QED BY <1>1, <1>2, PTL DEF Spec

\* Whatever the three pages do with the bridge, the pty that serves their requests is
\* one whose exit has not been reported: ensureSession, onExit and reset.
THEOREM PagesAreServed == Spec => []SessionIsNotGone
<1>1. BridgeInv => SessionIsNotGone
  BY DEF BridgeInv, Served, SessionIsNotGone
<1> QED BY <1>1, BridgeInvariant, PTL

-----------------------------------------------------------------------------
(* The queue of the desktop page. *)

Rising(s) == \A i, j \in 1..Len(s) : i < j => s[i] < s[j]

\* What was sent, and then what waits, is every keystroke up to the last one, but for
\* those that were dropped.
Keys(s, n) ==
    /\ s \in Seq(Nat) /\ Rising(s)
    /\ \A i \in 1..Len(s) : s[i] <= n
    /\ n > 0 => s # <<>> /\ s[Len(s)] = n

LEMMA OneMoreKey ==
    ASSUME NEW s, NEW n \in Nat, Keys(s, n) PROVE Keys(Append(s, n + 1), n + 1)
<1> DEFINE t == Append(s, n + 1)
<1>0. s \in Seq(Nat) /\ n + 1 \in Nat
  BY DEF Keys
<1>1. /\ t \in Seq(Nat) /\ Len(t) = Len(s) + 1 /\ Len(s) \in Nat /\ t[Len(s) + 1] = n + 1
      /\ \A i \in 1..Len(s) : t[i] = s[i] /\ s[i] \in Nat
      /\ t # <<>>
  BY <1>0, AppendProperties
<1> HIDE DEF t
<1>2. \A i \in 1..Len(t) : IF i = Len(t) THEN t[i] = n + 1 ELSE t[i] = s[i] /\ t[i] <= n
  BY <1>1 DEF Keys
<1>3. ASSUME NEW i \in 1..Len(t), NEW j \in 1..Len(t), i < j PROVE t[i] < t[j]
  <2>1. i \in 1..Len(s) /\ t[i] = s[i] /\ s[i] <= n /\ s[i] \in Nat
    BY <1>1, <1>2, <1>3
  <2>2. CASE j = Len(t)
    BY <1>2, <2>1, <2>2
  <2>3. CASE j # Len(t)
    <3>1. j \in 1..Len(s) /\ t[j] = s[j]
      BY <1>1, <1>2, <2>3
    <3> QED BY <1>3, <2>1, <3>1 DEF Keys, Rising
  <2> QED BY <2>2, <2>3
<1>4. \A i \in 1..Len(t) : t[i] <= n + 1
  BY <1>1, <1>2
<1>5. Keys(t, n + 1)
  BY <1>1, <1>3, <1>4 DEF Keys, Rising
<1> QED BY <1>5 DEF t

\* What is appended to what waits comes last of all.
LEMMA AppendLast ==
    ASSUME NEW s \in Seq(Nat), NEW q \in Seq(Nat), NEW n \in Nat
    PROVE  s \o Append(q, n) = Append(s \o q, n)
OBVIOUS

\* Dropping the oldest keystrokes that wait leaves the others in order, and the last one.
LEMMA FewerKeys ==
    ASSUME NEW s \in Seq(Nat), NEW q \in Seq(Nat), NEW n \in Nat, q # <<>>, Keys(s \o q, n)
    PROVE  Keys(s \o Newest(q, QueueLimit), n)
<1> DEFINE r == Newest(q, QueueLimit)
<1> DEFINE d == Len(q) - Len(r)
<1>1. /\ r \in Seq(Nat) /\ \A i \in 1..Len(r) : r[i] = q[i + d]
      /\ Len(r) = IF Len(q) > QueueLimit THEN QueueLimit ELSE Len(q)
  BY NewestCuts
<1> HIDE DEF r
<1>2. Len(s) \in Nat /\ Len(q) \in Nat \ {0} /\ Len(r) \in Nat \ {0} /\ d \in Nat
  BY <1>1
<1> HIDE DEF d
<1>3. /\ s \o r \in Seq(Nat) /\ Len(s \o r) = Len(s) + Len(r)
      /\ \A i \in 1..Len(s) + Len(r) : (s \o r)[i] = IF i <= Len(s) THEN s[i] ELSE r[i - Len(s)]
  <2>1. s \in Seq(Nat) /\ r \in Seq(Nat)
    BY <1>1
  <2> QED BY ONLY <2>1, ConcatProperties
<1>4. /\ s \o q \in Seq(Nat) /\ Len(s \o q) = Len(s) + Len(q)
      /\ \A i \in 1..Len(s) + Len(q) : (s \o q)[i] = IF i <= Len(s) THEN s[i] ELSE q[i - Len(s)]
  <2>1. s \in Seq(Nat) /\ q \in Seq(Nat)
    OBVIOUS
  <2> QED BY ONLY <2>1, ConcatProperties
<1> DEFINE at(i) == IF i <= Len(s) THEN i ELSE i + d
<1>5. Len(r) + d = Len(q) /\ (Len(s) + Len(r)) + d = Len(s) + Len(q)
  BY <1>2 DEF d
<1>6. ASSUME NEW i \in 1..Len(s \o r)
      PROVE  at(i) \in 1..Len(s \o q) /\ (s \o r)[i] = (s \o q)[at(i)]
  <2>1. i \in 1..Len(s) + Len(r) /\ at(i) \in 1..Len(s) + Len(q)
    BY <1>2, <1>3, <1>4, <1>5
  <2>2. CASE i <= Len(s)
    BY <1>3, <1>4, <2>1, <2>2
  <2>3. CASE ~(i <= Len(s))
    <3>1. i - Len(s) \in 1..Len(r) /\ (i + d) - Len(s) = (i - Len(s)) + d /\ ~(i + d <= Len(s))
      BY <1>2, <2>1, <2>3
    <3>2. (s \o r)[i] = r[i - Len(s)] /\ (s \o q)[i + d] = q[(i + d) - Len(s)]
      BY <1>3, <1>4, <2>1, <2>3, <3>1
    <3> QED BY <1>1, <1>4, <2>1, <2>3, <3>1, <3>2
  <2> QED BY <2>2, <2>3
<1>7. \A i, j \in 1..Len(s \o r) : i < j => at(i) < at(j)
  <2>1. \A i, j \in Nat : i < j => at(i) < at(j)
    BY <1>2
  <2>2. 1..Len(s \o r) \subseteq Nat
    OBVIOUS
  <2> QED BY ONLY <2>1, <2>2
<1>8. at(Len(s \o r)) = Len(s \o q) /\ Len(s \o r) \in 1..Len(s \o r)
  <2>1. ~(Len(s) + Len(r) <= Len(s))
    BY <1>2
  <2>2. at(Len(s) + Len(r)) = (Len(s) + Len(r)) + d
    BY <2>1
  <2>3. Len(s) + Len(r) \in 1..(Len(s) + Len(r))
    BY <1>2
  <2> QED BY <1>3, <1>4, <1>5, <2>2, <2>3
<1> HIDE DEF at
<1>9. Rising(s \o r) /\ \A i \in 1..Len(s \o r) : (s \o r)[i] <= n
  BY <1>6, <1>7 DEF Keys, Rising
<1>10. s \o r # <<>> /\ (n > 0 => (s \o r)[Len(s \o r)] = n)
  <2>1. (s \o r)[Len(s \o r)] = (s \o q)[Len(s \o q)]
    BY <1>6, <1>8
  <2>2. n > 0 => (s \o q)[Len(s \o q)] = n
    BY DEF Keys
  <2>3. s \o r # <<>>
    BY <1>8
  <2> QED BY <2>1, <2>2, <2>3
<1>11. Keys(s \o r, n)
  BY <1>3, <1>9, <1>10 DEF Keys
<1> QED BY <1>11 DEF r

\* The invariant: what has to be flushed waits only while the websocket is down.
QueueInv ==
    /\ typed \in Nat /\ sent \in Seq(Nat) /\ queue \in Seq(Nat)
    /\ Keys(sent \o queue, typed)
    /\ Len(queue) <= QueueLimit
    /\ up => queue = <<>>

LEMMA QueueInit == Init => QueueInv
<1> SUFFICES ASSUME Init PROVE QueueInv
  OBVIOUS
<1>1. sent = <<>> /\ queue = <<>> /\ typed = 0 /\ up = FALSE
  BY DEF Init
<1>2. sent \o queue = <<>> /\ Len(<<>>) = 0 /\ <<>> \in Seq(Nat)
  BY <1>1, ConcatEmptySeq, EmptySeq
<1> QED BY <1>1, <1>2 DEF QueueInv, Keys, Rising

LEMMA QueueStep == QueueInv /\ [Next]_vars => QueueInv'
<1> SUFFICES ASSUME QueueInv, [Next]_vars PROVE QueueInv'
  OBVIOUS
<1>1. typed \in Nat /\ sent \in Seq(Nat) /\ queue \in Seq(Nat) /\ typed + 1 \in Nat
  BY DEF QueueInv
<1>2. CASE OpenEvent
  <2>1. sent' = sent \o queue /\ queue' = <<>> /\ typed' = typed
    BY <1>2 DEF OpenEvent, FlushPendingInput
  <2>2. sent' \in Seq(Nat) /\ sent' \o queue' = sent \o queue /\ Len(<<>>) = 0 /\ <<>> \in Seq(Nat)
    BY <1>1, <2>1, ConcatProperties, ConcatEmptySeq
  <2> QED BY <1>1, <2>1, <2>2 DEF QueueInv
<1>3. CASE EnqueueOrSendInput /\ up
  <2>1. sent' = Append(sent, typed + 1) /\ queue' = <<>> /\ typed' = typed + 1 /\ queue = <<>>
    BY <1>3 DEF EnqueueOrSendInput, QueueInv
  <2>2. sent \o queue = sent /\ sent' \o queue' = sent' /\ sent' \in Seq(Nat)
    BY <1>1, <2>1, ConcatEmptySeq, AppendProperties
  <2>3. Keys(sent', typed')
    BY <1>1, <2>1, <2>2, OneMoreKey DEF QueueInv
  <2> QED BY <1>1, <2>1, <2>2, <2>3 DEF QueueInv
<1>4. CASE EnqueueOrSendInput /\ ~up
  <2> DEFINE longer == Append(queue, typed + 1)
  <2>1. sent' = sent /\ queue' = Newest(longer, QueueLimit) /\ typed' = typed + 1 /\ up' = up
    BY <1>4 DEF EnqueueOrSendInput, Enqueue
  <2>2. longer \in Seq(Nat) /\ longer # <<>>
    <3>1. queue \in Seq(Nat) /\ typed + 1 \in Nat
      BY <1>1
    <3> HIDE DEF QueueInv
    <3> QED BY <3>1, AppendProperties
  <2>3. sent \o longer = Append(sent \o queue, typed + 1)
    <3>1. sent \in Seq(Nat) /\ queue \in Seq(Nat) /\ typed + 1 \in Nat
      BY <1>1
    <3> QED BY ONLY <3>1, AppendLast DEF longer
  <2>4. Keys(sent \o longer, typed + 1)
    BY <1>1, <2>3, OneMoreKey DEF QueueInv
  <2> HIDE DEF longer
  <2>5. Keys(sent \o queue', typed + 1)
    BY <1>1, <2>1, <2>2, <2>4, FewerKeys
  <2>6. queue' \in Seq(Nat) /\ Len(queue') <= QueueLimit
    <3>1. Len(longer) \in Nat
      BY <2>2
    <3>2. /\ Newest(longer, QueueLimit) \in Seq(Nat)
          /\ Len(Newest(longer, QueueLimit)) = IF Len(longer) > QueueLimit THEN QueueLimit
                                               ELSE Len(longer)
      BY <2>2, NewestCuts
    <3> QED BY <2>1, <3>1, <3>2
  <2> QED BY <1>1, <1>4, <2>1, <2>5, <2>6 DEF QueueInv
<1>5. ASSUME UNCHANGED <<queue, typed, sent>>, up' = up \/ up' = FALSE PROVE QueueInv'
  <2>1. up' => queue' = <<>>
    BY <1>5 DEF QueueInv
  <2> QED BY <1>5, <2>1 DEF QueueInv
<1>6. ~OpenEvent /\ ~EnqueueOrSendInput =>
         UNCHANGED <<queue, typed, sent>> /\ (up' = up \/ up' = FALSE)
  BY DEF Next, Desktop, Other, User, Bridge, ConnectSocket, MessageEvent, CloseEvent, vars, surfaceVars
<1> QED BY <1>2, <1>3, <1>4, <1>5, <1>6

\* Keystrokes are sent in the order in which they are typed, through every loss of the
\* websocket; the newest one is never dropped, and the queue keeps to its limit:
\* enqueueOrSendInput and flushPendingInput.
THEOREM KeysAreSentInOrder == Spec => []TypedInOrder
<1>1. QueueInv => TypedInOrder
  <2> SUFFICES ASSUME QueueInv PROVE TypedInOrder
    OBVIOUS
  <2>1. sent \o queue \in Seq(Nat) /\ DOMAIN (sent \o queue) = 1..Len(sent \o queue)
    BY ConcatProperties DEF QueueInv
  <2> QED BY <2>1 DEF QueueInv, Keys, Rising, TypedInOrder, Last
<1> QED BY <1>1, QueueInit, QueueStep, PTL DEF Spec

=============================================================================
