----------------------------- MODULE TerminalInput -----------------------------
(***************************************************************************)
(* What is typed on the pages of the Codex mobile terminal, on its way to  *)
(* the terminal. On two of them each piece of input is a POST, which the   *)
(* web app forwards to the bridge.                                         *)
(*                                                                         *)
(* The iPhone terminal (mobile-ios/TerminalInputControllerIOS.js, with its *)
(* toolbar) posts every key at once, and takes none meanwhile; "Ctrl" is   *)
(* armed for the key that follows. The console (ConsoleWorkspace.js) posts *)
(* the draft, and clears it when the answer is good. The desktop page      *)
(* (TerminalWorkspace.js) clears its draft at once: its websocket takes    *)
(* it, or a queue until there is one again; its "Paste" waits for the      *)
(* clipboard first.                                                        *)
(*                                                                         *)
(* Keys are numbered in the order in which they are typed; a text that an  *)
(* input method or a paste brings is two keys. Handlers of one key press   *)
(* run without anything in between.                                        *)
(***************************************************************************)
EXTENDS Naturals, SequencesExt

CONSTANTS
    Devices,        \* the pages: "phone", "console" and "desktop"
    MaxKeys,        \* how many keys are typed, and
    MaxPosts        \* how many pieces of input are posted (bounds)

ASSUME TypingAssumption ==
    Devices \subseteq {"phone", "console", "desktop"} /\ MaxKeys \in Nat /\ MaxPosts \in Nat

VARIABLES
    device,         \* the page that is open
    struck,         \* how many keys have been typed
    draft,          \* the draft of the console, or of the desktop page
    online,         \* whether the websocket of the desktop page is open
    waiting,        \* pendingInputQueueRef of the desktop page
    pasting,        \* the texts for which it waits for the clipboard
    armed,          \* ctrlArmed
    composing,      \* composingRef
    sending,        \* sending: the input is disabled
    posts,          \* the POSTs under way; on those that are "late" the page has given up
    posted,         \* how many there have been
    arrived,        \* the keys that the bridge has written to the terminal
    tui, seesTui,   \* whether Codex has the terminal: as the bridge and the page see it
    lapped,         \* input was sent while other input was on its way (history)
    again,          \* a draft was sent again that may have arrived (history)
    armings         \* how often Ctrl was pressed (history)

postVars == <<device, struck, draft, armed, composing, sending, posts, posted, arrived,
              tui, seesTui, lapped, again, armings>>
desktopVars == <<online, waiting, pasting>>
typingVars == <<postVars, desktopVars>>

Key(n, ctrl) == [nr |-> n, ctrl |-> ctrl]

-----------------------------------------------------------------------------
(* sendInput: one POST for these keys. *)

Post(n, keys) == [nr |-> n, keys |-> keys, stage |-> "sent"]

\* Several pieces of input in one step: the page does not wait in between. "laps"
\* notes what they may overtake; a late POST is something they may overtake, too.
SendPieces(pieces, laps) ==
    /\ posted + Len(pieces) <= MaxPosts /\ posted' = posted + Len(pieces)
    /\ posts' = posts \cup {Post(posted + i, pieces[i]) : i \in DOMAIN pieces}
    /\ sending' = (sending \/ pieces # <<>>)
    /\ lapped' = (lapped \/ laps \/ (pieces # <<>> /\ \E p \in posts : p.stage = "late"))

\* Variant: takes input all the time.
EmitAlways(pieces, laps) == SendPieces(pieces, laps)

\* emit: nothing, while the input is disabled. What is typed then is lost.
Emit(pieces, laps) ==
    IF sending THEN SendPieces(<<>>, FALSE) ELSE SendPieces(pieces, laps)

\* handlePrintable: Ctrl is for the first key, and used up even if there is no such
\* control character ("plain") or the input is disabled.
HandlePrintable(keys, plain) ==
    /\ armed' = FALSE
    /\ IF ~armed THEN Emit(<<keys>>, FALSE)
       ELSE Emit((IF plain THEN <<>> ELSE << <<Key(keys[1].nr, TRUE)>> >>)
                    \o IF Len(keys) > 1 THEN <<Tail(keys)>> ELSE <<>>, Len(keys) > 1)

Type(n) == struck + n <= MaxKeys /\ struck' = struck + n
OnPhone == device = "phone"
Elsewhere == <<device, draft, composing, arrived, tui, seesTui, again>>

\* handleKeyDown, handleBeforeInput, handleInput for one printable key; with a
\* hardware Ctrl, or with the one of the toolbar. (One that an input method takes is
\* part of what it brings in the end.)
PressKey(plain) ==
    /\ OnPhone /\ (~composing \/ (armed /\ ~sending)) /\ Type(1)
    /\ IF sending THEN SendPieces(<<>>, FALSE) /\ UNCHANGED armed
       ELSE HandlePrintable(<<Key(struck + 1, FALSE)>>, plain)
    /\ UNCHANGED <<Elsewhere, armings>>

PressCtrl ==
    /\ OnPhone /\ ~armed /\ Type(1)
    /\ armings' = armings + 1
    /\ Emit(<< <<Key(struck + 1, TRUE)>> >>, FALSE)
    /\ UNCHANGED <<Elsewhere, armed>>

\* specialKeyMap: Enter, arrows and so on leave Ctrl armed.
PressSpecial ==
    /\ OnPhone /\ Type(1)
    /\ Emit(<< <<Key(struck + 1, FALSE)>> >>, FALSE)
    /\ UNCHANGED <<Elsewhere, armed, armings>>

\* handlePaste; while it is disabled the browser pastes, and handleInput clears it.
Paste ==
    /\ OnPhone /\ Type(2)
    /\ IF sending THEN SendPieces(<<>>, FALSE) /\ UNCHANGED armed
       ELSE HandlePrintable(<<Key(struck + 1, FALSE), Key(struck + 2, FALSE)>>, FALSE)
    /\ UNCHANGED <<Elsewhere, armings>>

\* An input method: nothing is sent before it ends, whatever the field holds.
StartComposition ==
    /\ OnPhone /\ ~composing /\ struck + 2 <= MaxKeys /\ composing' = TRUE
    /\ UNCHANGED <<device, struck, draft, armed, sending, posts, posted, arrived, tui,
                   seesTui, lapped, again, armings>>

EndComposition ==
    /\ composing /\ composing' = FALSE /\ Type(2)
    /\ HandlePrintable(<<Key(struck + 1, FALSE), Key(struck + 2, FALSE)>>, FALSE)
    /\ UNCHANGED <<device, draft, arrived, tui, seesTui, again, armings>>

\* MobileTerminalToolbar: "Ctrl"; the other buttons are never disabled.
ArmCtrl ==
    /\ OnPhone /\ ~armed /\ struck < MaxKeys
    /\ armed' = TRUE /\ armings' = armings + 1
    /\ UNCHANGED <<device, struck, draft, composing, sending, posts, posted, arrived, tui,
                   seesTui, lapped, again>>

PressButton ==
    /\ OnPhone /\ Type(1)
    /\ SendPieces(<< <<Key(struck + 1, FALSE)>> >>, posts # {})
    /\ UNCHANGED <<Elsewhere, armed, armings>>

-----------------------------------------------------------------------------
(* The console. *)

OnConsole == device = "console" /\ ~seesTui
Unsubmitted == <<device, armed, composing, arrived, tui, seesTui, armings>>

\* The input is disabled while Codex has the terminal, not while it is sending.
Write ==
    /\ OnConsole /\ Type(1)
    /\ draft' = Append(draft, Key(struck + 1, FALSE))
    /\ UNCHANGED <<Unsubmitted, sending, posts, posted, lapped, again>>

\* handleSubmit, sendInput
SubmitDraft ==
    /\ OnConsole /\ ~sending /\ draft # <<>>
    /\ SendPieces(<<draft>>, FALSE)
    /\ again' = (again \/ ToSet(draft) \cap ToSet(arrived) # {})
    /\ UNCHANGED <<Unsubmitted, struck, draft>>

\* A button that sends a command, before what the draft holds.
QuickAction ==
    /\ OnConsole /\ ~sending /\ Type(1)
    /\ SendPieces(<< <<Key(struck + 1, FALSE)>> >>, draft # <<>>)
    /\ UNCHANGED <<Unsubmitted, draft, again>>

-----------------------------------------------------------------------------
(* The desktop page. *)

OnDesktop == device = "desktop"
Untaken == <<device, armed, composing, sending, posts, tui, seesTui, again, armings>>

\* enqueueOrSendInput, of which posted < MaxPosts bounds the calls: the queue never
\* reaches its limit here. A websocket that is lost may lose what it was given.
EnqueueOrSend(keys) ==
    /\ posted < MaxPosts /\ posted' = posted + 1
    /\ IF online THEN arrived' \in {arrived, arrived \o keys} /\ UNCHANGED waiting
       ELSE waiting' = waiting \o keys /\ UNCHANGED arrived
    /\ UNCHANGED online

\* The composer is never disabled.
WriteDraft ==
    /\ OnDesktop /\ Type(1)
    /\ draft' = Append(draft, Key(struck + 1, FALSE))
    /\ UNCHANGED <<Untaken, desktopVars, posted, arrived, lapped>>

\* submitDraft: in either mode the draft is gone, sent or not.
SubmitComposer ==
    /\ OnDesktop /\ draft # <<>>
    /\ EnqueueOrSend(draft) /\ draft' = <<>>
    /\ lapped' = (lapped \/ pasting # {})
    /\ UNCHANGED <<Untaken, struck, pasting>>

\* handleControl, and handleComposerKeyDown for arrows and Escape in a command: a key or
\* a command is sent, before what the draft holds.
HandleControl ==
    /\ OnDesktop /\ Type(1)
    /\ EnqueueOrSend(<<Key(struck + 1, FALSE)>>)
    /\ lapped' = (lapped \/ draft # <<>> \/ pasting # {})
    /\ UNCHANGED <<Untaken, draft, pasting>>

\* Its "Paste": the page waits for the clipboard, and takes other input meanwhile. (The
\* text has the number of the click.)
PressPaste ==
    /\ OnDesktop /\ Type(1)
    /\ pasting' = pasting \cup {struck + 1} /\ lapped' = (lapped \/ draft # <<>>)
    /\ UNCHANGED <<Untaken, draft, posted, arrived, online, waiting>>

\* pasteFromClipboard goes on, with a text; or it may not read it, or there is none.
ClipboardRead(n) ==
    /\ n \in pasting /\ pasting' = pasting \ {n}
    /\ \/ EnqueueOrSend(<<Key(n, FALSE)>>) /\ lapped' = (lapped \/ \E m \in pasting' : m < n)
       \/ UNCHANGED <<posted, arrived, online, waiting, lapped>>
    /\ UNCHANGED <<Untaken, struck, draft>>

\* The websocket is lost, or another is opened, which takes what waits.
LinkChanges ==
    /\ OnDesktop /\ online' = ~online
    /\ IF online THEN UNCHANGED <<arrived, waiting>>
       ELSE \E n \in 0..Len(waiting) :
            arrived' = arrived \o SubSeq(waiting, 1, n) /\ waiting' = <<>>
    /\ UNCHANGED <<Untaken, struck, draft, posted, lapped, pasting>>

-----------------------------------------------------------------------------
(* The web app and the bridge. *)

AnswerPost(p, stage) == posts' = (posts \ {p}) \cup {[p EXCEPT !.stage = stage]}

\* POST /api/terminal/input and POST /api/console/send of the web app: 401, or what
\* the bridge answers, or 502 if it does not; it may have written the input even so, or
\* have written it to a pty that has just ended. What is late is written even so.
ForwardInput(p, refuses) ==
    /\ \/ /\ p.stage = "sent"
          /\ \/ AnswerPost(p, "refused") /\ UNCHANGED arrived
             \/ /\ ~refuses /\ arrived' \in {arrived, arrived \o p.keys}
                /\ \/ AnswerPost(p, "ok") \/ AnswerPost(p, "refused")
       \/ /\ p.stage = "late" /\ posts' = posts \ {p}
          /\ UNCHANGED arrived \/ (~refuses /\ arrived' = arrived \o p.keys)
    /\ UNCHANGED <<device, struck, draft, armed, composing, sending, posted, tui, seesTui,
                   lapped, again, armings>>

PostTerminalInput(p) == device = "phone" /\ ForwardInput(p, FALSE)

\* The bridge refuses input from the console while Codex has the terminal: 409.
PostConsoleSend(p) == device = "console" /\ ForwardInput(p, tui)

\* The browser gives up on a POST, which goes its way; the page takes input again.
GiveUp(p) ==
    /\ p.stage = "sent" /\ AnswerPost(p, "late") /\ sending' = FALSE
    /\ UNCHANGED <<device, struck, draft, armed, composing, posted, arrived, tui, seesTui,
                   lapped, again, armings>>

\* The answer: any of them enables the input again. A good one clears the draft, even
\* one that is newer.
InputAnswered(p) ==
    /\ p.stage \in {"ok", "refused"} /\ posts' = posts \ {p} /\ sending' = FALSE
    /\ draft' = IF p.stage = "ok" THEN <<>> ELSE draft
    /\ UNCHANGED <<device, struck, armed, composing, posted, arrived, tui, seesTui, lapped,
                   again, armings>>

\* Codex starts or ends; the page sees it with its next snapshot.
CodexComesAndGoes ==
    /\ device = "console" /\ \/ tui' = ~tui /\ UNCHANGED seesTui
                             \/ seesTui' = tui /\ UNCHANGED tui
    /\ UNCHANGED <<device, struck, draft, armed, composing, sending, posts, posted, arrived,
                   lapped, again, armings>>

TypingInit ==
    /\ device \in Devices /\ struck = 0 /\ draft = <<>>
    /\ armed = FALSE /\ composing = FALSE /\ sending = FALSE
    /\ posts = {} /\ posted = 0 /\ arrived = <<>>
    /\ tui = FALSE /\ seesTui = FALSE
    /\ lapped = FALSE /\ again = FALSE /\ armings = 0
    /\ online = FALSE /\ waiting = <<>> /\ pasting = {}

PostsNext ==
    \/ (\E plain \in BOOLEAN : PressKey(plain)) \/ PressCtrl \/ PressSpecial \/ Paste
    \/ StartComposition \/ EndComposition \/ ArmCtrl \/ PressButton
    \/ Write \/ SubmitDraft \/ QuickAction
    \/ \E p \in posts : PostTerminalInput(p) \/ PostConsoleSend(p) \/ InputAnswered(p) \/ GiveUp(p)
    \/ CodexComesAndGoes

TypingNext ==
    \/ PostsNext /\ UNCHANGED desktopVars
    \/ WriteDraft \/ SubmitComposer \/ HandleControl \/ LinkChanges
    \/ PressPaste \/ (\E n \in pasting : ClipboardRead(n))

-----------------------------------------------------------------------------
(* Properties. *)

Increasing(s) == \A i, j \in DOMAIN s : i < j => s[i].nr < s[j].nr
CtrlKeys == {i \in DOMAIN arrived : arrived[i].ctrl}

\* The terminal gets every key at most once, in the order in which they were typed,
\* whatever posts fail: unless a button of the toolbar, or a text after Ctrl, sent
\* several pieces at once, a button was pressed before a draft was sent, something was
\* sent while a POST that the browser had given up on was still under way or while the
\* page waited for the clipboard, or a draft is sent again whose answer was lost. And
\* Ctrl works for at most one key.
TypedOnce ==
    /\ ~lapped /\ ~again => Increasing(arrived)
    /\ Cardinality(CtrlKeys) <= armings

=============================================================================
