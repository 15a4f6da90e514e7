----------------------------- MODULE AdminProofs -----------------------------
(***************************************************************************)
(* What the lists of an admin show, select and keep, for any number of     *)
(* rows, requests, answers under way, and other admins.                    *)
(***************************************************************************)
EXTENDS FrontendProofs

USE ListingAssumption, AdminAssumption

-----------------------------------------------------------------------------
(* Types. *)

RowLists == [Rows -> Contents \cup {NoRow}]
Filters == {"all"} \cup States

\* Patches, by row.
Rests == UNION {[S -> Patches] : S \in SUBSET Rows}

RowCall ==
    [op : {"create", "delete", "patch", "bulk"}, about : Rows \cup {NoRow},
     row : Rows \cup {NoRow}, value : Patches \cup {NoRow},
     seen : [filter : Filters, rest : Rests],
     stage : {"sent", "done", "refused", "loading"}, noted : BOOLEAN]

\* Requests that wait for a list.
Loading == {c \in RowCall : c.stage = "loading"}

Answer ==
    [rows : RowLists, waits : SUBSET Loading, silent : BOOLEAN,
     seen : {NoRow}]

\* What a request is about: a PATCH has a row, and patches it before it is answered,
\* with the row as it is stored; only a bulk change goes on.
Sound(c) ==
    /\ c.op \in {"patch", "bulk"} => c.row \in Rows /\ (c.stage = "done" => c.value \in Contents)
    /\ c.op \in {"patch", "bulk"} /\ c.stage = "sent" => c.value \in Patches
    /\ c.op \in {"create", "delete"} => c.value \in Contents \cup {NoRow} /\ page # "requests"
    /\ c.op # "bulk" => c.seen.rest = <<>>

CallsInv == calls \subseteq RowCall /\ \A c \in calls : Sound(c)

\* The lists of both pages; and what the inbox lists has a draft.
ListsInv ==
    /\ table \in RowLists /\ list \in RowLists /\ drafts \in RowLists
    /\ loads \in Seq(Answer) /\ CallsInv
    /\ filter \in Filters /\ selected \subseteq Listed /\ others \in Nat
    /\ page = "requests" => \A r \in Listed : drafts[r] # NoRow

\* One thing that is on its way arrives before others.
LEMMA Removed ==
    ASSUME NEW S, NEW s \in Seq(S), NEW i \in DOMAIN s
    PROVE  /\ RemoveAt(s, i) \in Seq(S) /\ Len(RemoveAt(s, i)) = Len(s) - 1
           /\ \A j \in 1..(Len(s) - 1) : RemoveAt(s, i)[j] = IF j < i THEN s[j] ELSE s[j + 1]
<1> DEFINE a == SubSeq(s, 1, i - 1)
           b == SubSeq(s, i + 1, Len(s))
<1>1. i \in 1..Len(s) /\ Len(s) \in Nat
  OBVIOUS
<1>2. a \in Seq(S) /\ Len(a) = i - 1 /\ \A j \in 1..(i - 1) : a[j] = s[j]
  BY <1>1
<1>3. b \in Seq(S) /\ Len(b) = Len(s) - i /\ \A j \in 1..(Len(s) - i) : b[j] = s[i + j]
  BY <1>1
<1>4. RemoveAt(s, i) = a \o b
  BY DEF RemoveAt
<1> HIDE DEF a, b
<1>5. a \o b \in Seq(S) /\ Len(a \o b) = Len(s) - 1
  BY <1>1, <1>2, <1>3
<1>6. ASSUME NEW j \in 1..(Len(s) - 1) PROVE (a \o b)[j] = IF j < i THEN s[j] ELSE s[j + 1]
  BY <1>1, <1>2, <1>3
<1> QED BY <1>4, <1>5, <1>6

LEMMA FilteredIsList == ASSUME NEW rows \in RowLists, NEW f PROVE Filtered(f, rows) \in RowLists
BY DEF Filtered, RowLists

LEMMA PatchedIsContent ==
    ASSUME NEW row \in Contents, NEW patch \in Patches PROVE Patched(row, patch) \in Contents
BY DEF Patched, Patches

LEMMA NoRests == <<>> \in Rests
<1>1. <<>> \in [{} -> Patches]
  OBVIOUS
<1> QED BY <1>1 DEF Rests

LEMMA FewerRests ==
    ASSUME NEW f \in Rests, NEW r \in DOMAIN f
    PROVE  /\ r \in Rows /\ f[r] \in Patches
           /\ Restrict(f, DOMAIN f \ {r}) \in Rests
           /\ DOMAIN Restrict(f, DOMAIN f \ {r}) = DOMAIN f \ {r}
<1>1. PICK S \in SUBSET Rows : f \in [S -> Patches]
  BY DEF Rests
<1>2. Restrict(f, DOMAIN f \ {r}) \in [S \ {r} -> Patches]
  BY <1>1 DEF Restrict
<1>3. S \ {r} \in SUBSET Rows
  OBVIOUS
<1> QED BY <1>1, <1>2, <1>3 DEF Rests

-----------------------------------------------------------------------------
(* Requests. *)

\* Two requests differ in their buttons, at most.
Alike(c, d) ==
    c.op = d.op /\ c.row = d.row /\ c.value = d.value /\ c.seen = d.seen /\ c.stage = d.stage

Marked(c, ops) == [c EXCEPT !.noted = @ /\ c.op \notin ops]

LEMMA Forgotten ==
    ASSUME NEW S \in SUBSET RowCall, NEW ops
    PROVE  /\ Forget(S, ops) = {Marked(c, ops) : c \in S}
           /\ \A c \in S : Marked(c, ops) \in RowCall /\ Alike(c, Marked(c, ops))
           /\ Forget(S, ops) \subseteq RowCall
           /\ \A d \in Forget(S, ops) : \E c \in S : d = Marked(c, ops)
<1>1. Forget(S, ops) = {Marked(c, ops) : c \in S}
  BY DEF Forget, Marked
<1>2. ASSUME NEW c \in S PROVE Marked(c, ops) \in RowCall /\ Alike(c, Marked(c, ops))
  <2> DEFINE b == c.noted /\ c.op \notin ops
  <2>1. b \in BOOLEAN /\ c \in RowCall
    OBVIOUS
  <2>2. Marked(c, ops) = [c EXCEPT !.noted = b]
    BY DEF Marked
  <2> HIDE DEF b
  <2> QED BY <2>1, <2>2 DEF RowCall, Alike
<1> QED BY <1>1, <1>2

LEMMA Images ==
    ASSUME NEW S \in SUBSET RowCall, NEW ops
    PROVE  /\ \A c \in S : Marked(c, ops) \in Forget(S, ops) /\ Alike(c, Marked(c, ops))
           /\ \A d \in Forget(S, ops) : \E c \in S : d = Marked(c, ops) /\ Alike(c, d)
<1>1. /\ Forget(S, ops) = {Marked(c, ops) : c \in S}
      /\ \A c \in S : Alike(c, Marked(c, ops))
  BY Forgotten
<1> QED BY <1>1

\* Another stage.
LEMMA Restaged ==
    ASSUME NEW c \in RowCall, NEW stage \in {"sent", "done", "refused", "loading"}
    PROVE  LET d == [c EXCEPT !.stage = stage]
           IN  /\ d \in RowCall /\ d.stage = stage
               /\ d.op = c.op /\ d.row = c.row /\ d.value = c.value /\ d.seen = c.seen
               /\ d.noted = c.noted
BY DEF RowCall

LEMMA OverIsSound == ASSUME CallsInv, NEW done \in SUBSET calls, calls' = Over(done), page' = page
                     PROVE  CallsInv'
<1> DEFINE ops == {c.op : c \in done}
<1>1. calls \ done \in SUBSET RowCall /\ calls' = Forget(calls \ done, ops)
  BY DEF CallsInv, Over
<1> HIDE DEF ops
<1>2. calls' \subseteq RowCall /\ \A d \in calls' : \E c \in calls : Alike(c, d)
  BY <1>1, Forgotten
<1> QED BY <1>2 DEF CallsInv, Sound, Alike

LEMMA SendIsSound ==
    ASSUME CallsInv, NEW op, NEW about, NEW r, NEW value, NEW seen, Send(op, about, r, value, seen),
           NEW n, n = [op |-> op, about |-> about, row |-> r, value |-> value,
                       seen |-> seen, stage |-> "sent", noted |-> TRUE],
           n \in RowCall, Sound(n), page' = page
    PROVE  CallsInv'
<1>1. calls \in SUBSET RowCall /\ calls' = Forget(calls, {op}) \cup {n}
  BY DEF CallsInv, Send
<1>2. /\ Forget(calls, {op}) \subseteq RowCall
      /\ \A d \in Forget(calls, {op}) : \E c \in calls : Alike(c, d)
  BY <1>1, Forgotten
<1>3. calls' \subseteq RowCall /\ \A d \in calls' : d = n \/ \E c \in calls : Alike(c, d)
  BY <1>1, <1>2
<1> QED BY <1>3 DEF CallsInv, Sound, Alike

LEMMA OneIsSound ==
    ASSUME CallsInv, NEW c, NEW n \in RowCall, Sound(n), calls' = (calls \ {c}) \cup {n},
           page' = page
    PROVE  CallsInv'
BY DEF CallsInv, Sound

LEMMA AtIsSound ==
    ASSUME CallsInv, NEW c \in calls, NEW stage \in {"refused", "loading"}, calls' = At(c, stage),
           page' = page
    PROVE  CallsInv'
<1> DEFINE n == [c EXCEPT !.stage = stage]
<1>1. /\ n \in RowCall /\ n.stage = stage
      /\ n.op = c.op /\ n.row = c.row /\ n.value = c.value /\ n.seen = c.seen
  <2>1. c \in RowCall /\ stage \in {"sent", "done", "refused", "loading"}
    BY DEF CallsInv
  <2> QED BY ONLY <2>1, Restaged
<1>2. calls' = (calls \ {c}) \cup {n}
  BY DEF At
<1> HIDE DEF n
<1>3. Sound(n)
  BY <1>1 DEF CallsInv, Sound
<1> QED BY <1>1, <1>2, <1>3, OneIsSound

\* The next patch of a bulk change.
LEMMA NextIsSound ==
    ASSUME CallsInv, NEW c \in calls, NextPatch(c), page' = page
    PROVE  /\ CallsInv' /\ c.op = "bulk"
           /\ \E n \in RowCall, r \in DOMAIN c.seen.rest :
                /\ calls' = (calls \ {c}) \cup {n}
                /\ n.op = "bulk" /\ n.stage = "sent" /\ n.seen.filter = c.seen.filter
                /\ n.row = r /\ DOMAIN n.seen.rest = DOMAIN c.seen.rest \ {r}
<1>1. PICK r \in DOMAIN c.seen.rest :
        calls' = (calls \ {c}) \cup
            {[c EXCEPT !.row = r, !.value = c.seen.rest[r], !.stage = "sent",
                       !.seen.rest = Restrict(@, DOMAIN @ \ {r})]}
  BY DEF NextPatch
<1>2. c \in RowCall /\ c.seen.rest \in Rests /\ Sound(c)
  BY DEF CallsInv, RowCall
<1>3. c.op = "bulk"
  <2>1. c.seen.rest # <<>>
    OBVIOUS
  <2> QED BY <1>2, <2>1 DEF Sound
<1>4. /\ r \in Rows /\ c.seen.rest[r] \in Patches
      /\ Restrict(c.seen.rest, DOMAIN c.seen.rest \ {r}) \in Rests
      /\ DOMAIN Restrict(c.seen.rest, DOMAIN c.seen.rest \ {r}) = DOMAIN c.seen.rest \ {r}
  BY <1>2, FewerRests
<1> DEFINE n == [c EXCEPT !.row = r, !.value = c.seen.rest[r], !.stage = "sent",
                          !.seen.rest = Restrict(@, DOMAIN @ \ {r})]
<1>5. /\ n \in RowCall /\ n.op = c.op /\ n.row = r /\ n.value = c.seen.rest[r]
      /\ n.stage = "sent" /\ n.seen.filter = c.seen.filter
      /\ n.seen.rest = Restrict(c.seen.rest, DOMAIN c.seen.rest \ {r})
  BY <1>2, <1>4 DEF RowCall
<1>6. calls' = (calls \ {c}) \cup {n}
  BY <1>1
<1> HIDE DEF n
<1>7. Sound(n)
  BY <1>3, <1>4, <1>5 DEF Sound
<1>8. CallsInv'
  BY <1>5, <1>6, <1>7, OneIsSound
<1> QED BY <1>3, <1>4, <1>5, <1>6, <1>8

-----------------------------------------------------------------------------
(* Each action keeps the types. *)

LEMMA ListsInvInit == AdminInit /\ RequestsInit => ListsInv
<1> SUFFICES ASSUME AdminInit, RequestsInit PROVE ListsInv
  OBVIOUS
<1>1. table \in RowLists
  BY DEF AdminInit, RowLists, Nothing
<1>2. <<FirstFetch>> \in Seq(Answer)
  <2>1. FirstFetch \in Answer
    BY <1>1 DEF Answer, FirstFetch, Fetch
  <2> QED BY <2>1
<1> QED BY <1>1, <1>2 DEF AdminInit, RequestsInit, ListsInv, CallsInv, Filters, Listed

\* One more list is on its way.
LEMMA OneMoreAnswer ==
    ASSUME NEW s \in Seq(Answer), NEW rows \in RowLists,
           NEW waits \in SUBSET Loading,
           NEW t, t = Append(s, Fetch(rows, waits, FALSE, NoRow))
    PROVE  t \in Seq(Answer) /\ t # <<>> /\ t[Len(t)] = Fetch(rows, waits, FALSE, NoRow)
<1> DEFINE a == Fetch(rows, waits, FALSE, NoRow)
<1>1. a \in Answer
  BY DEF Answer, Fetch
<1>2. t = Append(s, a) /\ s \in Seq(Answer)
  OBVIOUS
<1> HIDE DEF a
<1>3. t \in Seq(Answer) /\ Len(t) = Len(s) + 1 /\ t[Len(t)] = a /\ Len(s) \in Nat
  BY ONLY <1>1, <1>2
<1>4. t # <<>>
  BY ONLY <1>3
<1> QED BY ONLY <1>1, <1>3, <1>4 DEF a

LEMMA SeenIsTyped == filter \in Filters => Seen \in [filter : Filters, rest : Rests]
BY NoRests DEF Seen

LEMMA SetFilterTypes ==
    ASSUME ListsInv, NEW f \in Filters, SetFilter(f), UNCHANGED drafts PROVE ListsInv'
<1>1. loads' = Append(loads, Fetch(Filtered(f, table), {}, FALSE, NoRow))
  BY DEF SetFilter, Load, Get
<1>2. loads' \in Seq(Answer)
  <2>1. Filtered(f, table) \in RowLists /\ loads \in Seq(Answer)
    BY FilteredIsList DEF ListsInv
  <2> QED BY <1>1, <2>1, OneMoreAnswer
<1> QED BY <1>2 DEF SetFilter, ListsInv, CallsInv, Sound, Listed

LEMMA SelectTypes == ASSUME ListsInv, Select, UNCHANGED drafts PROVE ListsInv'
<1>1. selected' \subseteq Listed
  <2>1. selected \subseteq Listed
    BY DEF ListsInv
  <2> QED BY <2>1 DEF Select, SymDiff
<1>2. UNCHANGED <<page, table, list, loads, calls, others, filter>>
  BY DEF Select, listingVars, world
<1> QED BY <1>1, <1>2 DEF ListsInv, CallsInv, Sound, Listed

\* A request is sent: the lists stay as they are.
LEMMA SentTypes ==
    ASSUME ListsInv, CallsInv', UNCHANGED <<page, table, list, loads, others, filter, selected, drafts>>
    PROVE  ListsInv'
BY DEF ListsInv, Listed

LEMMA StartBulkTypes ==
    ASSUME ListsInv, NEW patch, \A r \in selected : patch[r] \in Patches,
           StartBulk(patch), UNCHANGED drafts
    PROVE  ListsInv'
<1>1. PICK r \in selected :
        Send("bulk", NoRow, r, patch[r],
             [Seen EXCEPT !.rest = [s \in selected \ {r} |-> patch[s]]])
  BY DEF StartBulk
<1>2. selected \subseteq Rows
  BY DEF ListsInv, Listed
<1> DEFINE rest == [s \in selected \ {r} |-> patch[s]]
           seen == [Seen EXCEPT !.rest = rest]
           n == [op |-> "bulk", about |-> NoRow, row |-> r, value |-> patch[r],
                 seen |-> seen, stage |-> "sent", noted |-> TRUE]
<1>3. rest \in Rests
  <2>1. PICK S \in SUBSET Rows : S = selected \ {r}
    BY <1>2
  <2>2. rest \in [S -> Patches]
    BY <2>1
  <2> HIDE DEF rest
  <2> QED BY <2>2 DEF Rests
<1> HIDE DEF rest
<1>4. seen \in [filter : Filters, rest : Rests]
  <2>1. Seen = [filter |-> filter, rest |-> <<>>] /\ filter \in Filters
    BY DEF Seen, ListsInv
  <2> QED BY <1>3, <2>1
<1> HIDE DEF seen
<1>5. n \in RowCall /\ Sound(n)
  BY <1>2, <1>4 DEF RowCall, Sound
<1>6. CallsInv /\ page' = page
  BY DEF ListsInv, StartBulk
<1>7. Send("bulk", NoRow, r, patch[r], seen)
  BY <1>1 DEF seen, rest
<1>8. CallsInv'
  BY <1>5, <1>6, <1>7, SendIsSound
<1> QED BY <1>8, SentTypes DEF StartBulk

\* A list arrives, or does not.
LEMMA ShowTypes ==
    ASSUME ListsInv, NEW i, NEW rows \in RowLists, Show(i, rows), selected' = Keep(rows),
           others' \in Nat, UNCHANGED filter, drafts' \in RowLists,
           page \in {"users", "requests"},
           page = "requests" => \A r \in Rows : rows[r] # NoRow => drafts'[r] # NoRow
    PROVE  ListsInv'
<1>1. /\ loads \in Seq(Answer) /\ i \in DOMAIN loads /\ loads' = RemoveAt(loads, i)
      /\ list' = rows /\ page' = page /\ table' = table
  BY DEF Show, StillAsked, ListsInv
<1>2. loads' \in Seq(Answer)
  BY <1>1, Removed
<1> DEFINE done == {c \in calls : [c EXCEPT !.noted = FALSE] \in loads[i].waits}
<1>3. done \in SUBSET calls /\ calls' = Over(done)
  BY DEF Show
<1> HIDE DEF done
<1>4. CallsInv'
  BY <1>1, <1>3, OverIsSound DEF ListsInv
<1>5. selected' \subseteq Listed'
  BY <1>1 DEF Keep, Listed, ListsInv
<1> QED BY <1>1, <1>2, <1>4, <1>5 DEF ListsInv, Listed

LEMMA AnswersAreLists ==
    ASSUME ListsInv, NEW i \in DOMAIN loads
    PROVE  loads[i].rows \in RowLists /\ Fallback(i) \in RowLists
           /\ \A r \in Rows : Fallback(i)[r] # NoRow => r \in Listed
<1>1. loads[i] \in Answer
  BY DEF ListsInv
<1> QED BY <1>1 DEF Answer, Fallback, Nothing, RowLists, ListsInv, Listed

\* A request is answered, or passed on to its next patch.
LEMMA ServePatchTypes ==
    ASSUME ListsInv, NEW c \in calls, ServePatch(c), UNCHANGED <<filter, selected, drafts>>
    PROVE  ListsInv'
<1>1. /\ c \in RowCall /\ Sound(c) /\ c.row \in Rows /\ c.value \in Patches
      /\ UNCHANGED <<page, list, loads, others>>
  BY DEF ServePatch, ListsInv, CallsInv, Sound
<1>2. CASE /\ table[c.row] # NoRow
           /\ table' = [table EXCEPT ![c.row] = Patched(@, c.value)]
           /\ calls' = (calls \ {c}) \cup {[c EXCEPT !.stage = "done", !.value = table'[c.row]]}
  <2>1. table[c.row] \in Contents /\ table \in RowLists
    BY <1>1, <1>2 DEF ListsInv, RowLists
  <2>2. table'[c.row] \in Contents /\ table' \in RowLists
    BY <1>1, <1>2, <2>1, PatchedIsContent DEF RowLists
  <2> DEFINE n == [c EXCEPT !.stage = "done", !.value = table'[c.row]]
  <2>3. /\ n \in RowCall /\ n.stage = "done" /\ n.value = table'[c.row]
        /\ n.op = c.op /\ n.row = c.row /\ n.seen = c.seen
    BY <1>1, <2>2 DEF RowCall, Patches
  <2>4. calls' = (calls \ {c}) \cup {n}
    BY <1>2
  <2> HIDE DEF n
  <2>5. Sound(n)
    BY <1>1, <2>2, <2>3 DEF Sound, ServePatch
  <2>6. CallsInv'
    BY <1>1, <2>3, <2>4, <2>5, OneIsSound DEF ListsInv
  <2> QED BY <1>1, <2>2, <2>6 DEF ListsInv, Listed
<1>3. CASE /\ table[c.row] # NoRow
           /\ table' = [table EXCEPT ![c.row] = Patched(@, c.value)]
           /\ calls' = At(c, "refused")
  <2>1. table[c.row] \in Contents /\ table \in RowLists
    BY <1>1, <1>3 DEF ListsInv, RowLists
  <2>2. table' \in RowLists
    BY <1>1, <1>3, <2>1, PatchedIsContent DEF RowLists
  <2>3. CallsInv'
    BY <1>1, <1>3, AtIsSound DEF ListsInv
  <2> QED BY <1>1, <2>2, <2>3 DEF ListsInv, Listed
<1>4. CASE UNCHANGED table /\ calls' = At(c, "refused")
  <2>1. CallsInv'
    BY <1>1, <1>4, AtIsSound DEF ListsInv
  <2> QED BY <1>1, <1>4, <2>1, SentTypes
<1> QED BY <1>2, <1>3, <1>4 DEF ServePatch

LEMMA ServeTypes ==
    ASSUME ListsInv, NEW c \in calls, c.op \in {"create", "delete"}, Serve(c, Rows),
           UNCHANGED <<filter, selected, drafts>>
    PROVE  ListsInv'
<1>1. /\ c \in RowCall /\ Sound(c) /\ c.value \in Contents \cup {NoRow}
      /\ UNCHANGED <<page, list, loads, others>>
  BY DEF Serve, ListsInv, CallsInv, Sound
<1>2. ASSUME NEW r \in Rows, table' = [table EXCEPT ![r] = c.value],
             calls' = (calls \ {c}) \cup {[c EXCEPT !.stage = "done", !.row = r]}
      PROVE  ListsInv'
  <2>1. table' \in RowLists
    BY <1>1, <1>2 DEF RowLists, ListsInv
  <2> DEFINE n == [c EXCEPT !.stage = "done", !.row = r]
  <2>2. /\ n \in RowCall /\ n.stage = "done" /\ n.value = c.value
        /\ n.op = c.op /\ n.row = r /\ n.seen = c.seen
    BY <1>1 DEF RowCall
  <2>3. calls' = (calls \ {c}) \cup {n}
    BY <1>2
  <2> HIDE DEF n
  <2>4. Sound(n)
    BY <1>1, <2>2 DEF Sound
  <2>5. CallsInv'
    BY <1>1, <2>2, <2>3, <2>4, OneIsSound DEF ListsInv
  <2> QED BY <1>1, <2>1, <2>5 DEF ListsInv, Listed
<1>3. CASE UNCHANGED table /\ calls' = At(c, "refused")
  <2>1. CallsInv'
    BY <1>1, <1>3, AtIsSound DEF ListsInv
  <2> QED BY <1>1, <1>3, <2>1, SentTypes
<1>4. ASSUME NEW r \in IF c.row = NoRow THEN {n \in Rows : table[n] = NoRow}
                       ELSE {n \in {c.row} : table[n] # NoRow}
      PROVE  r \in Rows
  BY <1>1, <1>4 DEF RowCall
<1>5. ASSUME NEW r \in Rows, table' = [table EXCEPT ![r] = c.value], calls' = At(c, "refused")
      PROVE  ListsInv'
  <2>1. table' \in RowLists
    BY <1>1, <1>5 DEF RowLists, ListsInv
  <2>2. CallsInv'
    BY <1>1, <1>5, AtIsSound DEF ListsInv
  <2> QED BY <1>1, <2>1, <2>2 DEF ListsInv, Listed
<1> QED BY <1>2, <1>3, <1>4, <1>5 DEF Serve

LEMMA OthersTypes == ASSUME ListsInv, OtherAdmins, UNCHANGED drafts PROVE ListsInv'
<1>1. /\ others' = others + 1 /\ UNCHANGED <<page, list, loads, calls, adminVars>>
      /\ \E r \in Rows : \E v \in MayHold(r) \ {table[r]} : table' = [table EXCEPT ![r] = v]
  BY DEF OtherAdmins, Others
<1>2. table' \in RowLists
  BY <1>1 DEF MayHold, RowLists, ListsInv
<1> QED BY <1>1, <1>2 DEF ListsInv, CallsInv, Sound, Listed, adminVars

\* A button sends a request with what the page has seen.
LEMMA PressedTypes ==
    ASSUME ListsInv, NEW op, NEW about, NEW r, NEW value, Send(op, about, r, value, Seen),
           op \in {"create", "delete", "patch"}, about \in Rows \cup {NoRow},
           r \in Rows \cup {NoRow}, value \in Patches \cup {NoRow},
           op \in {"create", "delete"} => value \in Contents \cup {NoRow} /\ page # "requests",
           op = "patch" => r \in Rows /\ value \in Patches,
           UNCHANGED <<page, table, list, loads, others, filter, selected, drafts>>
    PROVE  ListsInv'
<1>1. Seen = [filter |-> filter, rest |-> <<>>] /\ Seen \in [filter : Filters, rest : Rests]
  BY SeenIsTyped DEF Seen, ListsInv
<1> DEFINE n == [op |-> op, about |-> about, row |-> r, value |-> value,
                 seen |-> Seen, stage |-> "sent", noted |-> TRUE]
<1>2. n \in RowCall /\ Sound(n)
  BY <1>1 DEF RowCall, Sound
<1> HIDE DEF n
<1>3. CallsInv'
  BY <1>2, SendIsSound DEF ListsInv, n
<1> QED BY <1>3, SentTypes

LEMMA UsersTypes == ASSUME page = "users", ListsInv, UsersNext, UNCHANGED drafts PROVE ListsInv'
<1>1. ASSUME NEW f \in Filters, SetFilter(f) PROVE ListsInv'
  BY <1>1, SetFilterTypes
<1>2. CASE Select
  BY <1>2, SelectTypes
<1>3. ASSUME NEW role \in States, CreateUser(role) PROVE ListsInv'
  <2>1. (CHOOSE n \in Notes : TRUE) \in Notes
    BY DEF ListsInv
  <2>2. [state |-> role, note |-> CHOOSE n \in Notes : TRUE] \in Contents
    BY <2>1
  <2>3. [state |-> role, note |-> CHOOSE n \in Notes : TRUE] \in Patches
    BY <2>2 DEF Patches
  <2> QED BY <1>3, <2>2, <2>3, PressedTypes DEF CreateUser, Unsent, adminVars
<1>4. ASSUME NEW r \in Rows, NEW patch \in [state : States] \cup [note : Notes], ChangeUser(r, patch)
      PROVE  ListsInv'
  BY <1>4, PressedTypes DEF ChangeUser, Unsent, adminVars, Patches
<1>5. ASSUME NEW r \in Rows, DeleteUser(r) PROVE ListsInv'
  BY <1>5, PressedTypes DEF DeleteUser, Unsent, adminVars
<1>6. ASSUME NEW patch \in [state : States] \cup [note : Notes], BulkPatch(patch) PROVE ListsInv'
  <2> DEFINE patches == [r \in selected |-> patch]
  <2>1. \A r \in selected : patches[r] \in Patches
    BY DEF Patches
  <2>2. StartBulk(patches)
    BY <1>6 DEF BulkPatch
  <2> HIDE DEF patches
  <2> QED BY <2>1, <2>2, StartBulkTypes
<1>7. ASSUME NEW i \in DOMAIN loads, UsersAnswered(i) PROVE ListsInv'
  <2>1. PICK rows \in {loads[i].rows, Fallback(i)} : Show(i, rows) /\ others' \in Nat
    BY <1>7 DEF UsersAnswered, Arrived, ListFails, Failed, ListsInv
  <2>2. rows \in RowLists
    BY <2>1, AnswersAreLists
  <2>3. list' = rows
    BY <2>1 DEF Show
  <2>4. selected' = Keep(rows) /\ UNCHANGED filter /\ drafts' \in RowLists
    BY <1>7, <2>3 DEF UsersAnswered, ListsInv
  <2> QED BY <2>1, <2>2, <2>4, ShowTypes
<1>8. ASSUME NEW c \in calls, UserDone(c) PROVE ListsInv'
  <2>1. /\ c \in RowCall /\ CallsInv /\ c.seen.filter \in Filters /\ c.stage = "done"
        /\ UNCHANGED <<page, table, list, others, filter>>
    BY <1>8 DEF ListsInv, CallsInv, UserDone, RowCall
  <2>2. CASE NextPatch(c) /\ UNCHANGED <<loads, selected>>
    BY <2>1, <2>2, NextIsSound, SentTypes
  <2>3. CASE RefreshPageData(c) /\ selected' = IF c.op = "bulk" THEN {} ELSE selected
    <3>1. calls' = At(c, "loading")
      BY <2>3 DEF RefreshPageData
    <3>2. CallsInv'
      BY <2>1, <3>1, AtIsSound
    <3>3. Awaited(c) \in RowCall /\ Awaited(c).stage = "loading"
      BY <2>1 DEF Awaited, RowCall
    <3>4. loads' = Append(loads, Fetch(Filtered(c.seen.filter, table), {Awaited(c)}, FALSE, NoRow))
      BY <2>3 DEF RefreshPageData, Load, Get
    <3>5. /\ Filtered(c.seen.filter, table) \in RowLists /\ loads \in Seq(Answer)
          /\ {Awaited(c)} \in SUBSET Loading
      BY <3>3, FilteredIsList DEF ListsInv, Loading
    <3>6. loads' \in Seq(Answer)
      BY <3>4, <3>5, OneMoreAnswer
    <3> QED BY <2>1, <2>3, <3>2, <3>6 DEF ListsInv, Listed
  <2> QED BY <1>8, <2>2, <2>3 DEF UserDone
<1>9. ASSUME NEW c \in calls, UserRefused(c) PROVE ListsInv'
  <2>1. CallsInv /\ {c} \in SUBSET calls /\ calls' = Over({c}) /\ page' = page
    BY <1>9 DEF UserRefused, Unsent, ListsInv
  <2>2. CallsInv'
    BY <2>1, OverIsSound
  <2> QED BY <1>9, <2>2, SentTypes DEF UserRefused, Unsent, adminVars
<1>10. CASE OtherAdmins
  BY <1>10, OthersTypes
<1>11. ASSUME NEW c \in calls, ServePatch(c), Unnoticed(c) PROVE ListsInv'
  BY <1>11, ServePatchTypes DEF Unnoticed
<1>12. ASSUME NEW c \in calls, c.op \in {"create", "delete"}, Serve(c, Rows), Unnoticed(c)
       PROVE  ListsInv'
  BY <1>12, ServeTypes DEF Unnoticed
<1> QED BY <1>1, <1>2, <1>3, <1>4, <1>5, <1>6, <1>7, <1>8, <1>9, <1>10, <1>11, <1>12 DEF UsersNext, Filters

\* What is saved of a row that is listed.
LEMMA PayloadIsContent ==
    ASSUME ListsInv, page = "requests", NEW r \in Listed, NEW status \in States
    PROVE  Payload(r, status) \in Contents /\ Payload(r, status) \in Patches /\ r \in Rows
<1>1. drafts[r] \in Contents /\ r \in Rows
  BY DEF ListsInv, RowLists, Listed
<1> QED BY <1>1 DEF Payload, Patches

LEMMA RequestsTypes == ASSUME page = "requests", ListsInv, RequestsNext PROVE ListsInv'
<1>1. ASSUME NEW f \in Filters, SetFilter(f), UNCHANGED drafts PROVE ListsInv'
  BY <1>1, SetFilterTypes
<1>2. CASE SelectRequests
  BY <1>2, SelectTypes DEF SelectRequests
<1>3. ASSUME NEW r \in Rows, NEW patch \in [state : States] \cup [note : Notes], UpdateDraft(r, patch)
      PROVE  ListsInv'
  <2>1. /\ r \in Listed /\ drafts' = [drafts EXCEPT ![r] = Patched(@, patch)]
        /\ UNCHANGED <<world, adminVars>>
    BY <1>3 DEF UpdateDraft, Editable
  <2>2. drafts[r] \in Contents /\ drafts \in RowLists
    BY <2>1 DEF ListsInv, RowLists
  <2>3. Patched(drafts[r], patch) \in Contents
    BY <2>2, PatchedIsContent DEF Patches
  <2>4. drafts' \in RowLists /\ \A s \in Rows : drafts[s] # NoRow => drafts'[s] # NoRow
    BY <2>1, <2>2, <2>3 DEF RowLists
  <2> QED BY <2>1, <2>4 DEF ListsInv, CallsInv, Sound, Listed, world, adminVars
<1>4. ASSUME NEW r \in Rows, NEW s \in States, SaveRequest(r, s) PROVE ListsInv'
  <2>1. /\ r \in Listed /\ Send("patch", r, r, Payload(r, s), Seen)
        /\ UNCHANGED <<page, table, list, loads, others, filter, selected, drafts>>
    BY <1>4 DEF SaveRequest, Editable, Unsaved
  <2> QED BY <2>1, PayloadIsContent, PressedTypes
<1>5. ASSUME NEW s \in States, BulkStatus(s) PROVE ListsInv'
  <2> DEFINE patches == [r \in selected |-> Payload(r, s)]
  <2>1. \A r \in selected : patches[r] \in Patches
    BY PayloadIsContent DEF ListsInv
  <2>2. StartBulk(patches) /\ UNCHANGED drafts
    BY <1>5 DEF BulkStatus
  <2> HIDE DEF patches
  <2> QED BY <2>1, <2>2, StartBulkTypes
<1>6. ASSUME NEW i \in DOMAIN loads, RequestsAnswered(i) PROVE ListsInv'
  <2>1. selected' = Keep(list') /\ UNCHANGED filter
    BY <1>6 DEF RequestsAnswered
  <2>2. CASE Arrived(i) /\ drafts' = list'
    <3>1. Show(i, loads[i].rows) /\ list' = loads[i].rows /\ others' \in Nat
      BY <2>2 DEF Arrived, Show, ListsInv
    <3> QED BY <2>1, <2>2, <3>1, AnswersAreLists, ShowTypes
  <2>3. CASE ListFails(i) /\ UNCHANGED drafts
    <3>1. Show(i, Fallback(i)) /\ list' = Fallback(i) /\ others' \in Nat
      BY <2>3 DEF ListFails, Failed, Show, ListsInv
    <3>2. \A r \in Rows : Fallback(i)[r] # NoRow => drafts'[r] # NoRow
      BY <2>3, AnswersAreLists DEF ListsInv
    <3>3. drafts' \in RowLists
      BY <2>3 DEF ListsInv
    <3> QED BY <2>1, <3>1, <3>2, <3>3, AnswersAreLists, ShowTypes
  <2> QED BY <1>6, <2>2, <2>3 DEF RequestsAnswered
<1>7. ASSUME NEW c \in calls, RequestDone(c) PROVE ListsInv'
  <2>1. c \in RowCall /\ Sound(c) /\ CallsInv /\ c.op \in {"create", "delete", "patch", "bulk"}
    BY DEF ListsInv, CallsInv, RowCall
  <2>2. c.row \in Rows /\ c.value \in Contents
    BY <1>7, <2>1 DEF RequestDone, Sound
  <2>3. /\ list' = IF list[c.row] = NoRow THEN list ELSE [list EXCEPT ![c.row] = c.value]
        /\ drafts' = [drafts EXCEPT ![c.row] = c.value]
        /\ UNCHANGED <<page, table, loads, others, filter>>
    BY <1>7 DEF RequestDone, BuildDraft
  <2>4. list' \in RowLists /\ drafts' \in RowLists /\ Listed' = Listed
    BY <2>2, <2>3 DEF ListsInv, RowLists, Listed
  <2>5. selected' \subseteq Listed
    BY <1>7 DEF RequestDone, ListsInv
  <2>6. CallsInv'
    <3>1. CASE NextPatch(c)
      BY <2>1, <2>3, <3>1, NextIsSound
    <3>2. CASE calls' = Over({c})
      BY <2>1, <2>3, <3>2, OverIsSound
    <3> QED BY <1>7, <3>1, <3>2 DEF RequestDone
  <2>7. \A r \in Listed : drafts'[r] # NoRow
    BY <2>2, <2>3 DEF ListsInv, RowLists, Listed
  <2> QED BY <2>3, <2>4, <2>5, <2>6, <2>7 DEF ListsInv
<1>8. ASSUME NEW c \in calls, RequestRefused(c) PROVE ListsInv'
  <2>1. /\ CallsInv /\ {c} \in SUBSET calls /\ calls' = Over({c})
        /\ UNCHANGED <<page, table, list, loads, others, filter, selected, drafts>>
    BY <1>8 DEF RequestRefused, Unsaved, ListsInv
  <2>2. CallsInv'
    BY <2>1, OverIsSound
  <2> QED BY <2>1, <2>2, SentTypes
<1>9. CASE OtherAdmins /\ UNCHANGED drafts
  BY <1>9, OthersTypes
<1>10. ASSUME NEW c \in calls, ServePatch(c), Unnoticed(c), UNCHANGED drafts PROVE ListsInv'
  BY <1>10, ServePatchTypes DEF Unnoticed
<1> QED BY <1>1, <1>2, <1>3, <1>4, <1>5, <1>6, <1>7, <1>8, <1>9, <1>10 DEF RequestsNext, Filters

\* Other pages leave the lists alone.
LEMMA ListsMove ==
    [Next]_vars => \/ page = "users" /\ UsersNext /\ UNCHANGED drafts
                   \/ page = "requests" /\ RequestsNext
                   \/ UNCHANGED listsVars
BY DEF Next, vars, OnUsers, OnRequests, OnLists, OnFilters, OnOverview, OnSignIn, OnAccess, OnTyping,
       frontendVars, listsVars

LEMMA ListsStep == ListsInv /\ [Next]_vars => ListsInv'
<1> SUFFICES ASSUME ListsInv, [Next]_vars PROVE ListsInv'
  OBVIOUS
<1>1. CASE UNCHANGED listsVars
  BY <1>1 DEF listsVars, listingVars, world, adminVars, ListsInv, CallsInv, Sound, Listed
<1> QED BY <1>1, ListsMove, UsersTypes, RequestsTypes

\* The types of the state; and however lists, answers and other admins overtake each
\* other, only rows that are listed are selected, and only rows are patched.
THEOREM AdminTypes == Spec => []AdminTypeOK
<1>1. Init => ListsInv /\ ViewsInv
  BY ListsInvInit, ViewsInvInit DEF Init
<1>2. ListsInv /\ ViewsInv /\ [Next]_vars => (ListsInv /\ ViewsInv)'
  BY ListsStep, ViewsStep, ViewsMoves
<1>3. ListsInv /\ ViewsInv => AdminTypeOK
  BY DEF ListsInv, CallsInv, Sound, RowCall, Filters, RowLists, ViewsInv, Good, AdminTypeOK
<1> QED BY <1>1, <1>2, <1>3, PTL DEF Spec

-----------------------------------------------------------------------------
(* What the list of users shows. *)

\* What the page will show in the end, of what has been asked for.
Latest == IF loads = <<>> THEN list ELSE loads[Len(loads)].rows

\* A row that a request has changed will be asked for once the request is done.
IsFresh(r) ==
    Latest[r] = Filtered(filter, table)[r] \/ \E c \in calls : c.stage = "done" /\ c.row = r

\* The list that comes last is the one of the server, but for the rows that a request has
\* changed unnoticed, and requests will ask for it with the filter that is set.
UsersInv == page = "users" /\ others = 0 /\ ~muddled =>
    /\ \A r \in Rows \ unsure : IsFresh(r)
    /\ \A c \in calls : c.seen.filter = filter

\* Everything is the same for those that are sent a request.
LEMMA SentCalls ==
    ASSUME CallsInv, NEW op, NEW about, NEW r, NEW value, NEW seen,
           Send(op, about, r, value, seen)
    PROVE  \E n : /\ n = [op |-> op, about |-> about, row |-> r, value |-> value,
                          seen |-> seen, stage |-> "sent", noted |-> TRUE]
                  /\ n \in calls'
                  /\ \A c \in calls : \E d \in calls' : Alike(c, d)
                  /\ \A d \in calls' : d = n \/ \E c \in calls : d = Marked(c, {op}) /\ Alike(c, d)
<1> DEFINE n == [op |-> op, about |-> about, row |-> r, value |-> value,
                 seen |-> seen, stage |-> "sent", noted |-> TRUE]
           F == Forget(calls, {op})
<1>1. calls \in SUBSET RowCall /\ calls' = F \cup {n}
  BY DEF CallsInv, Send
<1>2. /\ \A c \in calls : Marked(c, {op}) \in F /\ Alike(c, Marked(c, {op}))
      /\ \A d \in F : \E c \in calls : d = Marked(c, {op}) /\ Alike(c, d)
  BY <1>1, Images
<1> HIDE DEF n, F
<1>3. /\ n \in calls'
      /\ \A c \in calls : \E d \in calls' : Alike(c, d)
      /\ \A d \in calls' : d = n \/ \E c \in calls : d = Marked(c, {op}) /\ Alike(c, d)
  BY <1>1, <1>2
<1> QED BY <1>3 DEF n

\* And when some are over.
LEMMA OverCalls ==
    ASSUME CallsInv, NEW done \in SUBSET calls, calls' = Over(done)
    PROVE  /\ \A c \in calls \ done : \E d \in calls' : Alike(c, d)
           /\ \A d \in calls' : \E c \in calls \ done :
                d = Marked(c, {e.op : e \in done}) /\ Alike(c, d)
<1> DEFINE ops == {e.op : e \in done}
           S == calls \ done
<1>1. S \in SUBSET RowCall /\ calls' = Forget(S, ops)
  BY DEF CallsInv, Over
<1> HIDE DEF ops
<1>2. /\ \A c \in S : Marked(c, ops) \in calls' /\ Alike(c, Marked(c, ops))
      /\ \A d \in calls' : \E c \in S : d = Marked(c, ops) /\ Alike(c, d)
  BY <1>1, Images
<1>3. \A c \in S : \E d \in calls' : Alike(c, d)
  BY <1>2
<1> QED BY <1>2, <1>3 DEF ops

\* An answer that arrives first leaves the last one, and ends only what waited for it.
LEMMA FirstArrives ==
    ASSUME ListsInv, page \in {"users", "requests"}, Show(1, loads[1].rows), loads # <<>>
    PROVE  /\ Latest' = Latest
           /\ \E done \in SUBSET calls : calls' = Over(done) /\ \A c \in done : c.stage = "loading"
<1>1. /\ loads \in Seq(Answer) /\ 1 \in DOMAIN loads /\ loads' = RemoveAt(loads, 1)
      /\ list' = loads[1].rows
  BY DEF Show, StillAsked, ListsInv
<1>2. /\ loads' \in Seq(Answer) /\ Len(loads') = Len(loads) - 1
      /\ \A j \in 1..(Len(loads) - 1) : loads'[j] = loads[j + 1]
  BY <1>1, Removed
<1>3. Latest' = Latest
  <2>1. CASE Len(loads) = 1
    BY <1>1, <1>2, <2>1 DEF Latest
  <2>2. CASE Len(loads) # 1
    <3>1. Len(loads) - 1 \in 1..(Len(loads) - 1) /\ loads' # <<>>
      BY <1>1, <1>2, <2>2
    <3>2. loads'[Len(loads')] = loads[Len(loads)]
      BY <1>1, <1>2, <3>1
    <3> QED BY <1>1, <3>1, <3>2 DEF Latest
  <2> QED BY <2>1, <2>2
<1> DEFINE done == {c \in calls : [c EXCEPT !.noted = FALSE] \in loads[1].waits}
<1>4. done \in SUBSET calls /\ calls' = Over(done)
  BY DEF Show
<1>5. ASSUME NEW c \in done PROVE c.stage = "loading"
  <2>1. c \in RowCall /\ loads[1] \in Answer
    BY <1>1 DEF ListsInv, CallsInv
  <2>2. [c EXCEPT !.noted = FALSE].stage = "loading"
    BY <2>1 DEF Answer, Loading
  <2> QED BY <2>1, <2>2 DEF RowCall
<1> QED BY <1>3, <1>4, <1>5

\* A list is asked for.
LEMMA LoadIsLatest ==
    ASSUME ListsInv, NEW f, NEW waits \in SUBSET Loading,
           Load(f, waits)
    PROVE  Latest' = Filtered(f, table)
<1> DEFINE rows == Filtered(f, table)
<1>1. loads' = Append(loads, Fetch(rows, waits, FALSE, NoRow))
  BY DEF Load, Get
<1>2. rows \in RowLists /\ loads \in Seq(Answer)
  BY FilteredIsList DEF ListsInv
<1> HIDE DEF rows
<1>3. loads' \in Seq(Answer)
  BY <1>1, <1>2, OneMoreAnswer
<1>4. loads' # <<>> /\ loads'[Len(loads')] = Fetch(rows, waits, FALSE, NoRow)
  BY <1>1, <1>2, <1>3, OneMoreAnswer
<1> QED BY <1>4 DEF Latest, rows, Fetch

LEMMA UsersInvInit == AdminInit => UsersInv
<1> SUFFICES ASSUME AdminInit, page = "users" PROVE Latest = Filtered(filter, table) /\ calls = {}
  BY DEF UsersInv, IsFresh
<1>1. /\ loads = <<[rows |-> table, waits |-> {}, silent |-> FALSE, seen |-> NoRow]>> /\ calls = {}
      /\ filter = "all" /\ table \in FirstTables
  BY DEF AdminInit, FirstFetch, Fetch
<1>2. Filtered("all", table) = table
  BY <1>1 DEF Filtered
<1> QED BY <1>1, <1>2 DEF Latest

\* A request that has changed nothing yet.
LEMMA UserSends ==
    ASSUME ListsInv, UsersInv, NEW op, NEW about, NEW r, NEW value, NEW seen,
           Send(op, about, r, value, seen), seen.filter = filter,
           UNCHANGED <<page, table, list, loads, others, filter, muddled, unsure>>
    PROVE  UsersInv'
<1>0. CallsInv
  BY DEF ListsInv
<1>1. PICK n : /\ n = [op |-> op, about |-> about, row |-> r, value |-> value,
                       seen |-> seen, stage |-> "sent", noted |-> TRUE]
               /\ n \in calls'
               /\ \A c \in calls : \E d \in calls' : Alike(c, d)
               /\ \A d \in calls' :
                    d = n \/ \E c \in calls : d = Marked(c, {op}) /\ Alike(c, d)
  BY <1>0, SentCalls
<1>2. n.seen.filter = filter
  BY <1>1
<1>3. Latest' = Latest /\ Filtered(filter, table)' = Filtered(filter, table)
  BY DEF Latest, Filtered
<1>4. ASSUME NEW s \in Rows, IsFresh(s) PROVE IsFresh(s)'
  BY <1>1, <1>3, <1>4 DEF IsFresh, Alike
<1> QED BY <1>1, <1>2, <1>4 DEF UsersInv, Alike

\* The server answers a request: a row that it changes is told, or is unsure from now on.
LEMMA ServedRows ==
    ASSUME CallsInv, table \in RowLists, NEW c \in calls, Unnoticed(c),
           ServePatch(c) \/ Serve(c, Rows)
    PROVE  /\ c.stage = "sent" /\ unsure \subseteq unsure'
           /\ UNCHANGED <<page, list, loads, others, filter, selected, muddled>>
           /\ \E n : /\ calls' = (calls \ {c}) \cup {n} /\ n.seen = c.seen
                     /\ \A r \in Rows : table'[r] # table[r] =>
                            (n.stage = "done" /\ n.row = r) \/ r \in unsure'
<1>1. /\ c \in RowCall /\ c.stage = "sent" /\ UNCHANGED <<page, list, loads, others>>
  BY DEF ServePatch, Serve, CallsInv
<1>2. /\ unsure' = unsure \cup {r \in Rows : table'[r] # table[r] /\ calls' = At(c, "refused")}
      /\ UNCHANGED <<filter, selected, muddled>>
  BY DEF Unnoticed
<1> DEFINE Told(n) == /\ calls' = (calls \ {c}) \cup {n} /\ n.seen = c.seen
                      /\ \A r \in Rows : table'[r] # table[r] =>
                            (n.stage = "done" /\ n.row = r) \/ r \in unsure'
<1>3. CASE calls' = At(c, "refused")
  <2> DEFINE n == [c EXCEPT !.stage = "refused"]
  <2>1. n.seen = c.seen /\ calls' = (calls \ {c}) \cup {n}
    BY <1>1, <1>3, Restaged DEF At
  <2>2. \A r \in Rows : table'[r] # table[r] => r \in unsure'
    BY <1>2, <1>3
  <2> HIDE DEF n
  <2>3. Told(n)
    BY <2>1, <2>2
  <2> QED BY <1>1, <1>2, <2>3
<1>4. ASSUME NEW v, table' = [table EXCEPT ![c.row] = v],
             calls' = (calls \ {c}) \cup {[c EXCEPT !.stage = "done", !.value = table'[c.row]]}
      PROVE  \E n : Told(n)
  <2> DEFINE n == [c EXCEPT !.stage = "done", !.value = table'[c.row]]
  <2>1. n.seen = c.seen /\ n.stage = "done" /\ n.row = c.row
    BY <1>1 DEF RowCall
  <2>2. calls' = (calls \ {c}) \cup {n}
    BY <1>4
  <2>3. \A r \in Rows : table'[r] # table[r] => r = c.row
    BY <1>4 DEF RowLists
  <2> HIDE DEF n
  <2>4. Told(n)
    BY <2>1, <2>2, <2>3
  <2> QED BY <2>4
<1>5. ASSUME NEW s, NEW v, table' = [table EXCEPT ![s] = v],
             calls' = (calls \ {c}) \cup {[c EXCEPT !.stage = "done", !.row = s]}
      PROVE  \E n : Told(n)
  <2> DEFINE n == [c EXCEPT !.stage = "done", !.row = s]
  <2>1. n.seen = c.seen /\ n.stage = "done" /\ n.row = s
    BY <1>1 DEF RowCall
  <2>2. calls' = (calls \ {c}) \cup {n}
    BY <1>5
  <2>3. \A r \in Rows : table'[r] # table[r] => r = s
    BY <1>5 DEF RowLists
  <2> HIDE DEF n
  <2>4. Told(n)
    BY <2>1, <2>2, <2>3
  <2> QED BY <2>4
<1> HIDE DEF Told
<1>6. CASE ServePatch(c) /\ calls' # At(c, "refused")
  <2>1. \E n : Told(n)
    BY <1>4, <1>6 DEF ServePatch
  <2> QED BY <1>1, <1>2, <2>1 DEF Told
<1>7. CASE Serve(c, Rows) /\ calls' # At(c, "refused")
  <2>1. \E n : Told(n)
    BY <1>5, <1>7 DEF Serve
  <2> QED BY <1>1, <1>2, <2>1 DEF Told
<1> QED BY <1>3, <1>6, <1>7

LEMMA UsersStep == ASSUME page = "users", ListsInv, UsersInv, UsersNext PROVE UsersInv'
<1>0. /\ CallsInv /\ calls \subseteq RowCall /\ others \in Nat /\ loads \in Seq(Answer)
      /\ table \in RowLists
  BY DEF ListsInv, CallsInv
<1>1. ASSUME NEW f \in Filters, SetFilter(f) PROVE UsersInv'
  <2>1. Load(f, {}) /\ filter' = f /\ UNCHANGED <<table, calls, others>> /\ muddled' = (muddled \/ calls # {})
    BY <1>1 DEF SetFilter
  <2>2. Latest' = Filtered(f, table)
    BY <2>1, LoadIsLatest
  <2> QED BY <2>1, <2>2 DEF UsersInv, IsFresh, Filtered
<1>2. CASE Select
  BY <1>2 DEF Select, listingVars, world, UsersInv, IsFresh, Latest, Filtered
<1>3. Seen.filter = filter
  BY DEF Seen
<1>4. ASSUME NEW role \in States, CreateUser(role) PROVE UsersInv'
  BY <1>3, <1>4, UserSends DEF CreateUser, Unsent, adminVars
<1>5. ASSUME NEW r \in Rows, NEW patch \in [state : States] \cup [note : Notes], ChangeUser(r, patch)
      PROVE  UsersInv'
  BY <1>3, <1>5, UserSends DEF ChangeUser, Unsent, adminVars
<1>6. ASSUME NEW r \in Rows, DeleteUser(r) PROVE UsersInv'
  BY <1>3, <1>6, UserSends DEF DeleteUser, Unsent, adminVars
<1>7. ASSUME NEW patch \in [state : States] \cup [note : Notes], BulkPatch(patch) PROVE UsersInv'
  <2> DEFINE patches == [r \in selected |-> patch]
  <2>1. StartBulk(patches) /\ UNCHANGED muddled
    BY <1>7 DEF BulkPatch
  <2> HIDE DEF patches
  <2>2. PICK r, rest : Send("bulk", NoRow, r, patches[r], [Seen EXCEPT !.rest = rest])
    BY <2>1 DEF StartBulk
  <2> DEFINE seen == [Seen EXCEPT !.rest = rest]
  <2>3. seen.filter = filter
    BY DEF Seen
  <2>4. Send("bulk", NoRow, r, patches[r], seen)
    BY <2>2
  <2> HIDE DEF seen
  <2>5. UNCHANGED <<page, table, list, loads, others, filter, muddled, unsure>>
    BY <2>1 DEF StartBulk
  <2> QED BY <2>3, <2>4, <2>5, UserSends
<1>8. ASSUME NEW i \in DOMAIN loads, UsersAnswered(i) PROVE UsersInv'
  <2> SUFFICES ASSUME others' = 0, ~muddled'
               PROVE  /\ \A r \in Rows \ unsure' : IsFresh(r)'
                      /\ \A c \in calls' : c.seen.filter = filter'
    BY DEF UsersInv
  <2>0. muddled' = (muddled \/ i # 1) /\ UNCHANGED <<filter, unsure>> /\ (Arrived(i) \/ ListFails(i))
    BY <1>8 DEF UsersAnswered
  <2>1. Arrived(i) /\ i = 1 /\ ~muddled /\ UNCHANGED <<filter, unsure, others>>
    <3>1. ~ListFails(i)
      BY <1>0 DEF ListFails, Failed
    <3>2. i = 1 /\ ~muddled
      BY ONLY <2>0, ~muddled', Zenon
    <3> QED BY <2>0, <3>1, <3>2 DEF Arrived
  <2>2. Show(1, loads[1].rows) /\ UNCHANGED table /\ loads # <<>>
    BY <1>8, <2>1 DEF Arrived, Show
  <2>3. PICK done \in SUBSET calls : calls' = Over(done) /\ \A c \in done : c.stage = "loading"
    BY <2>2, FirstArrives
  <2>4. Latest' = Latest
    BY <2>2, FirstArrives
  <2>5. /\ \A c \in calls \ done : \E d \in calls' : Alike(c, d)
        /\ \A d \in calls' : \E c \in calls : Alike(c, d)
    BY <1>0, <2>3, OverCalls
  <2>6. Filtered(filter, table)' = Filtered(filter, table)
    BY <2>1, <2>2 DEF Filtered
  <2>7. ASSUME NEW r \in Rows, IsFresh(r) PROVE IsFresh(r)'
    BY <2>3, <2>4, <2>5, <2>6, <2>7 DEF IsFresh, Alike
  <2> QED BY <2>1, <2>5, <2>7 DEF UsersInv, Alike
<1>9. ASSUME NEW c \in calls, UserDone(c) PROVE UsersInv'
  <2>1. c \in RowCall /\ c.stage = "done" /\ UNCHANGED <<page, table, list, others, filter, muddled>>
    BY <1>0, <1>9 DEF UserDone
  <2>2. CASE NextPatch(c) /\ unsure' = unsure \cup {c.row} /\ UNCHANGED <<loads, selected>>
    <3>1. PICK n : calls' = (calls \ {c}) \cup {n} /\ n.seen.filter = c.seen.filter
      BY <1>0, <2>1, <2>2, NextIsSound
    <3>2. Latest' = Latest /\ Filtered(filter, table)' = Filtered(filter, table)
      BY <2>1, <2>2 DEF Latest, Filtered
    <3>3. ASSUME NEW r \in Rows, r # c.row, IsFresh(r) PROVE IsFresh(r)'
      BY <3>1, <3>2, <3>3 DEF IsFresh
    <3> QED BY <2>1, <2>2, <3>1, <3>3 DEF UsersInv
  <2>3. CASE RefreshPageData(c)
    <3>1. calls' = At(c, "loading") /\ Load(c.seen.filter, {Awaited(c)})
      BY <2>3 DEF RefreshPageData
    <3>2. Awaited(c) \in RowCall /\ Awaited(c).stage = "loading"
      BY <2>1 DEF Awaited, RowCall
    <3>3. Latest' = Filtered(c.seen.filter, table)
      BY <3>1, <3>2, LoadIsLatest DEF Loading
    <3> DEFINE n == [c EXCEPT !.stage = "loading"]
    <3>4. n.seen = c.seen
      BY <2>1, Restaged
    <3>5. calls' = (calls \ {c}) \cup {n}
      BY <3>1 DEF At
    <3> HIDE DEF n
    <3> QED BY <2>1, <3>3, <3>4, <3>5 DEF UsersInv, IsFresh, Filtered
  <2> QED BY <1>9, <2>2, <2>3 DEF UserDone
<1>10. ASSUME NEW c \in calls, UserRefused(c) PROVE UsersInv'
  <2>1. c.stage = "refused" /\ UNCHANGED <<page, table, list, loads, others, filter, muddled, unsure>>
    BY <1>10 DEF UserRefused, Unsent, adminVars
  <2>2. /\ \A e \in calls \ {c} : \E d \in calls' : Alike(e, d)
        /\ \A d \in calls' : \E e \in calls : Alike(e, d)
    <3>1. calls' = Over({c}) /\ {c} \in SUBSET calls
      BY <1>10 DEF UserRefused
    <3> QED BY <1>0, <3>1, OverCalls
  <2>3. Latest' = Latest /\ Filtered(filter, table)' = Filtered(filter, table)
    BY <2>1 DEF Latest, Filtered
  <2>4. ASSUME NEW r \in Rows, IsFresh(r) PROVE IsFresh(r)'
    BY <2>1, <2>2, <2>3, <2>4 DEF IsFresh, Alike
  <2> QED BY <2>1, <2>2, <2>4 DEF UsersInv, Alike
<1>11. CASE OtherAdmins
  <2>1. others' = others + 1
    BY <1>11 DEF OtherAdmins, Others
  <2> QED BY <1>0, <2>1 DEF UsersInv
<1>12. ASSUME NEW c \in calls, ServePatch(c) \/ Serve(c, Rows), Unnoticed(c) PROVE UsersInv'
  <2>1. /\ c.stage = "sent" /\ unsure \subseteq unsure'
        /\ UNCHANGED <<page, list, loads, others, filter, muddled>>
    BY <1>0, <1>12, ServedRows
  <2>2. PICK n : /\ calls' = (calls \ {c}) \cup {n} /\ n.seen = c.seen
                 /\ \A r \in Rows : table'[r] # table[r] =>
                        (n.stage = "done" /\ n.row = r) \/ r \in unsure'
    BY <1>0, <1>12, ServedRows
  <2>3. Latest' = Latest
    BY <2>1 DEF Latest
  <2>4. ASSUME NEW r \in Rows \ unsure', IsFresh(r) PROVE IsFresh(r)'
    <3>1. CASE table'[r] # table[r]
      BY <2>2, <2>4, <3>1 DEF IsFresh
    <3>2. CASE table'[r] = table[r]
      <4>1. Filtered(filter, table)'[r] = Filtered(filter, table)[r]
        BY <2>1, <3>2 DEF Filtered
      <4>2. ASSUME NEW d \in calls, d.stage = "done" PROVE d \in calls'
        BY <2>1, <2>2, <4>2
      <4> QED BY <2>3, <2>4, <4>1, <4>2 DEF IsFresh
    <3> QED BY <3>1, <3>2
  <2> QED BY <2>1, <2>2, <2>4 DEF UsersInv
<1> QED BY <1>1, <1>2, <1>4, <1>5, <1>6, <1>7, <1>8, <1>9, <1>10, <1>11, <1>12 DEF UsersNext, Filters

-----------------------------------------------------------------------------
(* What the inbox of requests shows. *)

\* The rows that a request has changed, or will.
Foot(c) == {c.row} \cup DOMAIN c.seen.rest

\* No two requests are about the same row.
FeetApart == \A c, d \in calls : c # d => Foot(c) \cap Foot(d) = {}

\* What will be shown of a row is what is stored, or is about to be shown, unless a save
\* has changed the row unnoticed.
IsKnown(r) == Latest[r] # NoRow =>
    Latest[r] = table[r] \/ \E c \in calls : c.stage = "done" /\ c.row = r

RequestsInv == page = "requests" /\ others = 0 /\ ~muddled =>
    /\ loads = <<>> \/ calls = {}
    /\ FeetApart
    /\ \A c \in calls : c.stage = "done" => c.value = table[c.row]
    /\ \A r \in Rows \ unsure : IsKnown(r)

LEMMA RequestsInvInit == AdminInit => RequestsInv
<1> SUFFICES ASSUME AdminInit PROVE calls = {} /\ Latest = table
  BY DEF RequestsInv, FeetApart, IsKnown
<1> QED BY DEF AdminInit, FirstFetch, Fetch, Latest

LEMMA OverFeet == ASSUME CallsInv, NEW done \in SUBSET calls, calls' = Over(done), FeetApart
                  PROVE  FeetApart'
<1>1. PICK ops : \A d \in calls' : \E c \in calls : d = Marked(c, ops) /\ Alike(c, d)
  BY OverCalls
<1> SUFFICES ASSUME NEW d \in calls', NEW e \in calls', d # e PROVE Foot(d) \cap Foot(e) = {}
  BY DEF FeetApart, Foot
<1>2. PICK c \in calls : d = Marked(c, ops) /\ Alike(c, d)
  BY <1>1
<1>3. PICK b \in calls : e = Marked(b, ops) /\ Alike(b, e)
  BY <1>1
<1>4. b # c
  BY <1>2, <1>3
<1> QED BY <1>2, <1>3, <1>4 DEF FeetApart, Foot, Alike

LEMMA OneFoot == ASSUME FeetApart, NEW c \in calls, NEW n, Foot(n) \subseteq Foot(c),
                        calls' = (calls \ {c}) \cup {n}
                 PROVE  FeetApart'
<1> SUFFICES ASSUME NEW d \in calls', NEW e \in calls', d # e PROVE Foot(d) \cap Foot(e) = {}
  BY DEF FeetApart, Foot
<1> QED BY DEF FeetApart

\* A request about rows that no other is about.
LEMMA SaveIsApart ==
    ASSUME CallsInv, RequestsInv, loads = <<>>, NEW op, NEW about, NEW r, NEW value, NEW seen,
           Send(op, about, r, value, seen),
           \A c \in calls : c.row \notin {r} \cup DOMAIN seen.rest /\ DOMAIN c.seen.rest = {},
           UNCHANGED <<page, table, list, loads, others, unsure>>, ~muddled
    PROVE  RequestsInv'
<1> SUFFICES ASSUME page = "requests", others = 0 PROVE RequestsInv'
  BY DEF RequestsInv
<1>1. PICK n : /\ n = [op |-> op, about |-> about, row |-> r, value |-> value,
                       seen |-> seen, stage |-> "sent", noted |-> TRUE]
               /\ n \in calls'
               /\ \A c \in calls : \E d \in calls' : Alike(c, d)
               /\ \A d \in calls' :
                    d = n \/ \E c \in calls : d = Marked(c, {op}) /\ Alike(c, d)
  BY SentCalls
<1>2. n.stage = "sent" /\ Foot(n) = {r} \cup DOMAIN seen.rest
  BY <1>1 DEF Foot
<1>3. FeetApart'
  <2> SUFFICES ASSUME NEW d \in calls', NEW e \in calls', d # e PROVE Foot(d) \cap Foot(e) = {}
    BY DEF FeetApart, Foot
  <2>1. \A c \in calls : Foot(c) \cap Foot(n) = {}
    BY <1>2 DEF Foot
  <2>2. ASSUME NEW b \in calls, NEW c \in calls, d = Marked(b, {op}), e = Marked(c, {op}),
               Alike(b, d), Alike(c, e)
        PROVE  Foot(d) \cap Foot(e) = {}
    <3>1. b # c /\ FeetApart
      BY <2>2 DEF RequestsInv
    <3>2. Foot(d) = Foot(b) /\ Foot(e) = Foot(c)
      BY <2>2 DEF Foot, Alike
    <3> QED BY <2>2, <3>1, <3>2 DEF FeetApart
  <2>3. ASSUME NEW c \in calls, NEW f, Alike(c, f) PROVE Foot(f) \cap Foot(n) = {}
    BY <2>1, <2>3 DEF Foot, Alike
  <2>4. CASE d = n
    <3>1. PICK c \in calls : Alike(c, e)
      BY <1>1, <2>4
    <3> QED BY <2>3, <2>4, <3>1
  <2>5. CASE e = n
    <3>1. PICK c \in calls : Alike(c, d)
      BY <1>1, <2>5
    <3> QED BY <2>3, <2>5, <3>1
  <2>6. CASE d # n /\ e # n
    BY <1>1, <2>2, <2>6
  <2> QED BY <2>4, <2>5, <2>6
<1>4. \A d \in calls' : d.stage = "done" => d.value = table[d.row]
  BY <1>1, <1>2 DEF RequestsInv, Alike
<1>5. ASSUME NEW s \in Rows \ unsure PROVE IsKnown(s)'
  <2>1. IsKnown(s) /\ Latest' = Latest
    BY DEF RequestsInv, Latest
  <2> QED BY <1>1, <2>1 DEF IsKnown, Alike
<1> QED BY <1>3, <1>4, <1>5 DEF RequestsInv

\* Requests that are over change nothing but the row that they have brought.
LEMMA OverRequests ==
    ASSUME CallsInv, RequestsInv, page = "requests", others = 0, ~muddled,
           NEW done \in SUBSET calls, calls' = Over(done), loads' = <<>> \/ calls = {},
           UNCHANGED table,
           \A r \in Rows \ unsure' : Latest'[r] # NoRow =>
                \/ Latest'[r] = table[r]
                \/ /\ r \notin unsure /\ Latest'[r] = Latest[r]
                   /\ \A c \in done : c.stage # "done" \/ c.row # r
    PROVE  RequestsInv'
<1>1. /\ \A c \in calls \ done : \E d \in calls' : Alike(c, d)
      /\ \A d \in calls' : \E c \in calls : Alike(c, d)
  BY OverCalls
<1>2. FeetApart'
  BY OverFeet DEF RequestsInv
<1>3. \A d \in calls' : d.stage = "done" => d.value = table[d.row]
  BY <1>1 DEF RequestsInv, Alike
<1>4. ASSUME NEW r \in Rows \ unsure' PROVE IsKnown(r)'
  <2>1. r \notin unsure => IsKnown(r)
    BY DEF RequestsInv
  <2>2. CASE Latest'[r] # NoRow /\ Latest'[r] # table[r]
    <3>1. r \notin unsure /\ Latest'[r] = Latest[r] /\ \A c \in done : c.stage # "done" \/ c.row # r
      BY <2>2
    <3>2. PICK c \in calls : c.stage = "done" /\ c.row = r
      BY <2>1, <2>2, <3>1 DEF IsKnown
    <3>3. c \in calls \ done
      BY <3>1, <3>2
    <3> QED BY <1>1, <3>2, <3>3 DEF IsKnown, Alike
  <2> QED BY <2>2 DEF IsKnown
<1>5. loads' = <<>> \/ calls' = {}
  BY <1>1
<1> QED BY <1>2, <1>3, <1>4, <1>5 DEF RequestsInv

LEMMA RequestDoneStep ==
    ASSUME ListsInv, RequestsInv, page = "requests", others = 0, ~muddled,
           NEW c \in calls, RequestDone(c)
    PROVE  RequestsInv'
<1>1. /\ c \in RowCall /\ Sound(c) /\ CallsInv /\ c.stage = "done"
      /\ list' = IF list[c.row] = NoRow THEN list ELSE [list EXCEPT ![c.row] = c.value]
      /\ unsure' = unsure \ {c.row} /\ UNCHANGED <<page, table, loads, others>>
  BY DEF ListsInv, CallsInv, RequestDone
<1>2. /\ loads = <<>> /\ FeetApart /\ c.value = table[c.row]
      /\ \A d \in calls : d.stage = "done" => d.value = table[d.row]
      /\ \A r \in Rows \ unsure : IsKnown(r)
  BY <1>1 DEF RequestsInv
<1>3. Latest = list /\ Latest' = list' /\ list \in RowLists
  BY <1>1, <1>2 DEF Latest, ListsInv
<1>4. ASSUME NEW r \in Rows \ unsure', list'[r] # NoRow
      PROVE  list'[r] = table[r] \/ (list'[r] = list[r] /\ c.row # r /\ r \notin unsure)
  <2>1. c.row = r /\ list[c.row] # NoRow => list'[r] = c.value
    BY <1>1, <1>3 DEF RowLists
  <2>2. c.row # r \/ list[c.row] = NoRow => list'[r] = list[r]
    BY <1>1, <1>3 DEF RowLists
  <2> QED BY <1>1, <1>2, <1>4, <2>1, <2>2
<1>5. CASE NextPatch(c)
  <2>1. PICK n \in RowCall, r \in DOMAIN c.seen.rest :
          /\ calls' = (calls \ {c}) \cup {n}
          /\ n.stage = "sent" /\ n.row = r /\ DOMAIN n.seen.rest = DOMAIN c.seen.rest \ {r}
    BY <1>1, <1>5, NextIsSound
  <2>2. Foot(n) \subseteq Foot(c)
    BY <2>1 DEF Foot
  <2>3. FeetApart'
    BY <1>2, <2>1, <2>2, OneFoot
  <2>4. \A d \in calls' : d.stage = "done" => d.value = table[d.row]
    BY <1>2, <2>1
  <2>5. ASSUME NEW s \in Rows \ unsure' PROVE IsKnown(s)'
    <3>1. s \notin unsure => IsKnown(s)
      BY <1>2
    <3> QED BY <1>1, <1>3, <1>4, <2>1, <3>1 DEF IsKnown
  <2> QED BY <1>1, <1>2, <2>3, <2>4, <2>5 DEF RequestsInv
<1>6. CASE calls' = Over({c})
  <2>1. {c} \in SUBSET calls /\ loads' = <<>>
    BY <1>1, <1>2
  <2>2. \A r \in Rows \ unsure' : Latest'[r] # NoRow =>
                \/ Latest'[r] = table[r]
                \/ /\ r \notin unsure /\ Latest'[r] = Latest[r]
                   /\ \A d \in {c} : d.stage # "done" \/ d.row # r
    BY <1>3, <1>4
  <2> QED BY <1>1, <1>6, <2>1, <2>2, OverRequests
<1> QED BY <1>5, <1>6 DEF RequestDone

LEMMA PatchServedStep ==
    ASSUME ListsInv, RequestsInv, page = "requests", others = 0, ~muddled,
           NEW c \in calls, ServePatch(c), Unnoticed(c)
    PROVE  RequestsInv'
<1>1. /\ c \in RowCall /\ c.stage = "sent" /\ c.row \in Rows
      /\ UNCHANGED <<page, list, loads, others, muddled>>
      /\ unsure' = unsure \cup {r \in Rows : table'[r] # table[r] /\ calls' = At(c, "refused")}
  BY DEF ServePatch, Unnoticed, ListsInv, CallsInv, Sound
<1>2. /\ loads = <<>> /\ FeetApart
      /\ \A d \in calls : d.stage = "done" => d.value = table[d.row]
      /\ \A r \in Rows \ unsure : IsKnown(r)
  BY <1>1 DEF RequestsInv
<1>3. Latest' = Latest
  BY <1>1 DEF Latest
<1>4. CASE /\ table' = [table EXCEPT ![c.row] = Patched(@, c.value)]
           /\ calls' = (calls \ {c}) \cup {[c EXCEPT !.stage = "done", !.value = table'[c.row]]}
  <2> DEFINE n == [c EXCEPT !.stage = "done", !.value = table'[c.row]]
  <2>1. n.stage = "done" /\ n.value = table'[c.row] /\ n.row = c.row /\ n.seen = c.seen
    BY <1>1 DEF RowCall
  <2>2. calls' = (calls \ {c}) \cup {n}
    BY <1>4
  <2> HIDE DEF n
  <2>3. FeetApart'
    BY <1>2, <2>1, <2>2, OneFoot DEF Foot
  <2>4. \A r \in Rows : r # c.row => table'[r] = table[r]
    BY <1>4 DEF ListsInv, RowLists
  <2>5. ASSUME NEW d \in calls', d.stage = "done" PROVE d.value = table'[d.row]
    <3>1. CASE d = n
      BY <2>1, <3>1
    <3>2. CASE d # n
      <4>1. d \in calls /\ d # c
        BY <2>2, <3>2
      <4>2. d.row # c.row
        BY <1>2, <4>1 DEF FeetApart, Foot
      <4>3. d.row \in Rows
        BY <2>5, <4>1 DEF ListsInv, CallsInv, Sound, RowCall
      <4> QED BY <1>2, <2>4, <2>5, <4>1, <4>2, <4>3
    <3> QED BY <3>1, <3>2
  <2>6. ASSUME NEW r \in Rows \ unsure' PROVE IsKnown(r)'
    <3>1. CASE r = c.row
      BY <2>1, <2>2, <3>1 DEF IsKnown
    <3>2. CASE r # c.row
      <4>1. IsKnown(r) /\ table'[r] = table[r]
        BY <1>1, <1>2, <2>4, <3>2
      <4> QED BY <1>1, <1>3, <2>2, <4>1 DEF IsKnown
    <3> QED BY <3>1, <3>2
  <2> QED BY <1>1, <1>2, <2>3, <2>5, <2>6 DEF RequestsInv
<1>5. CASE /\ UNCHANGED table \/ table' = [table EXCEPT ![c.row] = Patched(@, c.value)]
           /\ calls' = At(c, "refused")
  <2> DEFINE n == [c EXCEPT !.stage = "refused"]
  <2>1. n.stage = "refused" /\ n.row = c.row /\ n.seen = c.seen
    BY <1>1, Restaged
  <2>2. calls' = (calls \ {c}) \cup {n}
    BY <1>5 DEF At
  <2> HIDE DEF n
  <2>3. FeetApart'
    BY <1>2, <2>1, <2>2, OneFoot DEF Foot
  <2>4. \A r \in Rows : r # c.row => table'[r] = table[r]
    BY <1>5 DEF ListsInv, RowLists
  <2>5. ASSUME NEW d \in calls', d.stage = "done" PROVE d.value = table'[d.row]
    <3>1. d \in calls /\ d # c
      BY <2>1, <2>2, <2>5
    <3>2. d.row # c.row
      BY <1>2, <3>1 DEF FeetApart, Foot
    <3>3. d.row \in Rows
      BY <2>5, <3>1 DEF ListsInv, CallsInv, Sound, RowCall
    <3> QED BY <1>2, <2>4, <2>5, <3>1, <3>2, <3>3
  <2>6. ASSUME NEW r \in Rows \ unsure' PROVE IsKnown(r)'
    <3>1. IsKnown(r) /\ table'[r] = table[r]
      BY <1>1, <1>2, <1>5, <2>6
    <3> QED BY <1>1, <1>3, <2>2, <3>1 DEF IsKnown
  <2> QED BY <1>1, <1>2, <2>3, <2>5, <2>6 DEF RequestsInv
<1> QED BY <1>4, <1>5 DEF ServePatch

LEMMA RequestsStep ==
    ASSUME page = "requests", ListsInv, RequestsInv, RequestsNext PROVE RequestsInv'
<1> SUFFICES ASSUME others' = 0, ~muddled' PROVE RequestsInv'
  BY DEF RequestsInv
<1>0. /\ CallsInv /\ calls \subseteq RowCall /\ others \in Nat /\ loads \in Seq(Answer)
      /\ table \in RowLists /\ \A c \in calls : c.seen.rest \in Rests
  BY DEF ListsInv, CallsInv, RowCall
<1>1. ASSUME NEW f \in Filters, SetFilter(f), UNCHANGED drafts PROVE RequestsInv'
  <2>1. Load(f, {}) /\ UNCHANGED <<page, table, calls, others>>
    BY <1>1 DEF SetFilter
  <2>2. calls = {}
    BY <1>1 DEF SetFilter
  <2>3. Latest' = Filtered(f, table)
    BY <2>1, LoadIsLatest
  <2> QED BY <2>1, <2>2, <2>3 DEF RequestsInv, FeetApart, IsKnown, Filtered
<1>2. ASSUME UNCHANGED <<page, table, list, loads, calls, others, muddled, unsure>> PROVE RequestsInv'
  BY <1>2 DEF RequestsInv, FeetApart, IsKnown, Latest
<1>3. CASE SelectRequests
  BY <1>2, <1>3 DEF SelectRequests, Select, listingVars, world
<1>4. ASSUME NEW r \in Rows, NEW patch \in [state : States] \cup [note : Notes], UpdateDraft(r, patch)
      PROVE  RequestsInv'
  BY <1>2, <1>4 DEF UpdateDraft, world, adminVars
\* Whoever saves rows that no other request is about.
<1>5. ASSUME NEW S, muddled' = (muddled \/ Overlaps(S))
      PROVE  /\ ~muddled /\ loads = <<>>
             /\ \A c \in calls : c.row \notin S /\ DOMAIN c.seen.rest = {}
  <2>1. ~muddled /\ ~Overlaps(S)
    BY ONLY <1>5, ~muddled', Zenon
  <2>2. loads = <<>> /\ \A c \in calls : c.row \notin S /\ c.seen.rest = <<>>
    BY <2>1 DEF Overlaps
  <2> QED BY <2>1, <2>2
<1>6. ASSUME NEW r \in Rows, NEW s \in States, SaveRequest(r, s) PROVE RequestsInv'
  <2>1. /\ Send("patch", r, r, Payload(r, s), Seen) /\ muddled' = (muddled \/ Overlaps({r}))
        /\ UNCHANGED <<page, table, list, loads, others, unsure>>
    BY <1>6 DEF SaveRequest, Unsaved
  <2>2. DOMAIN Seen.rest = {}
    BY DEF Seen
  <2> QED BY <1>0, <1>5, <2>1, <2>2, SaveIsApart
<1>7. ASSUME NEW s \in States, BulkStatus(s) PROVE RequestsInv'
  <2> DEFINE patches == [r \in selected |-> Payload(r, s)]
  <2>1. StartBulk(patches) /\ muddled' = (muddled \/ Overlaps(selected))
    BY <1>7 DEF BulkStatus
  <2> HIDE DEF patches
  <2>2. PICK r \in selected :
            Send("bulk", NoRow, r, patches[r],
                 [Seen EXCEPT !.rest = [t \in selected \ {r} |-> patches[t]]])
    BY <2>1 DEF StartBulk
  <2> DEFINE seen == [Seen EXCEPT !.rest = [t \in selected \ {r} |-> patches[t]]]
  <2>3. DOMAIN seen.rest = selected \ {r}
    BY DEF Seen
  <2>4. Send("bulk", NoRow, r, patches[r], seen)
    BY <2>2
  <2> HIDE DEF seen
  <2>5. UNCHANGED <<page, table, list, loads, others, unsure>>
    BY <2>1 DEF StartBulk
  <2>6. /\ ~muddled /\ loads = <<>>
        /\ \A c \in calls : c.row \notin selected /\ DOMAIN c.seen.rest = {}
    BY <1>5, <2>1
  <2>7. \A c \in calls : c.row \notin {r} \cup DOMAIN seen.rest /\ DOMAIN c.seen.rest = {}
    BY <2>3, <2>6
  <2> QED BY <1>0, <2>4, <2>5, <2>6, <2>7, SaveIsApart
<1>8. ASSUME NEW i \in DOMAIN loads, RequestsAnswered(i) PROVE RequestsInv'
  <2>1. muddled' = (muddled \/ i # 1) /\ UNCHANGED unsure /\ (Arrived(i) \/ ListFails(i))
    BY <1>8 DEF RequestsAnswered
  <2>2. ~ListFails(i)
    BY <1>0 DEF ListFails, Failed
  <2>3. i = 1 /\ ~muddled
    BY ONLY <2>1, ~muddled', Zenon
  <2>4. Show(1, loads[1].rows) /\ UNCHANGED <<page, table, others>> /\ loads # <<>>
    BY <1>8, <2>1, <2>2, <2>3 DEF Arrived, Show
  <2>5. calls = {} /\ \A r \in Rows \ unsure : IsKnown(r)
    BY <2>3, <2>4 DEF RequestsInv
  <2>6. PICK done \in SUBSET calls : calls' = Over(done)
    BY <2>4, FirstArrives
  <2>7. Latest' = Latest
    BY <2>4, FirstArrives
  <2>8. calls' = {}
    BY <1>0, <2>5, <2>6, OverCalls
  <2> QED BY <2>1, <2>4, <2>5, <2>7, <2>8 DEF RequestsInv, FeetApart, IsKnown
<1>9. ASSUME NEW c \in calls, RequestDone(c) PROVE RequestsInv'
  <2>1. others = 0 /\ ~muddled
    BY <1>9 DEF RequestDone
  <2> QED BY <1>9, <2>1, RequestDoneStep
<1>10. ASSUME NEW c \in calls, RequestRefused(c) PROVE RequestsInv'
  <2>1. /\ c.stage = "refused" /\ calls' = Over({c}) /\ {c} \in SUBSET calls
        /\ UNCHANGED <<page, table, list, loads, others, unsure>> /\ others = 0 /\ ~muddled
    BY <1>10 DEF RequestRefused, Unsaved
  <2>2. Latest' = Latest
    BY <2>1 DEF Latest
  <2>3. loads' = <<>>
    BY <2>1 DEF RequestsInv
  <2>4. \A r \in Rows \ unsure' : Latest'[r] # NoRow =>
                \/ Latest'[r] = table[r]
                \/ /\ r \notin unsure /\ Latest'[r] = Latest[r]
                   /\ \A d \in {c} : d.stage # "done" \/ d.row # r
    BY <2>1, <2>2
  <2> QED BY <1>0, <2>1, <2>3, <2>4, OverRequests
<1>11. ASSUME OtherAdmins PROVE FALSE
  BY <1>0, <1>11 DEF OtherAdmins, Others
<1>12. ASSUME NEW c \in calls, ServePatch(c), Unnoticed(c) PROVE RequestsInv'
  <2>1. others = 0 /\ ~muddled
    BY <1>12 DEF ServePatch, Unnoticed
  <2> QED BY <1>12, <2>1, PatchServedStep
<1> QED BY <1>1, <1>3, <1>4, <1>6, <1>7, <1>8, <1>9, <1>10, <1>11, <1>12 DEF RequestsNext, Filters

-----------------------------------------------------------------------------
(* The filters of both lists. *)

\* The list that comes last is of the filters that are set, with the text that has
\* settled.
LastQuery == IF queries = <<>> THEN answered ELSE <<queries[Len(queries)]>>

FiltersInv ==
    /\ \E S : queries \in Seq(S)
    /\ known /\ ~late => LastQuery = <<QueryFor(debounced, filters)>>

LEMMA FiltersInvInit == FiltersInit => FiltersInv
<1> SUFFICES ASSUME FiltersInit PROVE FiltersInv
  OBVIOUS
<1>1. queries = <<>> /\ known = FALSE
  BY DEF FiltersInit
<1>2. queries \in Seq({})
  BY <1>1
<1> QED BY <1>1, <1>2 DEF FiltersInv

\* One more query.
LEMMA OneMoreQuery ==
    ASSUME NEW S, NEW s \in Seq(S), NEW q, NEW t, t = Append(s, q)
    PROVE  t \in Seq(S \cup {q}) /\ t # <<>> /\ t[Len(t)] = q
<1>1. s \in Seq(S \cup {q})
  OBVIOUS
<1>2. t \in Seq(S \cup {q}) /\ Len(t) = Len(s) + 1 /\ t[Len(t)] = q
  BY <1>1
<1> QED BY <1>2

LEMMA EditKeeps == ASSUME FiltersInv, NEW f, Edit(f) PROVE FiltersInv'
<1>1. /\ filters' = f /\ UNCHANGED <<debounced, known, answered, late>>
      /\ queries' = IF f.choice = filters.choice THEN queries
                    ELSE Append(queries, QueryFor(debounced, f))
  BY DEF Edit
<1>2. PICK S : queries \in Seq(S)
  BY DEF FiltersInv
<1>3. CASE f.choice = filters.choice
  BY <1>1, <1>3 DEF FiltersInv, LastQuery, QueryFor
<1>4. CASE f.choice # filters.choice
  <2>1. /\ queries' \in Seq(S \cup {QueryFor(debounced, f)}) /\ queries' # <<>>
        /\ queries'[Len(queries')] = QueryFor(debounced, f)
    BY <1>1, <1>2, <1>4, OneMoreQuery
  <2> QED BY <1>1, <2>1 DEF FiltersInv, LastQuery
<1> QED BY <1>3, <1>4

LEMMA FiltersStep == FiltersInv /\ [FiltersNext]_filtersVars => FiltersInv'
<1> SUFFICES ASSUME FiltersInv, [FiltersNext]_filtersVars PROVE FiltersInv'
  OBVIOUS
<1>0. PICK S : queries \in Seq(S)
  BY DEF FiltersInv
<1>1. CASE AdminIsKnown
  <2> DEFINE q == QueryFor(debounced, filters)
             p == QueryFor("", filters)
  <2>1. queries' = <<p, q>> /\ UNCHANGED <<filters, debounced>>
    BY <1>1 DEF AdminIsKnown
  <2> HIDE DEF p, q
  <2>2. queries' \in Seq({p, q}) /\ LastQuery' = <<q>>
    BY <2>1 DEF LastQuery
  <2> QED BY <2>1, <2>2 DEF FiltersInv, q, QueryFor
<1>2. CASE TextSettles
  <2>1. /\ UNCHANGED <<filters, known, answered, late>>
        /\ queries' = IF known THEN Append(queries, QueryFor(debounced', filters)) ELSE queries
    BY <1>2 DEF TextSettles
  <2>2. CASE known
    <3> DEFINE q == QueryFor(debounced', filters)
    <3>1. queries' = Append(queries, q)
      BY <2>1, <2>2
    <3> HIDE DEF q
    <3>2. queries' \in Seq(S \cup {q}) /\ LastQuery' = <<q>>
      BY <1>0, <3>1, OneMoreQuery DEF LastQuery
    <3> QED BY <2>1, <3>2 DEF FiltersInv, q
  <2>3. CASE ~known
    BY <1>0, <2>1, <2>3 DEF FiltersInv
  <2> QED BY <2>2, <2>3
<1>3. ASSUME NEW i \in DOMAIN queries, ListOf(i) PROVE FiltersInv'
  <2>1. /\ queries' = RemoveAt(queries, i) /\ answered' = <<queries[i]>>
        /\ UNCHANGED <<filters, debounced, known>>
    BY <1>3 DEF ListOf
  <2>2. /\ queries' \in Seq(S) /\ Len(queries') = Len(queries) - 1
        /\ \A j \in 1..(Len(queries) - 1) : queries'[j] = IF j < i THEN queries[j] ELSE queries[j + 1]
    BY <1>0, <2>1, Removed
  <2>3. ASSUME ~late' PROVE ~late /\ i = 1
    <3>1. late' = (late \/ i # 1)
      BY <1>3 DEF ListOf
    <3> QED BY ONLY <2>3, <3>1, Zenon
  <2>4. ASSUME i = 1 PROVE LastQuery' = LastQuery
    <3>1. CASE Len(queries) = 1
      BY <1>0, <2>1, <2>2, <2>4, <3>1 DEF LastQuery
    <3>2. CASE Len(queries) # 1
      <4>1. Len(queries) - 1 \in 1..(Len(queries) - 1) /\ queries' # <<>> /\ queries # <<>>
        BY <1>0, <2>2, <3>2
      <4>2. queries'[Len(queries')] = queries[Len(queries)]
        BY <1>0, <2>2, <2>4, <4>1
      <4> QED BY <4>1, <4>2 DEF LastQuery
    <3> QED BY <3>1, <3>2
  <2>5. known' /\ ~late' => LastQuery' = <<QueryFor(debounced, filters)>>
    BY <2>1, <2>3, <2>4 DEF FiltersInv
  <2> QED BY <2>1, <2>2, <2>5 DEF FiltersInv, QueryFor
<1>4. CASE AddressArrives \/ SaveFilters \/ UNCHANGED filtersVars
  BY <1>4 DEF AddressArrives, SaveFilters, filtersVars, FiltersInv, LastQuery, QueryFor
<1>5. CASE PutIn \/ ResetFilters \/ ApplySavedView
  BY <1>5, EditKeeps DEF PutIn, ResetFilters, ApplySavedView
<1>6. CASE OpenLink
  <2>1. known' = FALSE /\ queries' = <<>>
    BY <1>6 DEF OpenLink, OpenAt
  <2>2. queries' \in Seq({})
    BY <2>1
  <2> QED BY <2>1, <2>2 DEF FiltersInv
<1> QED BY <1>1, <1>2, <1>3, <1>4, <1>5, <1>6 DEF FiltersNext

LEMMA FiltersMove == [Next]_vars => [FiltersNext]_filtersVars
BY DEF Next, vars, OnUsers, OnRequests, OnLists, OnFilters, OnOverview, OnSignIn, OnAccess, OnTyping,
       savedVars, frontendVars

-----------------------------------------------------------------------------
(* Theorems. *)

LEMMA ShownStep ==
    ListsInv /\ UsersInv /\ RequestsInv /\ [Next]_vars => UsersInv' /\ RequestsInv'
<1> SUFFICES ASSUME ListsInv, UsersInv, RequestsInv, [Next]_vars PROVE UsersInv' /\ RequestsInv'
  OBVIOUS
<1>1. CASE UNCHANGED listsVars
  BY <1>1 DEF listsVars, listingVars, world, adminVars, UsersInv, RequestsInv, FeetApart, IsKnown,
              IsFresh, Latest, Filtered
<1>2. CASE page = "users" /\ UsersNext
  <2>1. page' = page
    BY <1>2 DEF UsersNext, SetFilter, Select, CreateUser, ChangeUser, DeleteUser, BulkPatch, StartBulk,
                UsersAnswered, Arrived, ListFails, Failed, Show, UserDone, UserRefused, OtherAdmins,
                Others, ServePatch, Serve, Unsent, listingVars, world
  <2> QED BY <1>2, <2>1, UsersStep DEF RequestsInv
<1>3. CASE page = "requests" /\ RequestsNext
  <2>1. page' = page
    BY <1>3 DEF RequestsNext, SetFilter, SelectRequests, Select, UpdateDraft, SaveRequest, BulkStatus,
                StartBulk, RequestsAnswered, Arrived, ListFails, Failed, Show, RequestDone,
                RequestRefused, OtherAdmins, Others, ServePatch, Unsaved, listingVars, world
  <2> QED BY <1>3, <2>1, RequestsStep DEF UsersInv
<1> QED BY <1>1, <1>2, <1>3, ListsMove

\* Once nothing is under way, every page shows what the server has, for the filters that
\* it shows, whatever was created, changed, deleted and filtered before. Excluded are the
\* rows ("unsure") that a request has changed of which the page was told that it failed,
\* and those of a bulk change that has not ended; what others have changed; and a list of
\* which an answer has overtaken another, whose filter was changed while a request was
\* under way, or a save of which overlapped with another of the row or with a GET.
THEOREM PagesShowWhatTheySaved == Spec => []ShowsWhatItSaved
<1> DEFINE Inv == ListsInv /\ UsersInv /\ RequestsInv /\ FiltersInv
<1>1. Init => Inv
  BY ListsInvInit, UsersInvInit, RequestsInvInit, FiltersInvInit DEF Init
<1>2. Inv /\ [Next]_vars => Inv'
  BY ListsStep, ShownStep, FiltersStep, FiltersMove
<1>3. Inv => ShowsWhatItSaved
  <2> SUFFICES ASSUME Inv PROVE ShowsWhatItSaved
    OBVIOUS
  <2>1. page = "users" => ShowsUsers
    BY DEF ShowsUsers, UsersInv, IsFresh, Latest
  <2>2. page = "requests" => ShowsRequests
    BY DEF ShowsRequests, RequestsInv, IsKnown, Latest, Listed
  <2>3. page = "filters" => ShowsFiltered
    BY DEF ShowsFiltered, FiltersInv, LastQuery
  <2> QED BY <2>1, <2>2, <2>3 DEF ShowsWhatItSaved
<1> QED BY <1>1, <1>2, <1>3, PTL DEF Spec

\* The answer to a save is gone with it, or so is another to the same save.
LEMMA DoneIsOver ==
    ASSUME CallsInv, NEW c \in calls, c.stage = "done", NextPatch(c) \/ calls' = Over({c}),
           UNCHANGED page
    PROVE  \E d \in calls \ calls' : d.stage = "done" /\ d.row = c.row
<1>1. CASE NextPatch(c)
  <2>1. PICK n : calls' = (calls \ {c}) \cup {n} /\ n.stage = "sent"
    BY <1>1, NextIsSound
  <2> QED BY <2>1
<1>2. CASE calls' = Over({c})
  <2> DEFINE ops == {e.op : e \in {c}}
  <2>0. c.op \in ops /\ {c} \in SUBSET calls
    OBVIOUS
  <2> HIDE DEF ops
  <2>1. \A d \in calls' : \E e \in calls \ {c} : d = Marked(e, ops) /\ Alike(e, d)
    BY <1>2, <2>0, OverCalls DEF ops
  <2>2. CASE c \in calls'
    <3>1. PICK e \in calls \ {c} : c = Marked(e, ops) /\ Alike(e, c)
      BY <2>1, <2>2
    <3>2. e \in RowCall /\ c \in RowCall /\ c = [e EXCEPT !.noted = @ /\ e.op \notin ops]
      BY <3>1 DEF CallsInv, Marked
    <3>3. e.op = c.op /\ e.stage = "done" /\ e.row = c.row
      BY <3>1 DEF Alike
    <3>4. ~c.noted /\ e.noted
      <4>1. c.noted = (e.noted /\ e.op \notin ops)
        BY <3>2 DEF RowCall
      <4>2. ~c.noted
        BY <2>0, <3>3, <4>1
      <4>3. CASE ~e.noted
        <5>1. e = c
          BY <3>2, <3>3, <4>2, <4>3 DEF RowCall
        <5> QED BY <3>1, <5>1
      <4> QED BY <4>2, <4>3
    <3>5. \A d \in calls' : d.op = c.op => ~d.noted
      <4> SUFFICES ASSUME NEW d \in calls', d.op = c.op PROVE ~d.noted
        OBVIOUS
      <4>1. PICK b \in calls : d = Marked(b, ops) /\ Alike(b, d)
        BY <2>1
      <4>2. b \in RowCall /\ b.op = c.op /\ d = [b EXCEPT !.noted = @ /\ b.op \notin ops]
        BY <4>1 DEF CallsInv, Marked, Alike
      <4>3. d.noted = (b.noted /\ b.op \notin ops)
        BY <4>2 DEF RowCall
      <4> QED BY <2>0, <4>2, <4>3
    <3>6. e \notin calls'
      BY <3>3, <3>4, <3>5
    <3> QED BY <3>1, <3>3, <3>6
  <2> QED BY <2>2
<1> QED BY <1>1, <1>2

\* What an admin types for one request is not lost to the answer about another, in
\* whatever order saves, bulk changes and lists are answered.
THEOREM DraftsAreKept == Spec => DraftsKept
<1>1. Init => ListsInv
  BY ListsInvInit DEF Init
<1>2. ListsInv /\ [Next]_vars => ListsInv'
  BY ListsStep
<1> DEFINE Kept == [\A r \in Rows : drafts'[r] # drafts[r] /\ Len(loads') = Len(loads) =>
                        \/ calls' = calls
                        \/ \E c \in calls \ calls' : c.stage = "done" /\ c.row = r]_<<listingVars, adminVars, drafts>>
<1>3. ListsInv /\ [Next]_vars => Kept
  <2> SUFFICES ASSUME ListsInv, [Next]_vars, NEW r \in Rows,
                      drafts'[r] # drafts[r], Len(loads') = Len(loads), calls' # calls
               PROVE  \E c \in calls \ calls' : c.stage = "done" /\ c.row = r
    OBVIOUS
  <2>1. page = "requests" /\ RequestsNext /\ drafts' # drafts
    BY ListsMove DEF listsVars
  <2>2. \/ \E p \in Rows, patch \in [state : States] \cup [note : Notes] : UpdateDraft(p, patch)
        \/ \E i \in DOMAIN loads : Arrived(i)
        \/ \E c \in calls : RequestDone(c)
    BY <2>1 DEF RequestsNext, SelectRequests, SaveRequest, Unsaved, BulkStatus, RequestsAnswered,
                RequestRefused
  <2>3. ~\E p \in Rows, patch \in [state : States] \cup [note : Notes] : UpdateDraft(p, patch)
    BY DEF UpdateDraft, world
  <2>4. ASSUME NEW i \in DOMAIN loads, Arrived(i) PROVE FALSE
    <3>1. loads' = RemoveAt(loads, i) /\ loads \in Seq(Answer)
      BY <2>1, <2>4 DEF Arrived, Show, StillAsked, ListsInv
    <3>2. Len(loads') = Len(loads) - 1
      BY <3>1, Removed
    <3> QED BY <3>1, <3>2
  <2>5. PICK c \in calls : RequestDone(c)
    BY <2>2, <2>3, <2>4
  <2>6. /\ drafts' = [drafts EXCEPT ![c.row] = c.value] /\ drafts \in RowLists /\ CallsInv
        /\ c.stage = "done" /\ UNCHANGED page /\ (NextPatch(c) \/ calls' = Over({c}))
    BY <2>5 DEF RequestDone, BuildDraft, ListsInv
  <2>7. c.row = r
    BY <2>6 DEF RowLists
  <2> QED BY <2>6, <2>7, DoneIsOver
<1> QED BY <1>1, <1>2, <1>3, PTL DEF Spec, DraftsKept

=============================================================================
