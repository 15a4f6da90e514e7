# DeployMate: specifications, checks and proofs

DeployMate deploys containers: a Next.js frontend talks to a FastAPI backend,
which keeps its records in PostgreSQL and drives Docker on its own host or, over
ssh, on saved servers. The same repository ships a second product, the Codex
mobile terminal (`products/codex-mobile-terminal`): a Node bridge that shares one
tmux terminal among browser pages.

This directory holds TLA+ models of both, TLC runs on small instances, and
proofs, checked by TLAPS, that hold for every value of the constants.

## Inventory

| Component | State it keeps | Operations | What is hard |
|---|---|---|---|
| Deployment handlers (`services/deployment_mutations.py`, `routes/deployments.py`) | none of their own; rows read before and used after many calls | create, redeploy, delete | FastAPI runs the handlers in threads; each is a chain of database calls and docker commands without lock or common transaction; every call may fail |
| Container runtime (`services/deployments.py`, `runtime_executors.py`) | containers on the hosts | `docker run`, `rm -f`, `inspect`, `ss` | names and ports are shared by all deployments of a host; commands time out, and over ssh finish later |
| Storage (`db.py`) | tables | one connection and one transaction per function | nothing spans two functions; startup cleans up |
| Server targets (`routes/servers.py`) | table `servers` | create, edit, delete, test | edits and deletions race with deployments |
| Plan limits, access (`services/auth.py`, `runtime_access.py`) | counts of rows | checks | check first, act later |
| Accounts, sessions, rate limit (`routes/auth.py`) | users, sessions, failure events | login, register, password, logout | windows of time, concurrent attempts |
| Administration (`routes/root.py`) | users, upgrade requests, audit events | create, edit, delete users; decide requests | the last administrator; stale reads of requests |
| Templates | table `deployment_templates` | CRUD, deploy | deploys through the create handler |
| Restore analysis, ops reports, observability, diagnostics | none | read and report | pure functions of what they read |
| Terminal bridge (`server/src`) | the session's pty, attached websockets, output buffer | attach, detach, output, exit, input, reset, snapshot | events of old and new ptys interleave; the buffer outlives what it describes |
| Terminal pages: console, iPhone | websocket, reconnect timer, polling, displayed output | connect, lose, poll, receive | two channels, websocket and snapshots, that overtake each other |
| Terminal page: desktop (`TerminalSurface.js`) | the same, with a queue of input and a reset flag | connect, lose, type, reset | order and bound of the input queue |
| Terminal pages: input (`TerminalInputControllerIOS.js`, `ConsoleWorkspace.js`, `TerminalWorkspace.js`) | drafts, an armed Ctrl, a composition, a flag "sending" | type, paste, compose, submit | posts overlap and their answers get lost |
| Sign-in and proxy routes of the terminal (`apps/web/app/api`, `login`, `lib/auth.js`) | a signed cookie; a secret in each of two processes | sign in, sign out, forward | several windows with one cookie; processes restarted one after the other |
| Rollout pages: workflow, one deployment, server review | what the last answers brought, forms, reviews, tabs | load on a timer, create, redeploy, delete, save templates, edit and check servers | answers overtake each other and the user; links that fill forms; failures seen late |
| Admin pages: users, upgrade requests, restore, import review | lists, filters, selections, drafts, reports | change rows singly and in bulk, hand reports over, export | stale closures, bulk changes that end half-way, other admins, other tabs |
| Saved views | a list per tab, one entry of `localStorage` | save, delete, export, import | every tab writes the whole list |
| Start page | lists and a summary | refresh | refreshes overlap |
| Sign-in, registration, password, plans pages; middleware; top bar | one cookie, forms, a timer | sign in, register, change the password, sign out | the middleware sees a cookie, the backend a session |
| Landing page, fixtures, release scripts, packaging | none that matters here | render, release | - |

They interact like this. A handler of a deployment calls the plan check, reads
the server row, asks the runtime whether docker, port and name are available,
then alternates writes to the tables with commands to the runtime; server
handlers write the rows it has read. The bridge pushes output to the websockets
of the pages; the pages call it over HTTP for snapshots, input and reset, and
every such call may start the terminal again. The pages of the frontend call the
backend, each on its own: what binds them is the table that they list, the cookie
and the storage that windows share, and the reports and links that one hands to
another.

What makes each component correct, in one line: every container can be found
through its row and no row lies about its container; limits, servers and log
entries agree with the deployments; there is one terminal and all clients follow
it; the terminal's pages reconnect, start it again and in the end show what it
shows, and keys reach it once; pages of the frontend end up with what the backend
has, let no late answer undo what the user has done, and come to rest.
`PROJECT.json` lists the hazards with their lines.

## Modules

Backend: `Deployments` models the three deployment handlers, edit and delete of
servers, the tables they write and the containers on the hosts. It implements
`DeploymentLifecycle`.
`Accounts` models accounts, sessions, the sign-in limit, the administration of
users and upgrade requests, and the limit of servers.

Terminal: `TerminalBridge` models the bridge server. `TerminalPage` extends it
with the console or the iPhone terminal, `TerminalSurface` with the desktop
terminal, and so both compose a page with the bridge.

Rollout pages: `Listing` is what pages with a list have in common.
`DeploymentWorkflow`, `RuntimeDetail` and `ServerReview` extend it, and
`Workspace` is a tab with one of the three open.

Other pages: `AdminPage` extends `Listing` with filters, selections and bulk
changes, and `UserAdministration` and `UpgradeRequests` extend that. `PageFilters` has
the filters of both and the address that follows them. `RestorePlan` and
`ImportReview` are the path of a backup bundle, `SavedViews` the views that
tabs share, `Overview` the start page, `SignIn` the pages around the workspace,
`TerminalAccess` and `TerminalInput` the sign-in and the input of the terminal's
pages. `Frontend` is the composition, in which one of them is open.

The modules `MC...` instantiate these for TLC, and the modules `...Proofs` prove theorems
about them: `DeploymentsProofs` and, on top of it, `LifecycleProofs` about `Deployments`;
`AccountsProofs`; `TerminalBridgeProofs` and, on top of it, `TerminalSurfaceProofs`, which
covers `TerminalPage` as well; `WorkspaceProofs` about the three rollout pages;
`FrontendProofs` and, on top of it, `AdminProofs` about `Frontend`, the latter about its
pages with a list.

In each module operators whose comment begins with "Variant" are deliberately
wrong versions of the operator after them. No specification uses them: they
serve to show that the properties notice such mistakes.

### Deployments

One action stands for one call that the handler makes: `InsertRecord` for
`insert_deployment_record`, `RemoveContainer` and `RemoveFails` for
`remove_container_if_exists` with its two outcomes, `RunContainer` and
`RunTimesOut` for `run_container`, `MarkPending`, `MarkRunning` and `MarkFailed`
for the uses of `update_deployment_record`, and so on. `pc[r]` is the place of
request `r` in its handler, and the steps of different requests interleave freely.
The reads at the start of redeploy and delete belong to the action that begins
the request, because nothing precedes them; the row read is kept in `seen[r]`,
and later steps use it, stale or not, exactly where the code uses
`existing_deployment` or `deployment`. The checks in front of a create
are `GetTarget`, `CheckPort` and `CheckName`: each can end the request, and
answers that the code treats as "free" (a failing `inspect` or `ss`) are kept.

A request creates at most one deployment and starts at most one container, so the
request names both. Container names are generated (`r`) or custom (`Names`).
A container that docker created but could not start keeps its name but not its
port, as docker does it. Image, environment, messages and time stamps are left
out; so is `internal_port`, which goes with the external one.

Faults are a constant: `"runtime"` (a command exits non-zero for a reason outside
the model), `"timeout"` (the command outlives its deadline, with or without
effect), `"late"` (over ssh such a command may take effect at any later time),
`"db"` (no connection) and `"crash"` (the process dies with everything in
flight, and starts again with the cleanup of `init_db`).

Most properties exclude deployments in `disturbed`, a history variable: those on
which two handlers overlapped, whose server row was changed under them, or which
a command touched after its deadline. The code has no protection in these three
cases, and no property of the containers survives them; the properties say that
nothing else does harm, and that the harm does not spread to other deployments.

`DeploymentLifecycle` says what the handlers promise about one deployment: its
status, and a container that is absent, made or up. A container is started only
for a pending deployment that has none, "running" is said only of one that is up,
and a deletion removes the container first. `Deployments!Lifecycle` maps a row
to its status and its containers to the one it may have; disturbed deployments
map to a phase of which nothing is promised. `ImplementsLifecycle` is checked in
`deploy_generated`, whose docker commands may fail.

### Accounts

As in `Deployments`, a handler is a thread and each database call a step.
`read[c]` is the row that a handler has read, and later steps use it. The history
variable `raced` collects the checks that two calls relied on at the same time:
that an administrator is left, the plan limit of servers, the failed logins or
registrations of one name, the row of one upgrade request. Properties of these checks exclude what is
in `raced`; those that the tables themselves guarantee (unique names, sessions that
go with their user) exclude nothing. A restart runs `ensure_default_user`.
Passwords are right or wrong; hashing, the expiry of sessions and audit events are
left out.

### TerminalBridge and TerminalPage

Node runs one callback at a time, so each handler of the bridge is one step.
Output is abstracted to numbered chunks that the programs draw; a new
tmux client is sent the current screen again, that is the last chunk. `session`,
`clients` and `buffer` are the fields of `SessionManager`; `pty` is the life of
every pty that was spawned. A killed pty may still deliver output, and it
exits, and its exit is reported, later. `BridgeSpec` is the bridge with anybody
talking to it, `CalmSpec` the same while nobody presses "Reset".

In `TerminalPage`, `conn`, `timer`, `polling`, `link` and `shown` are the refs
and states of the two hooks. The pages differ in one thing that matters, and
`PollsAlways` says it: the console fetches a snapshot every 1.2 seconds, the
iPhone terminal fetches one at the start and polls only while it has no
websocket. A websocket is lost at the page and at the bridge separately. Answers
are delivered in any order.

`TerminalSurface` adds the desktop page: the queue of input that waits for the
websocket, its limit, and the flush. What is typed is numbered, and `TypedInOrder`
and `QueueDrains` are about those numbers.

### Listing and the rollout pages

`table` is what the server has, `list` what the page shows, `loads` the GETs on
their way back, in any order, each with the rows of the moment it was served, and
`calls` the requests that change something. Other users change the table too.
A page acts on `list` and not on `table`: that is the point of these models. A request
has three outcomes (`Serve`): it is stored and answered, it is refused, or it is stored and
the page is told of a failure, because a later step of the handler failed or the answer was
lost. The workflow page loads its lists a second time once it is shown (`StillAsked`).

`DeploymentWorkflow` has the form with the name of a template, the tab, the filter, the
suggested ports and the links with which other pages open it (`handoff`). The interval's
`Refresh` uses the filter of the first render, as the code's closure does. The effects run
in the order in which the page declares them: that of the tab (`TabEffect`, run by
`Turned` and `AfterList` when what it depends on has changed), that of a link to a server
(`ServerHandoff`), that of a link to a template (`TemplateHandoff`), and the last two run
again with every list. Deployments and servers arrive together or one after the other,
so `HandedTab` has three outcomes; in one the form stays open although a failure has just
arrived. `RuntimeDetail` is the page of one
deployment: details, then the checks (logs, health, activity, diagnostics), what
they make the page decide (`Decision`), two tabs, a redeploy form and two reviews
with a phrase. `ServerReview` has a selection, an edit form and the results of
checks.

### The admin pages

`AdminPage` has what the lists of users and of upgrade requests share: a filter,
rows that are selected, and a bulk change, which is a PATCH per row and stops at the
first refusal. `UserAdministration` loads the list again after each change,
`UpgradeRequests` replaces the row by the answer and keeps a draft for every row. The
backend stores a change before it writes the audit event, in another transaction:
`ServePatch` may store a change and be answered as refused. The history variable `unsure`
has the rows that may have changed so since the page has last asked for its list.
`RestorePlan` is the restore section: the text of a bundle, a dry-run and an
import plan, handed over through session storage to the page that `ImportReview`
models. `SavedViews` has tabs that each keep a list and write it whole.

`PageFilters` is opened at an address, changes its filters, and replaces the
address by that of the filters: a `router.replace` takes time, and when it arrives an
effect looks whether it is still right. A search text is asked for when it has not
changed for a while. Lists are answered in any order.

### Overview, SignIn, TerminalAccess, TerminalInput

`Overview` refreshes every eight seconds, whether or not the last refresh has
been answered; from the summary, or from lists while there is none, it derives
the first step; a list that the backend cannot read is empty in its summary
(`SummaryDegraded`). `SignIn` has windows with one cookie: links keep the scripts of a
window running, forms and typed addresses do not, and the middleware looks at the
cookie only. `TerminalAccess` is the sign-in of the other product, whose token is
checked by two processes, each with the secret it was started with.
`TerminalInput` follows keys from the three pages to the bridge: posts are
refused, lost or answered late, and on the iPhone page keys are dropped while one
is under way. The browser may give up on a post, which the bridge then writes later, or
not (`GiveUp`, stage "late"). The paste of the desktop page waits for the clipboard
(`PressPaste`, `ClipboardRead`), and the page takes other input meanwhile.

## Runs

Each run takes from seconds to about three minutes.

| Run | Instance | Shows |
|---|---|---|
| `deploy_faults` | 3 requests, 1 host, generated names and a custom one, all faults | containers stay reachable through their rows (`NoOrphanContainer`, `OneContainerPerDeployment`, `RunningNamesTheContainer`) and nothing is logged about the dead (`NothingLoggedAboutTheDead`); `TypeOK` |
| `deploy_generated` | 3 requests, generated names, a saved server that may point at 2 hosts, its edit and deletion, docker commands that fail | handlers remove only their own containers (`RemovesOnlyItsOwn`), `NoOrphanContainer` holds with servers, every step is one of the abstract lifecycle (`ImplementsLifecycle`) |
| `deploy_settles` | 2 requests, an admin and a member with a plan of 1 deployment, one port, a saved server on 2 hosts, fair threads, no faults | pending deployments are settled (`PendingSettles`); running rows are backed, with a port to compete for (`RunningIsBacked`) |
| `deploy_shared_name` | 3 requests, one custom name | `RemovesOnlyItsOwn` is violated: a delete removes the container of another deployment |
| `deploy_server_race` | 2 requests, one server | `NoDanglingServer` is violated: a deployment on a deleted server |
| `bridge` | 4 ptys, 2 websockets, 3 chunks, failing spawns, no resets | one terminal (`OneTerminal`); clients see no gap and no repetition (`NoGaps`); types and limits |
| `bridge_reset` | 4 ptys, resets | `OneTerminal` is violated: two live terminals after a reset |
| `pages` | each of the three pages with 3 ptys, 2 websockets, resets; 2 snapshots at a time for the console; 3 keys and a queue of 2 for the desktop | no request is served by a pty that is known to be gone (`SessionIsNotGone`); the console starts the terminal again and ends up with what the bridge has (`ConsoleRecovers`); the iPhone page reconnects (`Reconnects`); the desktop page sends what waits, in order (`TypedInOrder`, `QueueDrains`) |
| `phone_output` | iPhone, 2 websockets, 1 chunk | `MissesNothing` is violated: output is missing after a reconnect |
| `accounts` | 2 overlapping calls of every kind, 2 accounts, failures and restarts | the last administrator, unique names, sessions of users, the sign-in limit, the server limit and updates of upgrade requests |
| `workspace` | the three rollout pages, 2 rows, 1 server, every kind of link, another user, 3 steps of the user | late answers change nothing in the form but what the link puts there (`FormIsKept`), edits stay with their server (`EditsGoHome`), nothing is started over a failure but by the form under a link to a server (`NoRolloutOverFailure`), check results belong to their server (`ReadyByItsOwnCheck`), and lists and the decision on the detail page settle (`ListSettles`) |
| `frontend` | the other pages, one open at a time; 2 rows, 2 bundles, 2 tabs, 2 windows | `ShowsWhatItSaved`, `DraftsKept`, `OneBundle`, `ViewsAreDistinct`, `OverviewSettles`, `ComesToRest`, `LeadsBack`, `TypedOnce`, one property for each kind of trouble those pages have |

Bounds, backend. `Requests` bounds the requests of a behaviour: three are one more
than two that collide, so that a third meets what the two have left behind (create,
redeploy and delete of one deployment; a failed create, a successful one, a
delete). In `Accounts` two calls are enough for a race of a check with a write,
and `MaxAttempts` and `MaxServers` are one, so that a second call is over the limit.

Bounds, terminal. `Ptys` bounds the ptys; `Spare` in the guards of
`PtyEnds` and `Reset` keeps one unborn pty for each exit still to come and for
the request after it, so that no handler is ever blocked by the bound.
`Conns` bounds the websockets; the page loses one only while another is left,
so that it is never prevented from reconnecting. `MaxOutput` bounds the chunks,
`MaxFetches` the snapshots under way. `MaxBuffer`, `MaxSnapshot` and `QueueLimit`
stand for limits of the code and are reached. `MaxKeys` and `MaxPosts` bound what
is typed: three keys make a draft, a quick action before it and a text of two keys.

Bounds, frontend. `MaxActs`, `MaxMoves`, `MaxSteps`, `MaxEdits` and `MaxReviews` bound what the
user does; `MaxOthers`, `MaxFaults` and `MaxTroubles` what others do and how often
something fails; `MaxLoads` and `MaxRefreshes` the GETs under way when a timer
starts another; `MaxIds` and `MaxViews` the views created and kept; `MaxSecrets` the
secrets. Three acts of the user and one of another are the shortest way to the
races the properties are about: two things that the user does while the answer to
an earlier one is on its way. Some smaller limits keep the instances small:

* the admin pages load their list twice when they open; they start after the
  first of the two answers, and with one of `FirstTables`; others change a row to
  one of `FirstRows`; other admins, failing lists and selections end with `MaxActs`;
* to follow a link is the first of the acts of the user on the workflow page;
* there is one file of exported views at a time;
* the filters are any at first, so that two edits meet every one of them; there is
  one choice and one text beside the words that the address takes for neutral;
* the first window that signs in is a given one;
* switching a tab of the detail page belongs to the action that uses what the tab
  shows, `failures` of its activity do not grow old, and there is no template at first.

Deadlock. `Deployments` has the step `Quiet` for a backend with nothing in flight;
a handler that is in flight can always go on, so no run of it deadlocks. In the
terminal a write to an open session is always possible, so nothing deadlocks
either. `workspace` and `frontend` switch the check off: a page whose user has done
all the bound allows, and which has no timer, really stops.

Fairness. `Deployments!FairSpec`: the thread pool runs each handler that it has
started; clients, hosts and faults owe nothing. `TerminalPage!FairSpec`: the
browser fires its timers and delivers what arrives, the bridge accepts websockets
and answers requests, node-pty reports output and exits, and a killed process
ends. The user, the programs and the losses owe nothing. The iPhone page's
heartbeat gives up a websocket that the bridge has dropped; the console has no
heartbeat, and none is assumed for it. `Workspace!FairSpec` and
`Frontend!FairSpec`: timers fire and every GET is answered some time, in the order
the network likes; a bulk change goes on when its PATCH has been served or refused.
The user, other users and failures owe nothing, and neither do the single requests
that change something.

What `frontend` and `workspace` exclude. Where the code does not promise all that a
property might say, the property states the exception:

* `FormIsKept`: the fields that the link to the page is for (`Relinked`): with every list,
  a link to edit a template loads it again, one to look at a template puts its name over
  the one typed, and one to a server chooses that server;
* `NoRolloutOverFailure`: under a link to a server it is about templates only (`Barred`).
  Without this TLC finds in four states that the form starts a deployment over a failure
  that arrived with the servers. No line of the repository promises the contrary, so this
  is an observation and not a finding;
* `ShowsWhatItSaved`: pages of which others have changed the table, or on which answers may
  have overtaken each other (`muddled`: a filter changed under a request, for one), and
  the rows in `unsure`;
* `DraftsKept`: lists that arrive put their rows over every draft; the property is about the
  answers to saves;
* `OneBundle`: a text that replaced its own while a report was under way (`overtaken`);
* `TypedOnce`: what comes after input was sent that other input could overtake (`lapped`:
  while a paste waits for the clipboard, while a post is late, several pieces at once, a
  button before a draft), and drafts sent again whose answer was lost (`again`);
* `OverviewSettles`: sessions that have ended.

## Disagreements between the code and what it says

Four runs end in a counterexample; `findings` in `PROJECT.json` quotes the text
each contradicts.

* A create that fails keeps the name it asked for. Deleting the failed
  deployment removes by that name, and takes away the container that another
  deployment has got in the meantime.
* A server can be deleted between a create's look at it and its insertion; the
  deployment can then neither be redeployed nor deleted, because both read the server.
* `reset()` kills a pty whose `onExit` comes later and sets `this.session = null`,
  although a request has started a new session by then. The next request starts
  another one, and every client receives each output twice.
* The iPhone terminal misses output that arrives while it reconnects.

Observations made while modelling, each part of the model, none of them a violated
property here:

* Terminal: the console is refused while old output of Codex is in the buffer,
  although the screen is free. The iPhone terminal says "Session restarted.
  Reconnecting..." when the terminal ends, but does nothing that would start it
  again. Keys typed on that page while a POST is under way are dropped, so is a
  replacement by autocorrection, and an armed Ctrl is used up by a composition that
  ends then. Keys typed while the desktop page waits for the clipboard overtake the paste, and
  keys typed after a post that the browser gave up on may overtake it. A sign-in form sent empty forgets its `next`, and no terminal page
  leads to the sign-in when its token is refused.
* Detail page: the refresh every eight seconds fills the redeploy form again, also
  under an open review; the confirmation does not validate again. A managed
  deployment whose activity cannot be loaded at first has a blank page. The link
  "Prepare rollout change" leads to a section that is hidden unless its tab is open.
  A warning of the validation and the "Waiting" branch of the readiness cannot be
  reached, and `loadDeploymentDiagnostics` is never called.
* Workflow page: the form can start a deployment over a failure, and links put back what the
  user has changed, as said above.
* Server review: the readiness that is shown survives a change of the address.
* Users page: a filter chosen while a change is under way is undone by the list
  loaded after it; a change that is told as failed loads no list, although the role or plan
  may have been stored before the audit event failed (root.py:1330 and :1335), and neither
  does a bulk change that is refused half-way. A dry-run
  that is answered after the text was replaced is paired with the import plan of
  another text, although the page speaks of "this exact bundle" (users/page.js:1811).
* Filters: "Filters stay in the URL, so this exact view can be shared"
  (users/page.js:2089), but a search for "all" or "newest" is left out of the URL,
  and one for "all" has no chip and cannot be saved as a view (`AddressFollows`
  excludes these). A page opened at an address with a search text asks for the list
  twice at once, first without the text: when the first answer is the later one, the
  list is that of no search (`ShowsFiltered` excludes answers that overtake).
* Saved views: the button "Update current" is never enabled, and of two tabs the
  later overwrites what the earlier saved.
* Import review: choosing the live backup removes what was handed over before the
  request has succeeded.
* Start page: when the session ends the page stays, because nobody handles the
  rejection of the interval's `refreshPage`, although workspace-chrome.js:54 says
  that pages already handle redirects.
* Sign-in: the login ignores the `next` of the middleware; the landing page is never
  shown; a sign-out that fails leaves the cookie valid; the timer after a change of
  the password drags the window back to `/app`; a password that must be changed
  does not keep links of the top bar from working; and the answer to a sign-out
  can clear the cookie of a newer sign-in in another window.

## Proofs

TLC checks small instances; the theorems hold for every value of the constants. All
safety and action properties of the passing runs are proved, type invariants included.
The constants are subject to the assumptions in the modules, which TLC evaluates: bounds are natural numbers, null values are not values, ids are finitely
many, a generated name is never a custom one. Three of the assumptions were found
in proofs: `WorkflowAssumption` (a link names something that exists, and there is
something to type that is not refused), `DetailAssumption` (there is a deployment
to open the page of) and `ViewsAssumption`.

| Module | Theorems |
|---|---|
| `DeploymentsProofs` | `TypeCorrect`, `ContainersAreFound`, `AtMostOneContainer`, `RowNamesContainer`, `NothingOutlivesItsRow`: under every combination of faults |
| `LifecycleProofs` | `HandlersKeepApart`, `HandlersImplementLifecycle`, `RunningRowsAreBacked`: for generated names |
| `AccountsProofs` | `AccountsTypes`, `AdminsRemain`, `NamesAreUnique`, `SessionsHaveUsers`, `FailuresAreBounded`, `ServersAreWithinPlan`, `UpdatesKeepTheRest` |
| `TerminalBridgeProofs` | `BridgeTypes`, `SessionsAreServed` with resets; `ThereIsOneTerminal`, `ClientsMissNothing` without |
| `TerminalSurfaceProofs` | `PagesAreServed`, `KeysAreSentInOrder` |
| `WorkspaceProofs` | `WorkspaceTypes`, `EditsStayHome`, `FormsAreKept`, `NothingRollsOutOverFailure`, `ChecksMakeReady` |
| `FrontendProofs` | `ViewsStayDistinct`, `OneBundleIsReviewed`, `SignInLeadsBack`, `KeysArriveOnce` |
| `AdminProofs` | `AdminTypes`, `PagesShowWhatTheySaved`, `DraftsAreKept` |

Hardly any of these properties is inductive. The strengthenings were checked with TLC
on the instances of the runs before they were proved. Each proof has one lemma per
action, or per group of actions that do the same to the state, with one step per
conjunct that the action can disturb, and a temporal step at the end. A composition
is handled by one lemma that its steps are steps of the component, or leave it alone.

**Deployments.** That a redeploy finds the old container depends on what its handler
knows. `IInv` adds

* `Control`: what `op`, `dep`, `want`, `seen` and `host` hold at each place of a
  handler, and `LateInv`, the same for commands after their deadline;
* `Fresh`: a request that has not inserted its row has no row, no container and no
  log entry yet;
* `OneHandler`: on an undisturbed deployment at most one handler is in flight;
* `Knowledge`: what the handler of an undisturbed deployment knows at each
  place: that the row it read is still the row, that after the removal there
  is no container left, that the row has the new name before a container does,
  that the host it read is still the server's;
* `NamesInv`: which custom or generated name a row or container can have.

**The life of a deployment.** The three theorems of `LifecycleProofs` assume
`Names = {}`: no payload brings a name of its own. With names, `deploy_shared_name` is
the counterexample to `RemovesOnlyItsOwn`. `GInv` adds `Generated` (a row and its container
bear the name made of the id) and `Preparation` (what the row says of port and status
while its handler works). `HandlersKeepApart` excludes commands that take effect after
their deadline, because such a `docker rm` may hit at any time; the other two
concern undisturbed deployments, which excludes it, too. The refinement holds under every
fault. Its argument: a step changes the mapped state of at most the deployment it
is about, each action of the handlers corresponds to one action of
`DeploymentLifecycle` or to none, and deployments that become disturbed leave by
`Disturb`. `RunningRowsAreBacked` allows failing commands only: after a crash,
without the database, or when a removal takes effect although it has timed out, a row
can say "running" although its container is gone.

**Accounts.** `OneAtATime` turns the history variable `raced` into exclusion: a check
that is not in `raced` is relied on by one call at a time. What that call relies
on is then still true when it writes: another administrator (`AdminInv`), room for its
own failure (`FailuresInv`) or server (`ServersInv`), the row it has read
(`UpgradesInv`). The proof showed that failures have to be counted by kind of attempt
and name, as the code's key does. Unique names and sessions need nothing of this:
the tables guarantee them.

**Terminal.** `SessionIsNotGone` is inductive with the types. Without resets `OneSession`
says that a pty that has not been reported as ended is the session, and `UpToDate`
that the last output sent to a client is the newest; together they give `OneTerminal` and
`NoGaps`. For the pages, every step of a page is one of the bridge, or reads a message, or
leaves the bridge alone. `QueueInv` says that sent and queued keys are in order
together, and that nothing waits while the websocket is up.

**Rollout pages.** `CallsInv` says what a request of each page is about; `WorkflowInv`
keeps the tab on the list while a failure is shown or, under a link to a server, on the
list or the form, which is why templates are safe even then; `DetailInv` and `ReviewInv` are
about what is typed. `NoRolloutOverFailure` was first
stated with the identity of requests, and its proof failed: of two requests that differ
only in a button that is disabled meanwhile, forgetting the one looks like the other
one. Two rows with templates are enough for TLC to show it. It now compares what
requests ask for.

**Admin pages.** `UsersInv` says, for every row that is not `unsure`, what the page will show
in the end: in the last list under way the row is as the server has it, under the filter
that is set, unless a request on that row still has to ask for a list (`IsFresh`). `RequestsInv` says the same of lists that answers replace row by row: no two
requests touch one row (`FeetApart`), and what is shown of a row is stored, or about to be
shown (`IsKnown`). `FiltersInv` is about the last query. Patches are applied by
`Patched`, which says what the handler does field by field.

**The other pages.** `ViewsInv`: an id stands for one name in all tabs, the storage and
the exported file, and ids in use are below the clock. `BundleInv`: reports are of the text
in the editor, unless a text has overtaken one. `AccessInv`: a form under way is the only
one of its window and still shown. `TypingInv`: keys for Ctrl on their way or arrived, plus
the armed one, are no more than were armed (`ControlsInv`); what has arrived comes before
what waits, that before the draft, what a POST brings before or out of the draft, and what
waits for the clipboard between what is sent and the draft (`OrderInv`).

Only model-checked are the properties with fairness, because the prover has no rules for
it beyond propositional temporal logic: `PendingSettles`, `ConsoleRecovers`, `Reconnects`,
`QueueDrains`, `ListSettles`, `ComesToRest` and `OverviewSettles`. The four runs with a
counterexample are facts about an instance.

## Not modelled, and what is left

Not modelled, with the reason:

* read-only parts of the backend (restore analysis, ops reports, observability,
  diagnostics, notifications feed): functions of what they read; the pages that use
  them take their answers as values;
* templates, the connection tests of servers, the encryption of credentials and the
  migration at startup: one table or column each, nothing that interleaves; what
  pages do with templates is in `DeploymentWorkflow`;
* expiry of sessions and of the terminal's tokens, the change of a password in the
  backend (it ends no session), the in-memory variant of the sign-in limit;
* exports, the audit panels except for their filters, and the request forms of the
  public pages;
* the routes `api/auth/api-key` and `api/auth/status` of the terminal, which no page
  calls, and `MobileTerminalWorkspace.js`, which nothing imports;
* on the start page, that one rejected list ends a `Promise.all` before the others arrive;
* the landing page, smoke fixtures, wording, layout, release scripts and packaging:
  no state whose interleavings matter.

Left for proofs: without `Names = {}`, that a handler removes other containers only
under a custom name that two deployments have asked for; and with resets, that all
live terminals but one have been killed.
