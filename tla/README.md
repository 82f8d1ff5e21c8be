# A TLA+ model of copilot-Web

This directory holds TLA+ modules that model the parts of this repository whose
correctness is hard to see from tests, TLC configurations that model-check them
on small instances, and proofs, checked by TLAPS, of what they promise for every
size. Paths are relative to the repository root, which is called `src/` here: the
web application's own sources are under `src/src/`, the Go program's under
`src/foundry-doctor/`.

Contents: [1 the system](#1-the-system) · [2 the modules](#2-the-modules) ·
[3 the runs](#3-the-runs) · [4 findings](#4-findings) · [5 proofs](#5-proofs) ·
[6 not modelled](#6-what-is-not-modelled) · [7 plan](#7-plan) ·
[8 running it](#8-running-it)

## 1. The system

The repository holds two programs of weight: a web front end for GitHub Copilot
sessions (`src/src`, Next.js and Node), where many actors act at once, and
`foundry-doctor` (`src/foundry-doctor`, Go), which judges Azure AI Foundry
projects in a pipeline and is by far the larger. Beside them stand a Python
runtime for hosted agents (`src/hosted-agent-kit`), smaller projects, samples and
infrastructure.

### 1.1 The web application

One Node process serves everything. It keeps its working state in memory and its
history in PostgreSQL, and talks to the Copilot SDK's runtime (one child process
per live session) and to GitHub.

| Part | Source | State | Operations |
| --- | --- | --- | --- |
| Event log | `src/src/server/event-log.ts` | `SessionEvent` rows, `Session.lastEventSeq` | `appendEvent` (a transaction), `getEventsSince` (one page of 500) |
| Session manager | `src/src/server/session-manager.ts` | `live`: session id → `LiveSession` (client, SDK session, mode, sockets, idle timer, three maps of pending requests) | `attach`, `ensureLive`, `detach`, `evict`, `evictLeastRecentlyUsedIdle`, `deleteSession`, `handleClientMessage`, `broadcastAppEvent` |
| WebSocket endpoint | `src/src/server/ws.ts` | none of its own | upgrade, `handleConnection`, message and close handlers |
| Socket hook | `src/src/components/chat/use-session-socket.ts` | `events`, `lastSeqRef`, `closedByUsRef` | `connect`, `onmessage`, `onclose` |
| Permission modes | `src/src/server/permission-modes.ts` | none | `createPermissionHandler`, `createExitPlanModeHandler`, `createUserInputHandler`, the pre-tool-use guard |
| Chat cards and reducer | `src/src/components/chat/events-to-messages.ts`, `thread.tsx` | derived from `events` | cards, turns, tool calls; the buttons |
| Session REST routes | `src/src/app/api/sessions/[id]/route.ts` | `Session` rows | `PATCH` (mode), `DELETE`, `GET` |
| GitHub filesystem | `src/src/server/github-fs.ts` | `overlay`, `tree`, `loadingTree`, `blobContentCache`, `virtualDirs` | file tools, `flush` |

How they interact. A tab opens a socket; `handleConnection` calls `attach`, which
calls `ensureLive` (read the row, start the runtime, resume or create the SDK
session, insert in `live`) if the session is not live, adds the socket, reads the
backlog and returns it to be sent. The SDK's events go through
`broadcastAppEvent`, which appends to the log and then, in a callback, sends to
the sockets of the LiveSession at that moment. A tool that needs a permission
makes the bridge in `ensureLive` store a promise in a map, start a timer and
broadcast a `*_requested` event; the tab draws a card and its button sends a
`*.respond` message back. When the last socket leaves, an idle timer starts; the
cap evicts; `DELETE` tears down. File tools run against the GitHub filesystem of
the session and `flush` commits and pushes.

What is hard. Everything is asynchronous in one process: between two awaits
anything else may run, so state checked before an await is stale after it
(`ensureLive`, `flush`), callbacks overtake each other (`broadcastAppEvent`),
timers outlive what they were started for (`detach`), a connection breaks in the
middle of a handshake, the database or GitHub refuses one step of several or its
answer is lost, and the process restarts with only the log left.

What makes each part correct:

- *Event log*: gap-free and append-only; events numbered in the order they happened.
- *Delivery*: a tab shows each event once, only when it is durable, loses nothing
  while connected, and resumes from the right place.
- *Session manager*: an open connection has a runtime and is where the fan-out
  looks; an idle session is freed, and not too soon; the cap holds; deletion stops
  the runtime.
- *Permissions*: nothing is approved unless somebody pressed that button or the
  mode says so; every request is settled; a card tells how its request ended.
- *Filesystem*: what the session wrote is in the overlay or on GitHub; other
  people's pushes survive; reserved files never leave; reads agree with writes.

### 1.2 foundry-doctor

A command-line program a pipeline runs before and after a deployment. Its commands
`doctor` (static), `preflight` (against Azure before a deployment) and `runtime`
(against what is deployed) share one engine.

| Part | Source (`src/foundry-doctor/internal/...`) | State | Operations |
| --- | --- | --- | --- |
| Engine and gate | `rules/rules.go`, `rules/selector.go`, `report/exit.go`, `report/readiness.go`, `app/` | one run's findings, skips, evaluated rules | select, evaluate, `ClassifyExit`, `BuildReadiness` |
| Baseline, suppressions | `baseline/`, `suppress/` | two files of the project | record, apply, expire |
| Probe scheduler | `runtime/scheduler.go`, `rules/run/schedule.go`, the memos of `rules/run/run.go` | slots, outcomes, single-flight memos | run side by side under a timeout, replay |
| ARM client | `azure/transport.go`, `azure/auth.go`, `azure/permissions.go` | slots, cached token | requests with retries and pages, `EffectiveActions` |
| Rule packages | `rules/{net,sec,idn,ops,rel,cost,env,gw,iq,run,cfg,dep}` | none | more than a hundred rules: resources → findings, skips, a verdict |
| ARM model | `arm/` | the compiled template with its unresolved expressions | resolve, evaluate |
| Loading, reports, LLM advisory | `catalog/`, `config/`, `project/`, `report/`, `llm/`, ... | none that outlives a run | parse, lay out, ask once |

How they interact. A command loads the project and the compiled template, selects
rules, and has the engine evaluate them. Static rules read resources whose
properties may still be ARM expressions; preflight and runtime rules ask Azure
through the ARM client, the runtime ones side by side under the scheduler, sharing
answers. What a rule returns becomes findings and skips; baseline and suppressions
excuse some findings; skips and the rest become the exit code the pipeline acts on.

What is hard. The program's promise is about what it does *not* know: an input
that is missing, an expression no parameter resolves, a page it did not read, a
probe that was cut off may never turn into a pass. That must hold through layers
that each drop, merge and reclassify (marks → result → skip → required → exit
code), over many rules written by hand, over runs separated by edits of the
project, and while goroutines share slots, tokens and answers under contexts that
end at any moment.

What makes each part correct:

- *Gate*: exit 0 means that nothing new at `--fail-on` or above was found by a rule
  that ran; a baseline keeps excusing what it recorded and nothing else; an expired
  suppression shows; ready means evaluated.
- *Scheduler*: a shared question has one answer; one probe's timeout is nobody
  else's; clean means informed; an interrupted run reports nothing half; the run ends.
- *ARM client*: slots come back; a listing called whole is whole; a decision is
  true, or it is `unknown`; calls end.
- *Rules*: a verdict, pass or finding, survives what is learned later; what could
  not be judged is told.

### 1.3 hosted-agent-kit and the rest

`src/hosted-agent-kit` is a Python asyncio service that pools sessions of a remote
agent runtime: a pool with waiters and a cap, controllers with a keyed work queue,
leases with fencing and takeover, a circuit breaker, an idempotency store. It is
worth a project of its own and is not modelled here. `src/routing-project` is a
request pipeline around scores with a table of pins; `src/jev-byom` is numeric
inference; `src/foundry-agents`, `src/demos` and `src/infra` are examples and
scripts. `PROJECT.json` lists every part with its status, and under `hazards` the
places where the modelled code is hard to test.

## 2. The modules

| Module | Models | Composes, refines | Proved in |
| --- | --- | --- | --- |
| `EventStream` | log, fan-out, attach handshake, hook | refines `EventFeed` | `EventStreamProofs` |
| `EventFeed` | what a session's watchers are promised | | |
| `SessionManager` | table of live sessions, its timers, cap, routes | | `SessionManagerProofs` |
| `PermissionBridge` | handlers, pending maps, answers, cards | refines `Verdicts` | `PermissionBridgeProofs` |
| `Verdicts` | what an agent and its people are promised | | |
| `GitHubFs` | overlay, snapshot, cache, flush, branches on GitHub | | `GitHubFsProofs` |
| `DoctorGate` | from the choice of rules to the exit code, over many runs | | `DoctorGateProofs` |
| `ProbeScheduler` | scheduler, memos, replay | refines `SharedAnswer` | `ProbeSchedulerProofs` |
| `SharedAnswer` | what a memo promises | | |
| `ArmClient` | slots, tokens, retries, pages, refusals | | `EffectiveActionsProofs` |
| `EffectiveActions` | the permission decision | extends `ArmClient` | `EffectiveActionsProofs` |
| `Ruling` | marks and results that all rule packages share | | |
| `NetRules`, `SecRules`, `IdnRules`, `OpsRules`, `RelRules`, `CostRules`, `EnvRules`, `GwRules`, `IqRules`, `RunRules`, `CfgRules`, `DepRules` | one rule package each | extend `Ruling` | `DoctorRulesProofs` |
| `DoctorRules` | any rule, run again while parameters resolve | composes the twelve | `DoctorRulesProofs` |

`MCEventStream` and the other `MC*` modules give them model values, a catalogue,
command lines and symmetry; the `.cfg` files give bounds.

**Granularity.** JavaScript runs one callback to its end, so a stretch of code
between two awaits that really wait (on the database, GitHub, the SDK, a timer) is
one action, and an await that is already resolved does not split it. Go's
goroutines meet only under locks, channels and semaphores, so what one does between
two of these is one action. Each action's comment names the code it stands for, and
`map` in `PROJECT.json` gives the lines. Small-letter definitions next to an action
or operator (`sendBeforeCommit`, `evictAnyway`, `flyAnyway`, ...), unless the map
lists them under a name of the source, are altered versions of it, each the way a
plausible bug would alter it; they are not part of any specification and serve to
see that a property would notice.

**EventStream.** `appending`, `tx`, `lastEventSeq`, `rows` are the log: the
transaction's `UPDATE` takes the row lock (`BeginAppend`, in any order), and
counter and row become visible together (`CommitAppend`) or not at all
(`FailAppend`, `Restart`). `unsent` are the `.then` callbacks that have yet to
send (`SendEvent`), to the sockets of the LiveSession that is in the table then
(`Reached`), and to nobody where there is none. A connection goes `down → attaching →
attached → read → open`. If the table has a LiveSession, `JoinSockets` is its
`live.sockets.add`; if not, `StartRuntime` and `RuntimeReady` are the cold start in
between, whose `this.live.set` takes the place of any LiveSession that came first.
`sockets` are the tabs in the LiveSession of the table, so a tab that joined one that
was replaced is connected and not among them (`Replaced`). A cold start outlives its
tab (`orphans`), and then joins a dead socket that nobody detaches (`ghosts`).
`ReadBacklog` is the query, `SendBacklog` its message. `chan` is one ordered wire per
tab. `copies` counts how often the tab's
array holds a seq: `dedupeAppend` sorts after it merges, so the array is a function
of these counts. An event is its place in the emission order. `EventFeed` is the
promise: an event is published at the end of one log, at most once and for good, and
a watcher is shown what is in the log, each place once until it starts afresh.
`KeepsFeed` is the refinement, with `log <- LogRows`, `shown <- copies`:
`CommitAppend` publishes, `Receive` delivers, `Reload` starts afresh, and all else,
the restart of the server included, cannot be seen.

**SessionManager.** A connection attaches once, and a LiveSession, its client and
SDK session, and the idle timer a closing connection starts all go by the
connection's name, so that a *stale* timer or a *replaced* LiveSession keeps its
identity. `born` is the insertion order of the `Map`, which the eviction by cap
follows. `AttachToCold` makes room and goes to wait; `LoadRow`, `StartClient`,
`ResumeSdkSession` or `CreateSdkSession` and `SaveSdkSession` are `ensureLive`;
`GoLive` is `live.set` back in `attach`. `FailAttach` is any of the throws.
`CloseEarly` closes a socket that has no close handler yet.

**PermissionBridge.** A request carries its kind, the mode it was asked under,
whether it matches the destructive pattern, and the LiveSession (`gen`) that asked.
`pending` and `timers` are the maps and the timeouts, of all LiveSessions that
still exist in memory. Broadcasts are in `flight` until stored and may overtake
each other, as `EventStream` shows; a tab redraws from what is stored. Races
between attaches are `SessionManager`'s, so a cold attach is one step here.
`Verdicts` is the promise: a request gets at most one verdict, which is what the
rules say at once, what somebody answered to that request, or a refusal.
`KeepsVerdicts` is the refinement, with `said <- clicked`, `verdict <- outcome`;
`ApprovalIsEarned` follows from it and is proved as well.

**GitHubFs.** `heads` is GitHub: per branch its newest commit. `overlay`, `cache`,
`dirs`, `tree` and `load` are the provider's fields; `ops` and `flush` are the
calls in progress. A content is the set of chunks written to a file, which tells a
lost append from a kept one. `Acknowledge` is the end of `flush`; `FailFlush` any
refusal, or an answer that is lost after GitHub did the work. `NewTree` is
external: what `createTree` makes of the entries it is sent. An operation that
finds the tree loaded is still a step of its own after `StartOp`, and a flush may
delete a file that the branch does not have, which GitHub may refuse
(`FailFlush`); both only add behaviours.

**DoctorGate.** A problem is what a rule reports when it can look: rule, resource,
key (or none), line, wording, severity asked for. `problems`, `offset` (how far
edits moved everything down), `input` (what each rule finds when it looks), `arm`
and `azdVersion` are the project; `baseline` and `suppressions` its files; `today`
the date. Actions change the project between runs (`Breaks`, `Fixes`, `EditAbove`,
`InputChanges`, `TemplateChanges`, `AzdChanges`, `Suppress`, `NextDay`) and
`WriteBaseline` records one. A run itself is a function of that state: `Report`
goes through selection, registration, severity, version guards, the rule's own
answer, enrichment and fingerprint, baseline, suppressions, `--min-severity`,
skips and `ClassifyExit` in the code's order, and the invariants look at what every
command line would report now. An entry of the suppression
file names a rule, a fingerprint, or both, and perhaps a file; the fingerprint was
copied from the finding of some problem (`fingerprintOf`). `recorded` is history.

**ProbeScheduler.** One goroutine per selected rule. A rule is the list of
questions it asks through memos before it decides. `Fly`, `Join`, `Hit`, `Wake`,
`GiveUp` are `memo.get`; `Fetched` and `CutOff` the end of a fetch; `Expire` and
`Interrupt` end contexts; `ScheduleReturns`, `Replay` and `Abort` are the engine
taking the stored outcomes. `SharedAnswer` is the promise: the first answer settles
a question, who asks later hears that one, a timeout is heard by its caller only.
`KeepsPromise` is the refinement, with `answer <- cached`.

**ArmClient and EffectiveActions.** Every page is a request: wait for a slot, get a
token (cached, or minted by `azd` or `az`), send, and be answered, throttled,
refused, cut off, or led by `nextLink` to a page or off the allow-list. `there` is
how many pages Azure has; nothing about Azure changes during a decision.
`EffectiveActions` lists assignments, reads role definitions in parallel and lists
deny assignments; `Verdict` is the order of the function's switch. An assignment is
made at the subscription, a resource group or a resource (`"prefix"`), or at a
management group above, which the list brings as well and `scopeCovers` discards
because the scope has another prefix. A deny assignment names the caller, or everyone
but others; or a group of the caller's; or everyone but a group of the caller's. The
function compares the principal's id only (`applies`), so it lets the second pass and
takes the third for a deny.

**Rules.** A rule sees a resource as a record of the facts it tells apart, each a
value, `Absent`, or `Open` (an ARM expression nothing resolves yet). `XxxShapes`
gives, per rule, the kinds of resource it looks at and the domain of each fact;
`XxxMarks` what the rule's loop leaves behind for one resource (finding, skip of one
of several kinds, judged, exempt); `XxxResult` what the package's accumulator makes
of all the marks. Parsers of ranges, versions, shell lines, policies and cron lines
are the outcomes they can have. `DoctorRules` starts with any rule and a resource as
a template may state it; `Learn` resolves one expression and the rule runs again;
`LookOn` goes on to the next resource of the same template, of which there are at
most `MaxResources` (the facts of the package's `XxxWide` hold for the whole
template, so the resources share them). `said` is history: the verdicts so far.

**Assumptions about the environment.** The upgrade request was authenticated and
the session belongs to the user (`ws.ts`, the routes' ownership check); one
deletion of a session at a time; `client.stop()` answers without throwing; the
database's transactions are atomic and its row locks exclusive; a push without
force is refused unless the branch is where its parent is. A role definition lists
the action either way, with or without a condition, and does not change while it is
read; files of a project change between runs of the doctor, not during one.

**Fairness** (used only for liveness). *EventStream*: the event loop and the database
pool serve each pending callback and query, the wire delivers, and the hook's
`onclose` always schedules a reconnect, so each of these actions is weakly fair. That
an append succeeds, a connection breaks, or the process restarts, is not; nor that a
runtime that is being started comes up. *SessionManager*: each awaited call settles,
one way or the other, and timers fire; nobody must connect, close, patch or delete.
*PermissionBridge*: timers fire, and an append ends, one way or the other; nobody must
answer. *ProbeScheduler*: the Go runtime runs goroutines that can go on, timers fire,
and a request whose context is done returns; Azure need never answer and nobody must
interrupt. *EffectiveActions*: goroutines run, and each request and sleep ends, since
`http.Client` gives up after 60 s; none must succeed. `azd` and `az` run under the
context alone (`auth.go:223`), and no command sets it a deadline, so no token command
need ever end before the context does: `Returns` says that the function returns
*unless* such a command hangs for ever.

## 3. The runs

All passing runs were explored to the end. Except in `doctor_gate`, deadlock is not
checked: every bound (events, drops, connections, edits, parameters left to
resolve) lets the system stop for good; the liveness properties say what must not
stop.

| Run | Asks | Bounds |
| --- | --- | --- |
| `event_stream` | log gap-free; the whole implements `EventFeed`; a tab shows nothing twice, nothing that is not durable, loses nothing while connected to a LiveSession that was not replaced, resumes from its newest event, and ends up attached and caught up, unless its LiveSession was replaced or its runtime never comes up | 1 tab, 3 events, page of 2, 2 breaks, reloads or restarts |
| `session_manager` | no eviction under an open connection; only a race or a deletion takes one out of the fan-out; what is idle has a timer, and is freed | 2 connections, 2 sessions, room for 1, 1 mode change, 1 deletion |
| `permission_bridge` | the bridge implements `Verdicts`; what waits is on the clock, and settles; a single answer's card is right | 1 request of any kind, 2 modes, 2 tabs, 2 answers, 2 LiveSessions, 1 restart |
| `github_fs` | edits survive unless they raced with a flush; other people's pushes survive; reserved files stay | 2 files, 2 chunks, 1 waiting operation, 2 edits, 2 flushes to 2 branches, 1 foreign push |
| `doctor_gate` | nothing new passes; what was recorded stays excused; an expired suppression is noticed | 5 rules of 3 commands, 4 problems, 2 suppressions (one by rule, one by fingerprint), 4 command lines, 1 input out of reach at a time, 1 edit, 1 day |
| `probe_scheduler` | one answer per question; clean is informed; a report is whole; the memos implement `SharedAnswer`; the run ends | 3 rules, 2 shared questions, 2 slots, 1 interrupt |
| `doctor_rules` | a pass and a finding survive what is learned later; what could not be judged is told | every rule of twelve packages, up to 2 resources, every combination of the values the rule tells apart |
| `effective_actions` | slots come back; a whole listing is whole; no failed or repeated read turns into a yes or a no; the function returns unless a token command hangs | 4 calls, 1 slot, 1 retry, 2 pages read of 1 or 3, one listing of 3 at a time, 3 forms of a deny assignment, 1 role at the subscription and 1 anywhere, 1 end of the context |

The other four runs check one property each and end in a counterexample; they are
the findings below.

**Why these bounds.** The hazards need few actors: a live event overtaking a
backlog needs two events, a page that is cut needs one row more than the page, and
three events with a page of two give both at once. Tabs meet only through the log,
so one tab shows what a tab can see, and the proofs cover any number of them. A
stale timer needs two connections in turn; room for one session and two sessions
make every cold attach meet the cap. An answer that comes too late or twice needs
two tabs and two clicks; an answer to an earlier LiveSession's request needs two of
them. Two flushes to two branches give every order of two commits, and one foreign
push falls in each gap of a flush. Where a third actor matters (a third connection
that attaches while a stale timer runs), the proofs of section 5 cover it.

The gate's catalogue has a rule for each distinction the engine makes (family,
platform severity, ARM-only, azd version) and a compiler diagnostic; two problems of
one rule tell a derived key from a counted one; one fault at a time because faults of
different rules meet only in a disjunction of the exit code. Three rules with two
questions give a flier, a waiter and a latecomer, and two orders of asking, which is
what a deadlock between memos would take; two slots leave one rule queued. One slot
for two parallel reads makes every leak a standstill; a listing of three pages read
for two is cut, one of one page is whole, and each of the two listings is either.
`MCInit` takes one of several states that differ in the names of the roles, or in the
form of a deny assignment that is not there. An accumulator keeps no count, so marks
of two resources show most of what those of more would, and section 5 covers any
number; the first resource's facts are every combination, not a sample.

**Symmetry** is used in `github_fs` only (a safety run), on flush calls and chunks,
which the specification treats alike.

## 4. Findings

Each is a run that ends in a counterexample to what a comment, the README or a
test of the repository says; `PROJECT.json` quotes the sentence.

- `event_stream_reconnect` (`HistoryComplete`): an event broadcast between
  `sockets.add` and the backlog message reaches the tab first and raises
  `lastSeqRef`; if the connection breaks then, `?since=` skips the backlog that
  never came. With a page of one row (`Limit = 1`, three events, no break) the same property
  fails in another way: a backlog longer than the page is cut, and nothing asks for
  the rest.
- `session_manager_auto` (`AutoNeverEvicted`): an idle timer carries a session id
  and survives its LiveSession, so it may evict the next one of that id, here one
  in auto mode.
- `doctor_gate_ready` (`ReadyRan`): where no selected rule could be evaluated,
  readiness is reported over every rule of the command, so that rules which were
  never selected come out as ready.
- `effective_actions_allowed` (`AllowedIsAllowed`): the flag that a listing was
  truncated is dropped, so a deny assignment on a page the client does not read is
  as good as none.

The passing runs beside them show how far each flaw reaches: `NoLossWhileConnected`,
that the handshake itself is sound while the tab's LiveSession keeps its place;
`NothingNewPasses`, that the exit code is right where the readiness list is not;
`DecisionIsTrue`, that no failed, repeated or half-done read makes a decision wrong.
It names what does: a list that is cut, in either direction, and on whole lists the
function's own comparisons. A deny for a group of the caller's is overlooked, one for
everyone but such a group is heeded (`permissions.go:171-184`), and a role assigned at
a management group counts for nothing (`permissions.go:104`).

The modules also hold properties that the repository suggests and that TLC refutes
when one of them takes the place of the properties in the configuration named here.
They have no run of their own, and where the list says so, a weaker property beside
them passes and tells how far the flaw reaches.

| Property | Configuration | What happens |
| --- | --- | --- |
| `ReplayInEmissionOrder` | `EventStream.cfg` | `appendEvent` calls are not chained, so concurrent events may be numbered against the order they happened in |
| `FanOutReaches` | `SessionManager.cfg` | two cold attaches (or one that outlives its tab, and the tab's next) build two LiveSessions, and the first one's socket is open but gets no events; `FanOutReachesUnlessRaced` says that this is the only way |
| `LiveCapped` | `SessionManager.cfg` | the cap is checked before the awaits and the insertion is after them, and an attach is let in when nobody is idle |
| `IdleIsEvicted` | `SessionManager.cfg` | a socket that closes during `attach`, or whose backlog query fails, is never detached, and its session never counts as idle |
| `DeleteStopsRuntime` | `SessionManager.cfg` | an attach in progress brings a runtime up after `deleteSession` has looked for one |
| `GracePeriodKept` | `SessionManager.cfg`, three connections, `Spec` | a stale timer evicts a session before its own grace period ends |
| `CardTellsTheOutcome` | `PermissionBridge.cfg` | an answer that comes too late, or second, decides nothing but is announced, and the card shows it; `CardTellsTheAnswer` holds of a single answer |
| `OpenCardIsPending` | `PermissionBridge.cfg` | a timeout is not announced, so its card stays open |
| `LoadedTreeIsThere` | `GitHubFs.cfg` | `flush` drops the snapshot and keeps the promise that loaded it, so no later read loads a new one |
| `AppendKeepsTheFile` | `GitHubFs.cfg` | `appendFile` takes every failure to read for a missing file and overwrites the file that is there |
| `EditsKept` | `GitHubFs.cfg` | what is written to a file while a flush of it runs leaves the overlay with the flush; `EditsKeptUnlessRaced` says that this is the only way |
| `CacheIsCurrent` | `GitHubFs.cfg` | a recursive `rm` leaves the cache alone |
| `ExistsAgreesWithStat` | `GitHubFs.cfg` | after a recursive `rm` and a new write, `exists` and `stat` disagree about the directory |
| `UncertainNeverPasses` | `DoctorRules.cfg` | a network rule that judged one resource is clean though it skipped another, whose skip the result does not carry |

**Where the rules differ.** `CleanIsInformed`, `FindingsStand` and `UnjudgedIsTold`
hold of every rule outside six sets, which `DoctorRules` names by the reason in the
code: `OneJudgedIsClean` (one judged resource makes the rule clean whatever else it
skipped), `ReferenceIsTrusted` (a `${VAR}` in `azure.yaml` is taken to be well
formed), `TargetIsTrusted` (FND-DEP-004, 005, 009, 011 and 012: `regionOf`,
`preflight.go:366-371`, puts the target's location in the place of one that is still
an expression, so the model, the quota, the policy, the virtual network and the
provider are looked up in a region that the parameter file may turn out not to name;
they pass there and fail later, or fail and clear; and an expression for a model's
version is matched by any version, `rules_a.go:296`), `ExpressionIsNotTheFault` and
`ExpressionIsNotTheRemedy` (an expression is not the literal that would make the
resource one to judge, or would satisfy or exempt it), and `FindingsAlone` (the result
carries its findings, or its pass, without the skips beside it). For each rule in a
set some template refutes the property. TLC finds it with two resources, but for
SEC001 to SEC003, which take three: one in doubt, one with an expression, one at
fault; `acc.result` (`sec.go`) then names the doubt and drops the expression. The sets
are a list of places to look at, each a decision that the code makes without saying
so.

## 5. Proofs

All proofs are checked by `tlapm` to the last leaf. They hold for every value of the
constants that satisfies the module's named `ASSUME`s, which ask no more than that
bounds are numbers, a page has a row, there is a slot, a rule looks at some resource,
kinds, modes and severities are the known ones, records have their fields, that the
absent value differs from the present ones, and that there are finitely many sessions,
rules or calls.

**EventStreamProofs** goes in three layers. `Log` is `TypeOK`, `LogGapFree` and
`Accounting`: each row, and each append that may still become one, was emitted, which
keeps the counter within its range. `Table` is about the table of LiveSessions: as
long as no two cold starts overlapped there is at most one, only while nobody is
connected, so every connected tab is where the fan-out looks. On top of them `Stream`
says for each tab what is in flight (`Flight`: every message names durable rows and
ends at its own resume point), what it shows (`Shown`), and where each event past its
`since` is (`Accounted`). The properties alone are not inductive: that a tab's resume
point is its newest event depends on what the messages on its wire look like, and that
nothing is lost depends on what the page holds between query and send. From it follow
`TypeCorrect`, `GapFree`, `AppendOnly`, `NeverTwice`, `DurableBeforeShown`,
`ResumesFromNewest` and `HandshakeKeepsEvents`, which excepts the tabs of a replaced
LiveSession; `Table` shows that no tab is one unless two cold starts raced.
`FeedIsKept`, the refinement of `EventFeed`, needs one fact more, `Once`: an event is
in at most one place, waiting, in the transaction or in a row, so no commit publishes
what is there already. That makes the whole path, from the transaction to the tab, one
statement: every step publishes, delivers what was not shown, starts a tab afresh, or
cannot be seen. `WholePage` is the lemma about `getEventsSince`: a backlog that fits
in a page is in it, whole.

**SessionManagerProofs**: `Manager` joins `TypeOK` with facts on the table
(`TableOK`), runtimes being built (`BuildOK`), joined connections (`JoinOK`), timers
(`TimerOK`: the timer a LiveSession remembers belongs to its own session, so that
clearing it never stops another session's), deletions (`DeleteOK`) and
`IdleHasTimer`. `JoinOK` carries the argument: a joined connection is in the
sockets of the LiveSession it joined, that LiveSession is never evicted while it
has sockets, and it is the one in the table unless replaced or deleted. From it
`RuntimeStays`, `FanOutLosesOnlyByRace` and `IdleTimerRuns`.

**PermissionBridgeProofs**: `Bridge` joins `TypeOK`, `ApprovalIsEarned` and
`WaitingIsOnTheClock` with `Asked` (only what was asked waits, is drawn or
settled), `Given` (every answer on the wire was pressed by somebody) and
`Announced` (before an answer is handled none is announced, and after one only
that one). From it `FailSafe`, `NeverForgotten` and `SingleAnswerIsShown`, and
`VerdictsAreFinal`, the refinement of `Verdicts`: a click says, `Respond` heeds what
was said of that very request (`Given`), and `Timeout` and `BeginDelete` refuse only
what still waits (`TimeoutRefuses`), so of all that races for a request one thing
decides it.

**GitHubFsProofs**: the argument is `BatchOK`. A file that was not edited since a
flush took it is, in that flush's batch, what the session wrote last, and once
GitHub has taken the batch that is what was saved; so the flush may take the path
from the overlay. `OverlayOK` (the overlay has what was written last) starts it,
`OpsOK` and `FlushOK` say what waiting calls hold: the entry an operation found,
the commit a flush builds on, a branch that exists, and nothing reserved in a batch.
From it `FilesTypeCorrect` and `EditsSurvive`; and since only `UpdateRef` pushes, on
top of what the branch has (`UpdateRefAdds`), `FlushesAddToPushes` and
`ReservedFilesStay`. The last needs that a reserved file's directory is reserved as
well, which holds of a prefix at the root such as `.copilot-session-state`.

**DoctorGateProofs**: a run is a function of the state, so the work is in lemmas
about it. `FingerprintTells`: two problems have one fingerprint if and only if they
are one problem, by the rule's key or by place and wording. `ProblemIsFound`: what
becomes of a problem on its way through enrichment, baseline and suppressions.
`ActiveIsNoPass`: an active finding at `--fail-on` keeps any run from exiting 0. With
the invariant that the baseline file holds the fingerprints of what it was recorded
from, and no others, they give `NothingNewGetsThrough`, `RecordedStaysExcused` and
`ExpiredShows`.

**ProbeSchedulerProofs**: `Memos` says that a question in flight has a flier, that an
answer heard is the one kept, that a rule has heard nothing of what it has yet to
fetch, and that what is in flight is not answered; `Outcome`, that a rule which noted
nothing has heard an answer to all it asked, and that only an interrupt leaves a rule
without an outcome. From it `ProbesTypeCorrect` (with the bound on probes in flight),
`AnsweredOnce`, `CleanKnows`, `NoHalfReport`, and `MemosKeepThePromise`: every step
of the scheduler is a step of `SharedAnswer` or leaves its variables alone.

**EffectiveActionsProofs**: `PagesOK` (a call under way has pages left to read, and
may read them) and `OrderOK` (what has been asked, and answered, at each point of
the function) make `TypeOK`, `WholeIsWhole` and `DecisionIsTrue` inductive. The count
of slots is a cardinality: a step takes one call into the set of those that hold a
slot, or out of it (`SlotsCount`). From it `ActionsTypeCorrect`, `ListingsAreWhole`
and `DecisionsAreTrue`, which says what a decision means on the lists that were read,
with the function's own comparisons of scopes and principals as they are.

**DoctorRulesProofs** proves the four properties of the rules for every rule and any
number of resources, in three layers.

1. *A rule settles.* Resolving expressions of one resource changes its marks only in
   ways its package can bear: a finding stays, no mark appears that would mute it, and
   what had no finding and no doubt gets none. This is one leaf for each of the 108
   rules (`NetSettles`, `SecSettles`, ...), by cases on the values the rule tells
   apart.
2. *A package is lawful and steady.* Whatever the marks, its accumulator fails only
   where there is a finding, passes only where there is none, and tells what it tells
   (`NetLawful`, ...); and where the marks of one resource settle and those of the
   others stay, its result does not turn from failed or from clean to failed
   (`NetSteady`, ...). `RulesSettle`, `RulesLawful` and `RulesShare` put the twelve
   packages together.
3. *The invariant* `IInv` ties this to the steps. `ResourceIsKnown`: the facts are
   those of a kind of resource the rule looks at. `OthersAreMarks`: the marks kept of
   earlier resources are marks, of doubts the package can tell. `LoadedForAll`: the
   `azure.yaml` or the environment that a configuration rule did not find is missing
   for every resource, so that this mark never meets another. `SaidBefore`: each
   result in `said` was the result of a resource of which the present one is a
   resolution. The properties alone are not inductive: that a pass stands after the
   next parameter does not follow from its having stood after the last one, but from
   what the resource was when the pass was said.

From it `RulesTypeCorrect`, `PassesAreInformed`, `FindingsAreVerdicts` and
`DoubtsAreTold`. Like the properties, they leave out the rules in the sets of
section 4, those of `TargetIsTrusted` among them.

**What the proofs found.** Where a proof would not go through, the model was wrong, or
knew less than it said:

- The facts that hold for a whole template were one set of names for all packages, and
  a name of one package was in another's way: the run never resolved that fact. With a
  set for each package, `COST003` (which drops a gateway it cannot tell to be one
  before it judges it) and `IDN001` turned out to belong to `ExpressionIsNotTheFault`.
- `UnjudgedIsTold` was said of SEC001 to SEC003 and is false of them with three
  resources; the run, with two, does not show it.
- The accumulators of the security and the cost rules were written as `CASE`s with
  arms that overlap. TLC takes the first one that holds, but in TLA+ such a value may
  be that of any of them; the arms now exclude each other, in the order of the code.

**Only model-checked**: liveness (`EventuallyCaughtUp`, `IdleIsFreed`,
`EveryRequestSettles`, `Ends`, `Returns`), since it needs fairness and `ENABLED`,
which the prover does not support. Every other property of the passing runs is a
theorem. The counterexamples of section 4 are TLC's as well.

## 6. What is not modelled

- Of the web application: cryptography, sign-in and upgrade, forms and single
  queries (no interleaving of their own); the SDK's `prompt` and `abort` (no state
  here); the webhook tool; renaming a directory and opening the pull request after
  a flush; nested directories; the contents of events; the reducer's turns and tool
  calls, and the hook's unmounting. The pre-tool-use guard keeps no state and only
  denies more.
- Of foundry-doctor: parsing and validation of the catalogue, configuration and
  project; the grammar of ARM expressions and the Bicep compiler; range, version,
  shell, policy and cron parsers, which appear as the outcomes they can have; what
  reports, graphs and assessments look like; the LLM advisory, which is one request
  and the validation of its answer; adapters that decode a single answer; what-if
  polling and the limit of `ListResources`.
- hosted-agent-kit: pool, work queue, ownership, circuit breaker and idempotency
  store. It is an independent service in another language, shares no state with the
  other two programs and has not been modelled.
- jev-byom's numerics, routing-project's scores, samples and infrastructure:
  arithmetic on floats, pure functions of large data, or scripts.

## 7. Plan

Done: sections 2 to 5. What would come next, in this order:

1. `SocketHook`: mount, unmount and change of session, with `closedByUsRef`;
   `ChatReducer`: `eventsToMessages` as a fold, against a reference definition.
2. What others see of a repository while `GitHubFs` flushes into it, as an abstract
   specification; the same for what an idle session is promised by `SessionManager`.
3. `Pool`, `WorkQueue`, `Ownership` of hosted-agent-kit, as a project of its own.
4. Nested directories in `GitHubFs`, with the renaming of one.

## 8. Running it

    tlc -workers 2 -config EventStream.cfg MCEventStream
    tlapm EventStreamProofs.tla

Each row of `runs` in `PROJECT.json` names a module and its `.cfg`. The largest runs,
`github_fs`, `doctor_rules`, `effective_actions` and `permission_bridge`, take one to two
minutes.
