# Verification of Iugum

This directory holds TLA+ specifications of the parts of Iugum that decide what
happens to a user's work when several actors meet. On the server it is the session
service of `src/agentplatform`: clients, a native coding agent and a restarting
process share conversations and commands. In the browser it is the SilverBullet
client and the two Atomdown views over it: an editor, a sync engine, an object index
and the views change the same pages, each at its own pace. TLC checks the
specifications on small instances; TLAPS proves the main results of the service, of
the sync engine, of the object index, of the page editor and of the Atomdown views for
every value of the constants.

`PROJECT.json` is the index: the components, the runs with their properties, the
mutants that show that each property can fail, the source lines behind every
definition, the hazards, the theorems, and the disagreements found.

## The system

Iugum is a Go program that wires many small components (`app`, `cmd_*.go`) from
contracts and adapters, and a wiki that it serves: SilverBullet, whose client runs in
the browser, with plugs of Iugum's own. Most components translate data or wrap other
programs. State that several actors share sits in `agentplatform` and in the client.

### The session service

| Component | State it keeps | Operations | What is hard | What makes it correct |
|---|---|---|---|---|
| session owners (`server.go`, `controls.go`) | `sessions`, `opening`, `closed`, one client per owner | select, create, close | provider calls run without a lock | one client per native session (the code allows a second, finding 3), the owner limit, nothing left open after Close |
| prompts and conversations (`server.go`, `conversation.go`) | `receipts` and `conversations`, each with a private file; `busy` and `origin` per owner | direct prompt, conversation prompt, create, switch, model selection | goroutines, failed writes, crashes between a save and a call, client retries | a command is reserved before delivery, delivered once, recorded once; one turn per session; outcomes survive restarts |
| approvals (`server.go`, `rpc.go`) | `managed.requests` with a channel each | Request, approve, conditional answer | an answer races with the end of the context, a question with the end of its turn | one decision per question, delivered to the question it was shown for; no entry leaks |
| canonical control (`canonical_control.go`) | `controls`: prepared and committed actions of this incarnation | prepare, commit | repeated, late or stale commits; provider calls in the middle of one | an action takes effect at most once, on the state it was prepared against, and its receipt says so |
| worker coordination (`coordination.go`) | tasks in memory and in `coordination.json` | start, follow up, stop, mode | a restart between saving a task, creating its session and sending its prompt | one native session per task; nothing is sent that is not on record; a stop reaches the turn of the task's last prompt |
| event ring (`server.go`) | the last 512 events of an owner | Event, events since | a client's number against truncation and restart | no gap goes unreported |
| native turns over a pipe (`provider.go`, `rpc.go`) | busy flag, completion channel, pending calls | Prompt, Interrupt, Close | notices that arrive early, late or after a time limit | a prompt returns, for its own turn, and leaves none behind unless its start was answered with an error although the turn began |
| HTTP providers (`opencode_http.go`, `claude_provider.go`) | event stream, busy flag | as above | reconnection of the stream | as above |
| browser grants (`browsergrant/*`) | receipts of the Authority and the Dispatcher | reserve, issue, dispatch, complete | restart, failed persists, one dispatch per pair | a grant is used once and uncertainty is never taken back |
| host tools (`host_tools.go`) | registrations, a 32-entry queue, receipts | register, poll, result | re-registration while a call is out | a call has one result |
| agent control (`agentcontrol`) | Claude processes, permission requests | start, decide, stop | a process that dies with a question open | a permission is decided once |
| agent desk (`agentdesk`) | approvals, drafts | approve, execute, edit | a crash between executing and recording | an approval is executed at most once |
| agent core (`agentcore`) | a usage budget | reserve, settle | concurrent reservations | the budget is never exceeded |
| file watch, jobs, caches (`adapter/watch`, `app/jobs*.go`, `agentwork`, `agentsessions`) | timers, pending batches, cached results | debounce, restart, refresh | timers against events, stale results | nothing is lost, nothing stale replaces something fresh |

Components interact in three ways. Handlers call each other directly under a
fixed lock order: `coord.mu` or `controls.mu`, then `convMu`, `Server.mu`,
`managed.mu`. A provider calls back into its owner (`Event`, `Request`) from the
goroutine that reads the agent. And a turn runs in a goroutine of its own that
comes back to the shared state when the native call ends. Hardly a lock is held
over a native call, so most invariants are about what may happen during one.

### The client

| Component | State it keeps | Operations | What is hard | What makes it correct |
|---|---|---|---|---|
| atomdown views (`plugs/atomdown-board`, `plugs/atomdown-inline`) | per view, the text its cards were drawn from; the edit its worker is busy with | reorder, group, ungroup, rename, edit a card or its attributes, review, typing | a card is older than the text; two workers write one after the other | every atom keeps its block, attributes and digest; what moves is what was dragged, to where it was dropped |
| sync engine (`spaces/sync.ts`, `service_worker/*.ts`) | local files, snapshot, the list of un-synced files, `isSyncing` | cycle, single-file sync, conflict, proxied read, write, delete | edits during a cycle, failed or unanswered requests, a worker that dies, changes of what is synced | nothing written is lost, nothing is deleted that nobody deleted, both sides agree in the end |
| evented space, message queue, object index (`spaces/evented_space_primitives.ts`, `data/mq.datastore.ts`, `data/object_index.ts`) | snapshot, queued and processing messages, objects, version of the index | list, read, write, delete; poll, acknowledge, requeue; index, clear, reindex | every operation compares and sets the snapshot between awaits; timeouts; closed windows | no change is lost between the snapshot and the index; no objects of older versions stay |
| page editor and navigation (`content_manager.ts`, `navigator.ts`, `reducer.ts`) | current page, text, `unsavedChanges`, save timer, navigation promise, history | type, compose, save, load, reload, navigate, back | everything interleaves at awaits; failed saves and reads | the text on screen, the title and the address are of one page; what is typed reaches that page and no other |

They interact by asynchronous calls: the views read and replace the editor's text by
syscalls, each a message to another thread; the editor writes pages through the
evented space, which announces them to the queue; the space is served by the service
worker's proxy, which answers from the local copy while the sync engine works on it.
JavaScript runs one callback at a time, so a step of these models is what happens
between two awaits.

Everything else the repository contains (adapters of databases, trackers and wikis,
Space Lua, editor extensions, bundled plugs, web views, decoders, packaging,
documents) is listed in `PROJECT.json` with the reason why it has no model.

## Modules

Each module begins with what it stands for; `PROJECT.json` gives the lines of
every definition. A variable bears the name of the field it models, an action the
name of its handler, or of the part of a handler between two points at which
other goroutines may run.

| Module | Models | State and actions in the code |
|---|---|---|
| `CommandDelivery` | the promise to a client that sends a command | reserved, delivered at most once, settled for good |
| `SessionService` | `server.go` prompt, `conversation.go`, selectModel, New, Close | `proc`, `owned`, `busy`, `origin`, `receipts` and `convs` with their files `savedReceipts` and `savedConvs`, and `turn`, the prompt goroutine of each command. A prompt is `PromptDirect` or `PromptConversation`, then `Deliver`, `Record...`, `Release...`; saves fail inside the actions that make them; `Crash` loses what is not saved |
| `SessionOwners` | selectSession, createSession, Close | `sessions`, `opening`, and per attempt what its handler has reached; the native `Open` and `Create` return between two actions |
| `Approvals` | managed.Request, the approve route, commitControl's answer | `pending`, the one-slot `channel` of each request, the `stage` of the goroutine that waits, `origin` and the running command |
| `CanonicalControl` | prepareControl, commitControl | `receipts` of this `incarnation`, the proposals clients hold (`issued`), the `job` that follows the acceptance of a model control |
| `Coordination` | coordinate, coordinationStop, initCoordination | `tasks` and `saved`; the operation that holds `coord.mu` is the variable `call`, its `stage` the next thing it does |
| `ProviderTurn` | session.Prompt of a Codex session and rpc.call | the `stage` of each prompt, `completion` (the channel), the `wire` between agent and reader; the agent is external and unrestrained |
| `EventRing` | managed.Event and the events route | `sequence`, `events`, and a client that polls with the number it was last given |
| `AtomdownDocument` | the text model both views share: `parseAtoms`, `computeUnits`, digests, slugs, group markers, every rewrite | pure operators over a sequence of lines; a line is what the plugs' patterns tell apart, a digest the block it was taken of. A loop over lines is written by what it decides (the units by the lines at which one begins, `UnitStarts`), without recursion, so that it can be proved about |
| `AtomdownEdits` | the two views over one buffer | `buffer`, `drawn` and `job` per view; each menu item, drag or dialog is an action that reads, then `ReplaceInEditor` |
| `SpaceSync` | `SpaceSync` of `sync.ts`, `SyncEngine`, the proxy's requests | `local`, `remote`, `snapshot` and its `saved` copy, `accepted`, `syncing`, the `jobs` (calls of `syncFile`), `confirmed`; each request to the server is a step that can fail, or succeed without an answer; `Restart` loses the worker |
| `SpaceIndex` | `EventedSpacePrimitives`, `DataStoreMQ`, `ObjectIndex` and the listeners in `client.ts` | `known` and `stored` snapshot, `ops` in flight, `queued`, `processing`, `held`, the `worker`, `index`, `version`, `marker`, the reindex `re`; `Restart` is a closed window |
| `PageEditor` | `ContentManager`, `PathPageNavigator`, the reducer | `shown`, `opened`, `text`, `unsaved`, `timer`, `strays` (timers the field no longer names), `writes`, `loads`, `promise`, `waiting`, `history`, `goBack` |

The modules named `..._proofs` hold the theorems. `MCCoordination` gives
`Coordination` the two beginnings it is checked from, `MCCanonicalControl` a symmetry
set, `MCAtomdownEdits` four small pages. The other modules are checked as they are:
their constants are sets of identities and bounds, which the `.cfg` files choose.

The modules of the service are separate where the code meets through one flag or one
call, and each states what it takes from the others: `SessionService` starts from
owners as `SessionOwners` keeps them, one for a session, which holds but for the race of
finding 3; `Approvals`, `CanonicalControl` and
`Coordination` carry the few turns they need (a command that starts, is recorded and
frees its session) as `SessionService` orders them; all of them assume that native
calls return, which is property `PromptsEnd` of `ProviderTurn`. Those of the client
meet in the files: `PageEditor`'s disk is the local copy that `SpaceSync` keeps and
`SpaceIndex` follows, and a change made elsewhere is a step in all three.

Data is abstract throughout. A prompt, a digest or a state text is a member of a
small set when something compares it, and left out when nothing does. A file is a
body and a time, or the number of its version; a page in the editor is the set of
things written into it. HTTP decoding, size limits, ownership by tenant and wording
are not modelled.

Some variables are ghosts: they record what happened for a property to refer to
(which body was written over which, what was typed, whether loads overlapped). They are
marked where they are declared, and restrict no step but one: `FileChanged` of
`PageEditor` may ignore a change once something was typed, which stands for the five
seconds after a save.

## Runs

Every passing run checks its module's invariants and temporal properties together.
Related claims about one component are conjuncts of one property, each commented
where it is defined.

| Run | Instance | States | What it shows |
|---|---|---|---|
| `session` | 2 sessions, 2 conversations, 2 commands, 2 revisions | 198,656 | prompts and links in every order with failed writes and crashes: `DeliveredOnce`, `TurnsAreExclusive`, `OutcomeSurvivesCrash`, `NothingForgotten`; every behaviour is one of `CommandDelivery` (`ImplementsDelivery`); `RunningSettles`, `SessionBecomesFree` |
| `owners` | 3 sessions, 3 attempts, limit 2; a created session is in the catalogue at once or when its owner is exposed | 101,094 | `ClientsAreSound`: within the limit, one client for a session, none open after Close, but for one selection that overlaps the creation of its session and replaces its owner; `EverythingEnds`: no reservation outlives its request, Close returns |
| `approvals` | 2 requests, 2 contents, 2 commands, limit 1 | 683,360 | `DecisionsAreSound`: one decision per question, about the content shown, delivered, no entry without a waiter; `RequestsEnd` |
| `controls` | 2 actions, 2 sessions, 1 request, 1 command, 2 revisions, 2 incarnations | 1,994,306 | `ActsAsPrepared`: once at most, as prepared, one switch per revision; `ReceiptIsHonest`; `AcceptedIsInHand` |
| `coordination` | 1 task, 2 command identities that agents and users share, 3 sessions, 2 revisions, restarts | 628,008 | `TasksKeepAccount`: one native session per task, nothing sent that is not on file, in order; `StopsItsTurn`: a stop reaches the turn with the identity of the task's last prompt, and the task's own if the task knows that the prompt was taken; `StartingSettles` |
| `turn` | 2 prompts, 3 turns, a channel of 2 | 497,388 | `TurnsAreFollowed`: a prompt reports its own turn, and leaves none behind unless its start was answered with an error or could not be decoded; `NoticeIsKept`, unless the channel is full of other notices; `PromptsEnd` |
| `events` | ring of 3, 8 events in each of 2 processes | 489 | `PollingIsHonest`: in order, once, and told exactly when some are gone |
| `edits` | 4 pages (plain, grouped, uneven seams, two groups without an id), 2 changes | 68,105 | `AtomsKeepTheirBlocks`, `GroupsChangeOnlyAsAsked`, `LandsWhereDropped`, `OnlyReviewFreshens` of every rewrite that lands on the text it was computed from; `GroupingIsReversible`; `StaleCardsAreSafe` of cards drawn of older texts, those of groups without an id excepted where another such group is there |
| `sync` | 2 pages (one under Library/Std), 2 edits, 1 trouble, 1 operation that begins beside the calls of a failed one | 694,423 | `SnapshotIsHonest`, `EditsSurvive`, `DeletesWereAsked`, `DeletionsStick`, of every page at which calls of two operations did not meet; `Converges` |
| `index` | 1 file, batches of 2, 1 retry, 1 edit, 1 trouble | 555,704 | `SeenIsQueued`, `CompleteMeansIndexed`, `NoGhosts`; `IndexedInTheEnd` |
| `editor` | 2 pages, 4 events | 868,392 | `WhereItSays`, `NoStrangers`; `TypedIsKept`, `NavigationEnds` |
| `editor_saved` | 2 pages, 2 events | 586 | `TypedIsSaved` is violated, see Findings |

An edit is a change of a file by a user, a trouble a failed request, a death of the
worker or window, a change of what is synced or an offline edit, an event whatever the
user, the network or another client does to the editor.

**Bounds.** They are enough for what the properties tell apart. Identities are
interchangeable, and every property speaks of at most two of them at a time: two
commands that want one session, two conversations that want one link, an action and
its repetition, two pages between which one navigates. A limit is below the
number of contenders (owners 2 of 3, requests 1 of 2, notices 2 of 3, ring 3 of 8). Revisions only
have to differ, so two suffice; a second incarnation is enough because nothing in
memory outlives a process. Files of the space meet only through the mutex of a cycle,
the batch of a worker and the pending counts, so `sync` has two, with the two rules
for conflicts, and `index`, whose steps are finer, one; two edits are a conflict or a
change undone by a deletion, one trouble interrupts anything once, and one request that
fails leaves the calls beside which one more operation begins. The instances of
the service that are proved sound do not rest on bounds at all. `coordination` has one
task in its run; the proof covers any number.

The larger instances that were run by hand and hold: `SpaceIndex` with two files, one
edit and one trouble (4,561,047 states, with liveness), with one file and two
edits, and, as far as eight million states, its safety properties with two troubles; the safety properties of `PageEditor` on up to three million states of a
larger bound.

`MaxRevision` (switches of a conversation; in `CanonicalControl` the manual ones),
`MaxIncarnation`, `MaxSequence`, `MaxChanges`, `MaxEdits`, `MaxTroubles`,
`MaxOverlaps` and `MaxEvents` bound what has no bound in the code. Deadlock is not
checked where the instance is finite by construction (every attempt, request, action,
prompt, edit or event made); it is checked in `SessionService`, which can always
restart. Only `controls`, which has safety properties alone, uses symmetry (of action
identities).

**Excuses.** Where the code does not keep a promise in every case, the property names
the case rather than the model leaving it out: `EditsSurvive` excepts a version
written while a sync holds older metadata, `SpaceSync`'s properties a worker that dies
after what is synced was changed and a page at which calls of two operations met
(`crowded`), `ClientsAreSound` a creation overlapped by a selection, `StopsItsTurn` a task
that does not know whether its prompt was taken, `TurnsAreFollowed` a turn whose start was
answered with an error (`denied`), `NoticeIsKept` a channel full of other notices,
`StaleCardsAreSafe` groups without an id, `IndexedInTheEnd` a window closed at four named
points, `NoStrangers` typing while a page loads, `WhereItSays` and `NoStrangers` loads that
overlapped or hang on a cleared timer, and a Back that failed (`astray`, `stuck`). Each
excuse is a disagreement listed under Findings, but for the channel, which is a limit of
the code (64 notices, `provider.go:356`). Without it the property fails.

**Mutants.** Each property has at least one: a definition with a plausible mistake (a
check left out, a flag not reset, a number off by one) under which the run must fail.
Mutants stand beside the definition they vary and are used by no specification.

## Fairness

- `SessionService`: a prompt goroutine runs on, and its native call returns. The
  call carries a limit of thirty minutes (`server.go:673`) and Close cancels
  it. Model selection and the exit of a closing process likewise. No fairness
  on clients, crashes, restarts, or on the result of a save.
- `SessionOwners`: provider calls run under the service context with a time
  limit and return; handlers, turns and Close go on.
- `Approvals`: the goroutine in Request goes on once something woke it. That
  anybody answers is not assumed.
- `Coordination`: an operation that has begun goes on.
- `CanonicalControl`, `EventRing`: none; no liveness is claimed of them.
- `ProviderTurn`: the reader reads, a prompt goes on, the time limits expire, and
  the agent reads its input (`ReadingSpec`). The agent need not answer, end a
  turn, or live, and it may answer with an error what it has begun. `LimitSpec` drops
  the assumption that it reads: `ProviderTurn_bounded.cfg` shows what follows.
- `SpaceSync`: the engine's loop starts a cycle again and again, and single-file
  syncs are short, so a cycle that finds the mutex taken finds it free later, often:
  strong fairness of `SyncFiles`. The calls of an operation go on, and so do those that a
  failed one left behind: each has its own weak fairness, as neither waits for the other.
  None on users, failures, or changes of what is synced.
- `SpaceIndex`: the worker, requeues, the reindex and the operations in flight go on;
  requeueTimeouts and the check of the index are on timers. A listing is deferred while
  other operations run and tried again, hence strong fairness of `FetchFileList`.
- `PageEditor`: timers fire, calls of the space end (a write may fail any number of
  times within `MaxEvents`), a composition ends, `history.go(-1)` comes back as a
  popstate.
- `AtomdownEdits`: none; its temporal properties are about steps.

## Proofs

Every theorem holds for all values of the constants that satisfy the named assumptions
of its module: sentinels are not identities, and no more unless stated. For each
specification three facts are proved, that the inductive invariant holds initially,
that a step preserves it (with one step of the proof per action), and that it implies the
property; the theorems follow from them. Where one proof module serves several
specifications, their definitions have names of their own (`TurnInit`, `SyncNext`,
`ViewSpec`, ...).

| Module | Theorem | Statement |
|---|---|---|
| `SessionService_proofs` | `TypeCorrect` | `TypeOK` always holds |
| | `PromptsDeliveredOnce` | a prompt is delivered at most once, and never without a durable reservation |
| | `OneTurnPerSession` | no two turns share a session; a conversation's session belongs to no other conversation and takes no direct prompt |
| | `RecordsAreUnique` | a command is in one ledger only; an origin names the command that holds the session |
| | `OutcomesAreStable` | a running command has its goroutine; an outcome in memory is the one a restart reports |
| | `RecordsAreKept` | no step forgets a published record |
| | `Refinement` | the service implements `CommandDelivery`, step by step |
| | `AtMostOnce` | read as the abstract ledger, the service delivers a command at most once |
| `Managed_proofs` | `OwnersAreSound` | `ClientsAreSound`, whether or not clients can name a session before its owner is exposed |
| | `QuestionsAreDecidedSoundly` | `DecisionsAreSound` of `Approvals`; requests finite |
| | `PollingTellsTheTruth` | `PollingIsHonest` of `EventRing`, for any size of the ring |
| `Turns_proofs` | `PromptsFollowTheirTurns`, `NoticesAreKept` | `TurnsAreFollowed` and `NoticeIsKept`, for a channel of any capacity; turns finite |
| `CanonicalControl_proofs` | `ActionsActAsPrepared`, `ReceiptsAreHonest`, `ModelControlsAreInHand` | `ActsAsPrepared`, `ReceiptIsHonest`, `AcceptedIsInHand` |
| | `TasksAreAccountedFor`, `StopsReachTheirTurn` | `TasksKeepAccount`, `StopsItsTurn`, whatever identities agents and users choose |
| | `WorkersAreNotShared` | no two tasks have one worker, in memory or after a restart, although a task whose first save failed is forgotten |
| `SpaceSync_proofs` | `SyncedRecordsAreHonest`, `VersionsSurvive`, `DeletionsWereAsked` | `SnapshotIsHonest`, `EditsSurvive`, `DeletesWereAsked`, for any number of edits, troubles and operations that overlap |
| `Client_proofs` | `ClosedWindowsLoseNothing`, `CompleteIsTrue` | `SeenIsQueued` and `CompleteMeansIndexed`; files finite |
| | `TitleAddressAndEditorAgree`, `PagesKeepTheirText` | `WhereItSays`, `NoStrangers` |
| `AtomdownDocument_proofs` | `MinimalEditIsRight` | the range and the lines that minimalEdit finds make the new text of the old one, for any two texts |
| | `UngroupUndoesGroup` | on a well-formed page, removing the markers of a new group gives back the page to the line, for any run of units |
| `AtomdownEdits_proofs` | `ViewsAreConsistent` | every text in play is one, a pending edit is what its rewrite gives on the text it was computed from, and two directives of one atom agree on all but name and digest, torn writes included |
| | `GroupingIsAlwaysReversible` | `GroupingIsReversible` |
| | `GroupsFollowRequests` | `GroupsChangeOnlyAsAsked` |
| | `DropsLand` | `LandsWhereDropped` |
| | `DigestsFollowReviews` | `OnlyReviewFreshens` |
| | `StaleCardsStaySafe` | `StaleCardsAreSafe` |
| | `BlocksStay` | `AtomsKeepTheirBlocks` |

None of the properties is inductive. What the invariants add:

- `SessionService`: that a delivery is the first needs to know that the record says
  so, which needs the record to be on disk when the turn begins and to stay there.
  `LedgerInv`: no turn without a process; a turn has its record; memory and file agree
  but for outcomes; one record per command; what was delivered is recorded. `TurnInv`:
  a turn has an owner and makes it busy, alone, apart from model selection; a
  conversation's turn has its origin set and no other does. `LinkInv`: a linked session
  has one conversation and no direct turn. `OutcomeInv`: a running record has a live
  turn, and a settled one agrees with what a restart makes of the file.
- `SessionOwners`: a reservation belongs to one request, and a session is created by one;
  what a selection may find registered when it registers is the owner of a creation;
  Close reaches every registered client that is open; the open clients, replaced ones
  apart, inject into the two maps that the limit counts.
- `Approvals`: per question, what the stage of its goroutine says about the entry, the
  channel and the number of decisions.
- `EventRing`: the ring is an interval that ends in `sequence` (`RingIsInterval`), and what
  a client was given, told or passed over is everything up to its number if that is of
  this process and nothing if not (`ClientInStep`), so that its number alone tells what it
  lacks.
- `ProviderTurn`: one call in flight, and what answers it is about the turn of its prompt
  (`Calls`): a failed start has begun no turn, or one that is `denied`. A notice is of a
  turn that is over, there is one of each, and what is in the channel came during the
  prompt (`Notices`, `heard`); so a channel found full without a turn's notice holds as
  many of other turns (`FullOfOthers`).
- `CanonicalControl`: per action, that its receipt, its job, its effects and the holder
  of its session tell one story (`Filed`, `Acted`, `Holds`, `Behind`).
- `Coordination`: `Ledger` (a command recorded once, a running one holds its session),
  `Kept` of memory and of the file (either accounts for everything sent), `Agree` (the
  file is never ahead; no worker is shared) and `InProgress` (what the operation that
  holds `coord.mu` has done so far), so that every save may fail and every step be the
  last. That a task which is active stops its own turn needs to know that its last prompt
  was taken, in memory, in the file and by the operation under way (`Acks`).
- `SpaceSync`: the snapshot is a pair of times, and what the engine does with it is right
  only if times stand for contents, so the invariant says of every page what its two
  files and its record have to do with each other: equal times are equal contents
  (`Equal`, `Honest`), a side that is as the snapshot has it is what the other was
  written over, or a user excuses it (`Traced`), and the server lacks a page only if one
  deleted it (`Missing`). A job works on metadata it was handed and data it has read, so
  `JobOK` says of each of its calls what may have changed since: only what is exposed,
  written over it, and newer than both snapshots. A conflict makes a copy in three calls
  that may fail one by one; `CopyOK` and `Copying` say that a time is one body among all
  versions of a copy, in the spaces and in jobs, and that the job which is about to
  replace the server's version still has it in a copy. An operation that fails frees the
  mutex while its calls go on, so two operations may be under way, but calls of both are at
  one page only if the second began while the first was at it; such a page is `crowded`,
  and the invariant is about the pages that are `Alone`, of which a file has one job at a
  time (`OneJob`) and a copy is written by jobs of its own page only. Nothing bounds the
  edits, failures, restarts, changes of what is synced or overlapping operations.
- `SpaceIndex`: `SeenIsQueued` speaks of messages that are in the queue, with the worker,
  held by requeueTimeouts or about to be sent. Each step moves some of them, and what
  counts is that a message is still ahead of the worker (`Ahead`): one that the worker
  has passed, or whose file changed since it read it (`Stale`), brings nothing into the
  index, and then another must be on its way (`SeenOK`). Operations interleave
  with each other, so `BehindOK` says that while one is in flight that saw an older
  version of a file, nobody has announced the newer one; whoever announces an old version
  last would otherwise put it into the snapshot over a newer one. `ReindexOK` follows the
  two counts of awaitEmptyQueue: what the reindex queued is in the queue until it is seen
  empty, then with the worker until processing is. `QueueOK` and `ReadOK` say that a
  message has one number, one file and one reader.
- `PageEditor`: while no loads overlap, there is one load, the page in the address is
  the one it loads, and one timer or write at most is awaited (`Whereabouts`, `Waits`); and
  unless the user typed during it, every text consists of things written into its page
  (`Clean`).

- `AtomdownEdits`: `ViewInv` says that every text is a sequence, that a pending edit is
  what its rewrite makes of the text it was read from (`Made`), and that all lines in play
  are of one consistent set, which the answer to a torn write still draws from. What lands
  is then a fact about a rewrite, and the work is in saying what each does to the lines:
  a group's markers go `Around` a run of units, a move puts the units one after another
  (`Laid`), a card's text is `Spliced` in, a name or a review is `Patched` into one line.
  The properties speak of units, atoms and groups, which computeUnits finds by going
  through the text; the lemmas give them by position instead (`UnitStarts`, `UnitEnd`,
  `OwnerAt`), and `Slides` carries them from one text to another: if the directives of two
  texts are the same in the same order, so are the groups and what they hold.
  `StaleCardsAreSafe` needs to know of texts that are gone, and `DrawnInv` keeps that: ids of
  groups drawn or to come are spent and distinct, and a group that was drawn and is still on
  the page holds the atoms it was drawn with, as long as no write was torn. Groups without
  an id have no such identity; all the property says of their cards is that what they drag
  is the block's own unit or one of two groups without an id.
  `AtomsKeepTheirBlocks` compares how often each card is in two texts, so its proof pairs
  the blocks of one with those of the other (`SameCards`) instead of counting. What a card
  says is in the directive and the lines below it that matter to it, so it is enough that
  those lines are carried over one to one and that a block goes on where it did (`Keeps`,
  `Copies`): then no block is lost, doubled or joined. Group markers go where no block goes
  on, a move keeps a block in its unit (`Laid`), a blank line that is taken out is one of
  two, and a card's text is one block for another below its directive (`Reworded`).

Only model-checked: all liveness, since the prover does not reason about fairness
(`RunningSettles`, `SessionBecomesFree`, `EverythingEnds`, `RequestsEnd`, `StartingSettles`,
`PromptsEnd`, `DeletionsStick`, `Converges`, `IndexedInTheEnd`, `NoGhosts`, `TypedIsKept`,
`NavigationEnds`). Every safety property that a passing run checks is a theorem.

A proof that failed has corrected a model once. Of a window that is closed where nothing
resumes, `SpaceIndex` first named too few points (`Unresumed`): a reindex of an index
that has no version yet, closed after it cleared the objects and before it unset the
version, is not made up for either. That needs two troubles, where the run allows one.

## Findings

The first is a run. The others have a property and a configuration of their own beside
their module, outside the list of runs: `tlc -config <Module>_<name>.cfg <Module>`
finds the behaviour described (those of `AtomdownEdits` with `MCAtomdownEdits`, that of
`Coordination` with `MCCoordination`).

1. `PageEditor_saved`, `TypedIsSaved` (`reducer.ts:46`). The end of a write marks the page as
   saved although something was typed since the write began; the timer set by that
   typing then finds nothing to save. The last words stay unsaved under a title that
   says saved, and are lost with the page.
2. `SessionService_receipts`, `RunningReceiptHasTurn` (`server.go:662`). If the receipt
   of a direct prompt cannot be written, the error is returned and the session freed,
   but the receipt stays in memory as running: a client sees a command that nothing
   runs, until a restart; `docs/agent-session-integration.md:265` promises uncertainty.
3. `SessionOwners_race`, `OneWriterPerSession` (`server.go:588`). selectSession
   registers its client without looking whether createSession registered that session
   meanwhile. The catalogue lists native sessions independently of the service; where it
   lists one before createSession exposes it, a second owner replaces the first and two
   turns run in one native session. `ClientsAreSound` says that nothing worse happens: one
   creation and one selection, of which one is registered.
4. `Approvals_origin`, `OriginIsCause` (`server.go:249`). A question carries the origin
   of the moment it is registered, not asked. Agent requests are handled in goroutines
   of their own, so a question can be attributed to the next command.
5. `ProviderTurn_bounded`, `CallsAreBounded` (`rpc.go:136`). The write of a call has no
   limit of time, against the comment at `rpc.go:124`: a prompt larger than the pipe to
   an agent that stopped reading blocks its session.
6. `EventRing_restart`, `GapsAreExplicit` (`server.go:469`). Event numbers begin anew
   with the process and the answer does not tell processes apart, so a client that
   polls with an old number misses events without a gap being reported.
7. `AtomdownEdits_implicit`, `CardsResolve` (`atomdown-board.plug.js:896`). Blocks
   without a directive are numbered over the whole page by parseAtoms, but only outside
   groups by computeUnits; the comment at 784–787 says that they agree. Once one is in a
   group, a card without a directive drags another block.
8. `SpaceSync_conflict`, `ConflictKeepsBoth` (`sync.ts:89`). A cycle decides by metadata
   it listed at its start. A version written after the listing on the side that loses
   is overwritten without a conflicting copy; `docs/ADR/002 Sync Engine.md:24` promises
   one.
9. `SpaceIndex_resume`, `InterruptedReindexResumes` (`object_index.ts:427`). A reindex
   interrupted after it cleared the index and before it queued every file is not
   resumed where the version already says current, or where the listener of the first
   empty queue sets it: files stay unindexed until they change.

10. `Coordination_reused`, `StopsOwnTurn` (`coordination.go:402`). A stop compares the
    identity of the worker's latest turn with that of the task's last prompt, which stays
    in the task's list also when the prompt was refused (355). Nothing keeps a user and an
    agent from choosing one identity: if a prompt is refused because a user's turn has its
    identity (`conversation.go:289`), or a user's later turn has that of a refused prompt,
    the stop interrupts the user's turn, against the comment at 393 ("An old task cannot cancel
    a later direct turn").
11. `ProviderTurn_denied`, `FailedPromptsRunNothing` (`provider.go:386`). An answer to
    turn/start that is an error or cannot be decoded (`rpc.go:141`, 145) fails the prompt
    and frees the session, on a connection that lives. If the agent had begun the turn,
    it runs unfollowed, and the next prompt starts a second one. An answer that decodes but
    names no turn closes the connection (`provider.go:390`).
12. `AtomdownEdits_nameless`, `CardsDragTheirOwn` (`atomdown-board.plug.js:5703`). A group
    without an id is known by the line it begins on (189–198). reorderAtom reads the buffer
    again "rather than trusting whatever the client last rendered" (5696), but the key it
    is handed is trusted, and it does not refuse groups with a fault as the edits of groups
    do (5784): a card drawn before lines moved drags the other such group that now begins
    on that line.
13. `SpaceSync_overlap`, `AllDeletesWereAsked` (`sync.ts:129`). After one request of an
    operation fails, the mutex is free while the other calls go on with the metadata they
    were handed (also 163), against the comments at 68 and 88. In an initial sync, a
    call of the failed cycle pulls a page after the next cycle has listed the client's
    files; that one finds the page in the snapshot and not in its list, and deletes it from
    the server although no user did.

Smaller disagreements met on the way, each an excuse in a property or outside a model:

- Editor. A save clears the timer of an earlier one whose promise is then never
  resolved (`content_manager.ts:55`): a navigation that awaits it hangs, and every later
  one waits for it (`navigator.ts:45`). The timer can fire between the change of the
  current page and that of the editor's text (352, 394) and write the old text into the
  new page, if the user typed while it was loading. A composition that ends after a
  navigation loses its text (83–91). Overlapping loads leave title, address and text
  disagreeing; Back while saving fails leaves the address changed. Of three navigations
  at once, the second's promise is orphaned. A failed write overwrites the timer of a
  newer change (140).
- Sync. Wiping a client does not stop a running cycle
  (`sync_engine.ts:169`). A DELETE whose answer is lost, followed by a new file of that
  name, deletes it. A worker that dies between deleting a local copy that is no longer
  synced and recording so takes the missing copy for a deletion. A refused write through
  the proxy stores `undefined` (`proxy_router.ts:410`).
- Index. A deleted page in a batch makes the whole batch fail and be retried
  together. A deletion clears objects of a file recreated meanwhile, until the next
  listing; a page that changes while it is indexed leaves old objects. A window closed
  while requeueTimeouts holds messages loses them (`mq.datastore.ts:268`), and between
  its two counts awaitEmptyQueue sees neither. An error while polling stops the worker
  for good (75).
- Views. Offsets of an edit are those of the text that was read: typing in between
  moves them (`atomdown-board.plug.js:5651`), so the properties speak of edits that land
  on the text they were computed from (`Landed`), and of stale cards while no write met
  another text (`torn`). A review reads the buffer again (5892) and stamps a block that
  changed since it was shown. A card's text may be edited to one with blank lines inside (654),
  which makes two blocks of one: `OneBlock` excepts it. An `<atom>` line without an id
  inside a block ends it for computeUnits and not for parseAtoms; and where only a group's
  marker separates two paragraphs, ungrouping joins them, so grouping is reversible on pages
  whose directives stand apart (`WellPlaced`). The inline view collapses groups of the page it
  drew on the page that is open (`atomdown-inline.plug.js:2705`).

## Not modelled

The components listed as `not_modelled` in `PROJECT.json`, each with its reason. Most
of the JavaScript is of one of three kinds: functions of a text or a program (Space
Lua, the markdown parser and renderer, indexers, lint), of which a model would be a
second implementation; layout (decorations, panels, widgets, drawing of cards); and
thin layers over an interface (key-value stores, HTTP, syscalls), whose effect is a step
of the modules that use them. The share of lines the map covers is small for that
reason, and because the bundled and vendored code is large.

Of the modelled ones: request digests, validation and policy (a refusal that changes
nothing), tenants, state text and event contents; Cursor's prompts and model selection
of native providers; the read-only kinds of canonical control and of coordination;
expiry of a proposal other than as a refusal that may come at any time; the selection,
collapsed groups and frames of the views; wiping, encryption and boot configuration of
the sync engine; several windows over one database, queries and validators of the index;
document editors, missing or read-only pages, scrolling and the forward button.

Hazards seen in unmodelled code, or settled by a theorem: an origin that outlives its
turn (`conversation.go:326`, excluded by `RecordsAreUnique`); two tasks that share a
worker (`coordination.go:245`, excluded by `WorkersAreNotShared`); an owner who leaves
coordination mode in the middle of an operation (`coordination.go:191`); a process that
dies between the reservation of a browser grant and its issue
(`browsergrant/authority.go:283`); a client wiped during a cycle (`sync_engine.ts:169`).

## Plan

Done, in this order: `CommandDelivery`, `SessionService` with its proofs,
`SessionOwners`, `Approvals`, `CanonicalControl`, `Coordination`, `ProviderTurn`,
`EventRing`; then `AtomdownDocument` and `AtomdownEdits`, `SpaceSync`, `SpaceIndex`,
`PageEditor`; then the proofs of owners, approvals, turns, the editor, controls,
coordination, the sync engine, the event ring, the object index and the Atomdown views.

Next, by importance:

1. `BrowserGrant`: the receipts of Authority and Dispatcher, with restart, failed
   persists and quarantine; abstract specification: a grant is reserved, issued, used at
   most once.
2. `HostTools`: registrations, the bounded queue and uncertain receipts.
3. The composition of `PageEditor`, `SpaceIndex` and `SpaceSync` over one space, with
   each as the environment of the others, against an abstract space in which a write is
   never lost.
4. The HTTP providers: `ProviderTurn`'s promises kept over a stream that reconnects; a
   common abstract specification of a native turn.
5. `agentdesk` approvals, `agentcontrol` permissions, the usage budget, `WatchDebounce`.

Theorems worth having next: those of the modules above, beginning with the abstract
grant; and the refinement of the abstract space.
