# agent-viewer: a verification project in TLA+

agent-viewer is a terminal UI (and a companion server for a phone) over the sessions of several
coding-agent CLIs. Most of it is parsing and drawing. The parts verified here are the ones where
processes, threads, sockets and late results meet:

1. the **shared listing cache**: several viewer processes share one listing per backend through a
   row of `viewer.db`, with a lease, a generation and fencing by mutations;
2. the **companion terminal hub**: who may speak for the PTY of a session while phones connect,
   take over, fall behind, vanish and come back;
3. the **terminal stream** of that hub: what of a child's output a phone is shown, in which order,
   and that it is told the end;
4. the **embedded terminals** of the TUI: which attach children it holds while attaches resolve on
   workers and the user moves between list, full screen, triage queue and video wall;
5. the **two-stage kill** and the **background runner** it drives;
6. the **Grok PR claims**: several viewers share an expensive lookup through claim rows that lapse;
7. the **spawn records**: how a session started here is found again in a listing, pinned, and its
   record expired, by whichever viewer comes first;
8. the **codex threads**: what a viewer can find out about a codex thread from `/proc`, rollouts and
   the app-server, and what it may do on that evidence;
9. the **grok sessions**: one session on several leader processes that do not agree, and stop,
   archive and removal of it.

`PROJECT.json` lists components, runs, mutants, the map from definitions to source lines,
findings, hazards and theorems. Paths below are under `crates/`.

## Inventory

| Component | State it keeps | Operations | What is hard | What makes it correct |
|---|---|---|---|---|
| Shared listing cache (`agent-viewer-core/src/state.rs`, `agent-viewer-tui/src/shared_listing.rs`) | one row (stamp, generation, lease owner and deadline) and one payload per backend and scope; a cursor and the last good rows per viewer | claim, renew, publish, fail, invalidate, read | several processes, crashes with the lease, late renewals, clock steps, a mutation during a listing | a fresh row holds every finished mutation; the payload never regresses; "unchanged" hides nothing; invalidations reach everybody |
| Refresh worker (`agent-viewer-tui/src/main.rs`) | cursor, last good rows | loop, panic recovery, overlay of the spawn records | a panic in the middle of a refresh; a backend that never answered | the cursor never claims more than is shown |
| Terminal hub (`agent-viewer-server/src/lib.rs`) | owners, reservations and generations under one lock; per owner thread: connection, sink, deadline, child | acquire, finish or cancel a reservation, attach, detach, close, grace expiry, release of a slow socket | takeover races, expiry against reconnect, upgrades that fail or land out of order | limit; no adoption of a dying thread; the newest connection wins and no child is stranded (neither holds, see Findings) |
| Terminal stream (`lib.rs`, `agent-viewer-core/src/pty.rs`) | parser, output tap, the owner's batch, a capped frame queue per socket | read and process a chunk, drain and forward, redraw for a takeover, exit frame, shed a slow socket | a redraw against live output; two caps; the child's end against frames still queued | a phone shows the screen at some moment, never goes back, and learns the end after the last output |
| Embedded terminals (`agent-viewer-tui/src/main.rs`, `actions.rs`, `keys.rs`, `ui/wall.rs`, `ui/triage.rs`) | mode, focus, attached children, triage queue, wall ownership, attaches in flight | attach, leave, open/close/skip/back/archive in triage, open/close wall, listing, frame | results that land after the user has moved on; three owners of a child | keys go to what is shown; landing steals no focus; nothing lingers |
| Background runner (`agent-viewer-tui/src/mutations.rs`) | in-flight keys, one optional dependent per key, results channel | submit, submit_after_success, worker, poll | panics, dependents on failure | a key is sealed exactly while busy |
| Two-stage kill (`app.rs`, `actions.rs`, `main.rs`, `ops.rs`) | the armed session and its time | first press, second press, window, result | presses on a sealed key, failure after the second press | only stopped or finished sessions are removed; a failed stop starts over (both but for a panic, see Findings) |
| Spawn records (`state.rs`, `main.rs`, the server's `lib.rs`) | rows of spawns, unresolved or naming a session; a pass over them per viewer | record, read, match, resolve, expire, prune | crash between spawn and record or between any two statements, two viewers matching one row, listings that are old or empty | no record goes while its session exists; every record is resolved or expires; what it names is shown by every viewer |
| Grok PR claims (`state.rs`, `grok_pr_fallback.rs`) | identity and lookup rows with a busy window and the claim's time as its token | load, choose, claim, complete, fail, prune | several processes, answers after the window, rows pruned during a lookup | a late answer changes nothing; one live lookup per entry; one in time counts |
| Codex threads (`codex/*.rs`, `spawn.rs`) | per thread: holders, running turn, rollout tail; a tail cache; one look | list, stop (signal or interrupt), attach (local or through the daemon) | everything seen is gone a moment later; several processes hold one rollout; a resume cuts a running turn | a running turn looks running; a stop ends only its session; an attach forks no turn it could see |
| Grok sessions (`grok.rs`, `backend.rs`, `ops.rs`) | per leader: up, roster, a turn; the log; a mutation and its settle loop | roster merge, cancel, delete, stop, archive, remove | leaders crash, hang, disagree, and are asked in any order | the row ignores the order; a running turn is not deleted; silence is no stop; every mutation ends |
| HTTP API, Claude backend, router, caches, session list, composer, rendering, CLI, Android app | | | | not modelled, reasons below and in `PROJECT.json` |

How they interact: a TUI's run loop polls its runners and its refresh worker, and mutations
invalidate the shared listing; the server asks its backends directly and owns PTYs of its own; the
phone talks to the hub over a socket per console. `viewer.db` is the only state shared between
viewer processes: the listing row, the spawn records and the Grok claims, each with its protocol.
The hub is shared between request tasks, socket tasks and owner threads under a lock; the TUI's
children belong to one thread, and only resolved attaches and child exits arrive from elsewhere.
Codex and grok processes live and die on their own: a backend looks at them and acts on what it saw.

## Modules

| Module | Models | Composes |
|---|---|---|
| `SharedListing` | what the cache promises: a copy that moves forward and is fresh only if it holds every withdrawn-for mutation | |
| `ListingCache` | row, payload, the refresh calls of every viewer, mutations, time | implements `SharedListing` |
| `ListingCacheProofs` | its invariants and the refinement, proved | `ListingCache` |
| `TerminalHub` | hub, owner threads, children, sockets | |
| `TerminalHubProofs` | its invariants and its action property, proved | `TerminalHub` |
| `ScreenMirror` | what a stream promises: each phone shows a past or present screen, only forward, and the end last | |
| `TerminalStream` | reader thread, tap, owner loop, frame queues, sockets of one child | implements `ScreenMirror` |
| `TerminalStreamProofs` | its invariant and the refinement, proved | `TerminalStream` |
| `EmbeddedTerminals` | the children of the TUI | |
| `EmbeddedTerminalsProofs` | its invariants and its action property, proved | `EmbeddedTerminals` |
| `JobRunner` | `BackgroundRunner` | |
| `KillGesture` | the Ctrl+X gesture on its runner | extends `JobRunner` |
| `KillGestureProofs` | the invariants of runner and gesture, proved | `KillGesture` |
| `GrokClaims` | the passes of the Grok PR fallback over its tables | |
| `SpawnPins` | the table of spawns and the passes of every viewer | |
| `SpawnPinsProofs` | its safety, proved | `SpawnPins` |
| `CodexThreads` | codex processes, threads and one look at them | |
| `CodexThreadsProofs` | its invariants, proved | `CodexThreads` |
| `GrokSessions` | leaders, a session and one mutation of it | |
| `GrokProofs` | the safety of both Grok components, proved | `GrokClaims`, `GrokSessions` |
| `MC*` | symmetry, or functions the `.cfg` cannot write, for TLC | |

Definitions whose comment says *Mutant* are not part of the system. Each is a plausible bug in the
definition below it; replacing that definition by the mutant must break a property, and
`PROJECT.json` says which.

### ListingCache

A listing is abstracted to the version of the provider's data it shows, so "older" is a number.
`truth` is that version at the provider, `owed` counts mutations whose invalidation has still to
run (it may never: the process can die, the database can refuse, the agent can change its own
data), `fenced` is what the newest completed invalidation covered. `row` and `payload` are the two
tables. `call[v]` is where viewer `v` is inside `refresh_scoped_inner`, with the values the code
holds across it: `now_ms` read once before the claim, to which the time spent in the source is
added; the generation of the lease; what the source returned.

- Each SQL statement or transaction is one step, since SQLite serialises them;
  `read_listing_snapshot` is two steps because it is two statements.
- The claim's outcomes are `ClaimFresh`, `ClaimUnchanged`, `ClaimLeaseHeld`, `ClaimTaken` and
  `ClaimError`; `Bypass` needs a backend without a scope and never reaches the row.
- Every write of a lease holder carries the WHERE clause `StillOwns`. A viewer makes one refresh
  call at a time, so its name stands for the unique owner string of a claim.
- `PublishError` covers both ways a publication fails: the write (the lease stays) and the
  serialisation (the lease is given back). The code shows the listing in both.
- `Panic` and `Crash` keep the lease. `ClockStep` moves the wall clock anywhere.

### TerminalHub

A generation is an owner thread and its child; generation 0 means none. `owners` and
`reservations` are the hub's maps, each hub operation is one step because it runs under the lock.
`detach_terminal` is two steps, the hub's flag and then the event, because other threads run in
between; expiry is two steps (`Expire` under the lock, `Kill` after it) for the same reason. The
event channel is a queue per generation; a send fails once the receiver is gone. The upgrades of one
owner are independent tasks, so their attaches arrive in any order, and any of them may fail. The grace clock
is `armed`, then `due` at any time: no bound relates it to anything else, as ten minutes against
scheduling would. A full or closed frame queue is something the owner meets whenever a socket is
on it; how it fills is in `TerminalStream`.

### TerminalStream

One child, its reader thread, its owner thread and the sockets that serve it one after the other.
A chunk of output is its number, so a frame's content says exactly what it shows.

- `ReadChunk`, `ProcessChunk`, `PublishChunk` are the reader thread: the parser lock is taken with
  the chunk in hand and the chunk goes to screen and tap before it is released.
- A takeover (`Attach`, `LockScreen`, `DrainOne`, `Paint`) drains the tap under that lock and paints
  the screen into the new socket's queue, so the redraw stands for everything drained.
- `Collect`, `Flush`, `Finish`, `TimedOut` are `forward_output` and the loop around it; `Queue`
  applies the two caps, frames and bytes (`SinkFrames`, `SinkBytes`), and sheds the socket on
  overflow; it reads the byte count and adds to it in one step, since only the owner
  adds. A frame weighs its chunks of output, a text or a redraw as much as one chunk.
- The socket task sends what it takes (`TakeFrame`, `Sent`, `SendFails`), and its verdict at the end
  is what the phone is told.
- `ScreenMirror` is what the phone may see: `Show` puts a whole screen, past or present, in place of
  a smaller one; `Tell` reports the end after the last output. `ImplementsScreenMirror` maps the
  chunks a socket has been sent to that screen.

### EmbeddedTerminals

One iteration of the run loop is: landed attaches and a new listing in any number (`phase =
"drain"`), one `Frame` (`prune_wall_tiles` then `request_wall_joins`), at most one input event.
`jobs` are attaches being resolved, with what `apply_attach_result` looks at when they land. Modes
that host no child are one mode, `"modal"`. `tiled` is `wall::tile_keys`, which depends on time,
filters and folds, so it may change between listings (`Retile`). `strays` is a history variable:
the children a step back left outside triage's window. It separates the known defect (see
Observations) from every other way a child could linger.

### JobRunner and KillGesture

A key's pipeline is its worker or its unpolled result, plus at most one dependent. Keys are
independent, so the channel is a set. `dependents[k]` is the map's entry: absent (`NoJob`), a job,
or `Taken` for the `Some(None)` left after the dependent was started. `KillGesture` reaches it through
`Submit`, `SubmitAfterSuccess` and `Poll` alone, as the private fields of the runner make sure. It adds
the armed confirmation, whose two-second window is `open` until `WindowCloses`, and three history
variables: `cleared` (stopped with success, or finished when armed), `failed` (stop failed since the
last press) and `panicked` (the last stop panicked on its worker). A job may always panic. A listing
may show anything at any time, since sessions resume and end elsewhere too. A press is on a row that
is listed: the selection and the palette resolve it first (`app.rs:569`, `keys.rs:1482`), so the
disarm for a missing row inside `kill_request` (`actions.rs:535`) is not reached.

### GrokClaims

`row` holds the two tables (a folder's identity row, a repository's lookup row), `pass[v]` where
viewer `v` is in a pass of the fallback, with what it has read. A pass loads the tables, chooses an
entry that is due in its own reading, claims it by a conditional write, runs the command, and
completes or fails; then, when due, it scans and prunes. Each statement is a step.

- The token of a claim is the time it wrote, as in the code: `StillHolds` compares exactly that.
- `Complete` of an identity writes only that row; the repository it names gets a row of its own with
  the first claim on it (`state.rs:576`). Reading the clock for an answer and writing it is one step.
  A write that fails is not reported (`grok_pr_fallback.rs:118`), so the claim stands until it lapses
  (`AnswerLost`).
- A command takes any time, so an answer may come after the window in which nobody else may claim.
  `superseded` is a history variable: the claims somebody else has followed.
- `Lag` bounds how old the time a claim writes may be when it is written. It must be below both
  windows (`LagAssumption`); the database's busy timeout of half a second against 2 s and 10 s is
  why it is.
- What the command prints is its outcome: a repository and branch, or a failure.

### SpawnPins

Only a `codex exec` run is recorded. `spawn[p]` is such a run, `session[s]` what the provider has,
`record[id]` the table by rowid, `view[v]` a viewer's listing and pass: apply pins, resolve or expire what is
unresolved, select and delete what is prunable. Every statement is a step and may fail.

- `Settle` matches by folder and time, nearest first, with the window of the code (`Before`,
  `After`) and its expiry (`Abandon`). Which of two equally near sessions wins is open.
- Rowids are given out again, as SQLite does without AUTOINCREMENT once the last row goes.
- A viewer applies a listing no older than `Lag`; with `Lag + After <= Abandon` (`LagAssumption`: a
  provider fails for less than the nine and a half minutes between the 30 s window and the expiry
  after ten minutes) a record expires only when its own session is not there to be found.
- A viewer that has never had a listing (`Blind`) is excepted from `RecordsOutliveListings` and may
  delete what it never saw: see Observations.

### CodexThreads

Processes are codex terminals (`Procs`), the managed daemon and other app-servers (`Others`). A
thread has holders (open rollouts), at most one running turn and the ending of its rollout; a
subagent's `Root` is its session. A look (`job`) is the sweep over processes, the stat and read of
the rollout with the tail cache, the status, and for a stop or an attach the route and the act, each
a step while the world moves on. `steady` is a history variable: the looked-at turn has not changed
since the look began.

- The sweep visits processes one by one; an app-server that holds a rollout owns it (`status.rs:207`),
  else the first terminal that does.
- The cache key is read before the tail, as in the code, so it may be older than the tail, never
  newer. A stop works on a fresh backend with an empty cache.
- A resume by another process ends the running turn of that thread in its rollout (`cut`).
- A terminal that has exited does not come back: a pid that another codex process takes over between
  sweep and signal, which the check of its name lets pass (`spawn.rs:322`), is not modelled.

### GrokSessions

Leaders run, load the session, run its turn, crash, hang and vanish; the log tells what was last
written. A job is a stop, an archive or a removal with its settle loop; a call within it is
`connect` to each endpoint in any order, the requests, and what came of each (`conn`, `answer`).
A hang is a failing connection or request; a leader without endpoint files is one that refuses. A
roster may use a word the viewer does not know (`"other"`), which makes the status Unknown.
`Words` bounds the words that are used.

- `Merged` is the row: log status first, then each roster answer, where an idle answer leaves a
  finished row and two different answers make it Unknown.
- `Cancel` asks every leader and tells the only one that lists the session; `NothingRuns` needs a
  refusal from each.
- `Settled` and `PollsAgain` are the loops of `remove_settled_target` and `wait_until_stopped`;
  `strict` is `require_finished`.
- Dormant is idle, and Done stands for Error in the log. There is no signal: grok rows have no pid.

## Runs

| Run | Shows | Bounds | Distinct states |
|---|---|---|---|
| `listing_safety` | TypeOK, FreshHoldsMutations, CursorCoversPayload, refinement of SharedListing | 2 viewers, clock to 3, 2 versions, 1 fault | 3.0 M |
| `listing_prompt` | AtMostOneLister, InvalidatedReachesEveryViewer (liveness) | 2 viewers, clock to 3, lease 2, horizon 4, 1 fault | 0.42 M |
| `hub_served` | StrandedOnlyInDispute, AbandonedChildDies (liveness) | 1 session, 2 phones, 1 generation, 4 connections, failing and overtaking upgrades | 0.63 M |
| `hub_churn` | TypeOK, WithinLimit, NoGhostOwner, AdoptedSurvivesGrace | 2 sessions, limit 1, 2 phones, 2 generations, failing and overtaking upgrades | 1.0 M |
| `hub_stranded` | NoStrandedChild violated, see Findings | 1 session, 2 phones, 2 connections, failing fresh upgrades, overtaking ones | |
| `terminal_stream` | TypeOK, refinement of ScreenMirror, PhoneCatchesUp (liveness) | 2 sockets, 2 chunks, frames of 2, queue of 2 frames and weight 3 | 0.38 M |
| `terminals_walk` | TypeOK, OnlyStepsBackLinger, KeysReachWhatIsShown | 3 sessions, 1 tile, 2 attaches in flight | 0.98 M |
| `kill_gesture` | TypeOK, SealedWhileBusy, OnlyClearedAreRemoved, FailedStopRetries | 2 sessions, jobs that fail and panic | 0.12 M |
| `grok_lookups` | TypeOK, LateResultsFenced, OneLiveLookup, AnswersInTimeCount | 2 viewers, 1 folder, 1 repository, windows 2, clock to 4, 2 faults | 5.4 M |
| `spawn_records` | TypeOK, RecordsOutliveListings, SpawnsSettle and PinsShow (liveness) | 2 viewers, 1 spawn, 1 session, expiry 2, clock to 4, 1 fault | 0.27 M |
| `codex_looks` | TypeOK, LiveTurnsLookLive, StopsEndOnlyTheirSession, NoTurnForked | a session and its subagent, 2 terminals, the managed daemon, 3 and 1 rollout entries, 1 fault | 2.8 M |
| `grok_ends` | SessionTypeOK, RowIgnoresOrder, LiveTurnsAreKept, StopsAreTrue, MutationsEnd (liveness) | 2 leaders, one session, unbounded mutations and turns, a word for each status but needs_input and dead | 0.61 M |

Seven more configurations are there to be run by hand: `MCSpawnPins_safety.cfg` (two spawns, so that
a rowid is given out again; passes, 2.6 M states); `MCTerminalHub_overtaken.cfg`, which is
`hub_stranded` without failing upgrades, and `MCTerminalHub_older_wins.cfg`, for the second finding;
and `MCEmbeddedTerminals_back.cfg`, `MCKillGesture_panic.cfg`, `MCSpawnPins_blind.cfg` and
`MCSpawnPins_ids.cfg`, which show an observation below by a violation.

Why the bounds are enough:

- *Listing.* Every race here is between one holder and one other process (claim, renewal,
  publication, invalidation), so two viewers show it; a third only repeats the second's role.
  Freshness and lease of one tick let both run out within the clock's three ticks, and a clock step
  covers a future stamp. One fault at a time is enough for a dead holder, a panic, an error or a
  clock step, each combined with a mutation. The proofs cover all bounds for the safety properties.
  In the liveness run a holder whose lease could not expire before the bounded clock stops may not
  die (`CanExpire`): otherwise the bound, not the code, would starve the others. There the horizon
  exceeds the lease plus the delay of a claim, as 60 s against 5 s does.
- *Hub.* Two phones that connect again give every takeover, and four connections a takeover of a
  takeover while an earlier detach is still under way; two generations give a fresh terminal after a
  dying one; a limit of one makes reservation against owner the boundary case.
- *Stream.* Two chunks are one before a takeover and one during or after it; a queue of two frames
  with a weight of three lets either cap be the first to be hit. The second socket is a takeover
  at any moment of the first; a third would be a takeover of a takeover, which is the hub's matter.
- *Terminals.* Three sessions are a queue with an item behind and one ahead, or two tiles
  competing for one slot; two attaches in flight are a focus and a join, or a prefetch and a focus.
- *Kill.* The armed confirmation is one for all sessions and the keys are independent: two
  sessions show every interaction. The proofs cover any number.
- *Grok claims.* Conditional writes contend for one row, so two viewers and one row of each kind
  show every race; the clock runs twice through a window, so a claim can be followed by another
  whose holder answers, and the first answer comes last. The proofs cover any number.
- *Spawn records.* One record passes through start, record, match, expiry and prune within the
  clock's four ticks, with a second viewer between any two statements; two spawns are needed only
  for rowids given out again.
- *Codex.* Two own processes make "which one is signalled" a question, a subagent makes the family
  one, one fault is a daemon that does not answer or a process that goes while it is looked at. With
  a second app-server (`Others = {f1}`, one terminal) the run passes too.
- *Grok sessions.* Two leaders disagree; a third could only repeat one of the answers. Three do not
  finish in reasonable time; the safety properties are proved for any number. The words
  working, idle, completed and an unknown one give every kind of status: needs_input is treated as
  working, dead as completed. An unknown word is only said of a running turn (`EndTurn`): of an ended
  one it would make the row Unknown, as a torn log or a contradiction already does.

`CHECK_DEADLOCK FALSE`: in the hub's runs generations and connections are bounded, and an idle hub
does nothing; a stream ends when its child and its sockets have ended; in `grok_lookups` the clock
stops and nothing is due; in `codex_looks` rollouts and faults are bounded.

### Fairness

- `ListingCache`: each viewer's own steps (the worker loop runs until the process ends, a listing
  command ends, a claim returns), renewals (a thread per lease) and the clock. Nothing is assumed of
  faults, mutations or invalidations: `InvalidatedReachesEveryViewer` speaks of what *was*
  invalidated. Under `Prompt` time passes only when a claim has run within its tick and live
  holders have renewed, which is what a third of the lease as renewal interval is for.
- `TerminalHub`: owner threads and socket tasks are scheduled, and the grace clock runs out. No
  client has to connect, leave or close, no child has to exit.
- `TerminalStream`: the reader thread, the owner thread and each socket task are scheduled. The
  child need not print or end, nobody has to take over or leave; `PhoneCatchesUp` excuses a socket
  that was shed, failed or was left.
- `SpawnPins`: the clock, the steps of a viewer's pass, and, strongly, its next successful listing:
  a provider that fails for ever would leave a record unresolved for ever. No session has to appear
  and no viewer has to come back.
- `GrokSessions`: the job's steps and the deadline of its settle loop. Reads and writes have timeouts
  of three seconds (`grok.rs:1862`), but the connect before them has none (`grok.rs:1860`): that it
  ends is assumed. Leaders need not answer, run or agree, turns need not end.
- `EmbeddedTerminals`, `KillGesture`, `GrokClaims`, `CodexThreads`: safety only, no fairness.

## Proofs

Proved by TLAPS for every value of the constants:

- `ListingCacheProofs`: `TypeCorrect`, `FreshIsPostMutation`, `UnchangedHidesNothing`,
  `PayloadOnlyMovesForward` and `Refinement`, from `OwnerAssumption`, `TimeAssumption` and
  `BoundAssumption`. The properties are not inductive: that a publication is safe depends on the
  listing in the holder's hands, not yet in the row. The inductive invariant `IInv` says of every
  call in progress that, if it could still publish (generation and owner match), what it holds is no
  older than the payload and the last fence (`PublishableIsCurrent`); that cursors and calls never
  carry a generation beyond the row's; that nothing is ahead of the provider; and that a cursor or a
  fallback read on the row's generation covers the payload. The generation is the hinge: publication
  and invalidation both move it, so whatever was decided under an older one is void. `OneLister` has
  hypotheses of its own: `Prompt`, and a lease of more than one tick and less than the horizon, as 5
  s (`LISTING_CACHE_LEASE_MS`, `state.rs:105`) and 60 s (`LISTING_LEASE_HORIZON_MS`, `state.rs:298`)
  are. `PromptInv` says that a claim uses the time of its own tick, that a lister's generation is
  never ahead of the row's, and that who lists the current generation owns a lease that neither has
  run out nor looks like one from the future: the two ways `claim` takes a lease away.
- `TerminalHubProofs`: `TypeCorrect`, `OwnersAreAlive`, `HubStaysWithinLimit`, `NewestSurvivesGrace`
  and `OnlyDisputesStrand` for any sessions, clients and limit and every order of upgrades, failing
  ones included. Three layers, each resting on the ones before it. `HubInv`: who may hold a generation
  (reserving client, hub entry, thread, never two) and which connection numbers can be where.
  `LimitInv`: reserved and owned sessions are finitely many, so that one reservation adds at most one
  and an activation none. `ServedInv`: where hub and owner
  agree on the connection and no grace clock runs, the owner has still to hear of its end
  (`NotForgotten`), and where the hub's flag is up it is so on behalf of somebody (`ConnectedIsHeld`);
  every queued attach has its holder or is followed by that connection's detach or close.
- `TerminalStreamProofs`: `TypeCorrect`, `StreamInvariance`, `QueuesAreBounded` and
  `PhonesMirrorTheScreen`, the refinement of `ScreenMirror`. `StreamInv` accounts for every chunk:
  those processed are the ones passed on, the owner's batch, the tap and the one in the reader's
  hands, in order; each connection's frames, queued or sent, lead through the screens of the child
  from the one the phone shows to the one the owner has passed it, except between a takeover's
  greeting and its redraw; and the queue's count is exact. The parser lock is what orders a redraw
  against the chunks around it (`LockIsHonoured`).
- `EmbeddedTerminalsProofs`: `TypeCorrect`, `KeysReachTheView`, `LandingStealsNoKeys` and
  `OthersAreReleased`, for any finite set of sessions and any limits. A triage queue is open at a
  position of at least one (`TypeInv`); with that `KeysReachWhatIsShown` is inductive (`ViewInv`),
  and on top of both so is `OnlyStepsBackLinger` (`HeldInv`): which children are held is decided by
  the queue's position, which each landing, step and release moves or respects.
- `KillGestureProofs`, the runner: `RunnerInvariance` and its corollaries, from `JobAssumption`: a
  key is sealed while busy, has one job or result at a time, and no dependent outlives its pipeline.
  The three need one another: a poll may free the key because its result was the only one
  (`OneJobPerKey`), and a submission finds no old dependent because a key with one is sealed.
- `KillGestureProofs`, the gesture: `TypeCorrect`, `GestureSealsKeys`, `RemovalsAreCleared` and
  `FailedStopsRetry`, with panics. The inductive invariant `GestureInv` follows the confirmation: while
  it stands, or a removal is queued, the session is cleared, its stop has still to be polled, or that
  stop panicked. A stop's own result is the only thing that makes a session forget its panic, and it
  clears the session, disarms it, or is a panic again.
- `GrokProofs`, the lookups: `TypeCorrect`, `Fenced`, `Exclusive`, `InTimeCounts`,
  `NamedSurvivePrunes`. Nothing in the table says that a token is unique: it is a time. `IInv`
  derives it from the lag: a live claim owns its row (`LiveClaimOwnsRow`), tokens on one key differ
  (`TokensDiffer`), because the next claim waits out a window longer than any wait for the database,
  and the newest claim is the only one nobody has followed (`OneNewest`).
- `SpawnPinsProofs`: `TypeCorrect` and `RecordsKept`. That a viewer deletes only what it may is
  decided several statements before it deletes, so `IInv` carries along what a reading, a listing
  and a doomed set still mean: listings are recent and complete up to the lag, readings differ and
  are of runs that have begun, what is doomed is old and stays so.
- `CodexThreadsProofs`: `TypeCorrect`, `LiveTurnsSeen`, `StopsStayHome`, `AttachForksNoTurn`. `IInv`
  has two halves: the world (who runs a turn holds its rollout, holders are up, a terminal holds one
  family, a running turn's tail is live) and what the look knows (a cache entry with the current key
  is the current tail; a steady turn's process is either still to be visited or found; the job's
  thread and stage fit).
- `GrokProofs`, the sessions: `SessionsTypeCorrect`, `OrderIsIgnored`, `TurnsAreKept`, `StopsHold`,
  from `LeaderAssumption`. `SessionInv` says that answers come from leaders that were
  asked, that the call in progress has heard exactly them (`Heard`), that the row is the verdict
  over those and the log (`RowFollows`, which makes the order irrelevant), and that a delete follows
  a settled row (`DeleteIsSettled`).

Every safety property and every action property the runs check is thus checked on small instances
and proved in general, and so are the two refinements. Only model-checked: liveness
(`InvalidatedReachesEveryViewer`, `AbandonedChildDies`, `PhoneCatchesUp`, `SpawnsSettle`, `PinsShow`,
`MutationsEnd`), which needs fairness and ENABLED and is out of the prover's reach; and the
violation of `hub_stranded`, which is a counterexample and nothing to prove.

## Findings

**A fresh terminal whose upgrade fails strands its CLI process** (`hub_stranded`). The failure
handler asks to close connection 1, the owner still serves connection 0 and ignores it, and the
hub's connected flag makes the grace clock believe in a reconnect. A *re*attach that fails after the
clock was consumed that way ends the same. The comment at `agent-viewer-server/src/lib.rs:946` says
"a fresh one has nobody to hand the child to, so it goes now".

**Two upgrades that overtake each other strand it too** (`hub_stranded`, which
reports the shorter way above first; `MCTerminalHub_overtaken.cfg` leaves only this one). Phones 1 and 2 acquire in
this order, but their attaches are sent by independent tasks (`lib.rs:1311`) and arrive as 2, then 1.
The owner takes both (`lib.rs:1189`); phone 2 is closed with 4000, which sends no detach. When phone
1 leaves, `mark_terminal_detached` ignores it, as the hub's entry holds connection 2 (`lib.rs:469`),
so `connected` stays set, and the end of the grace window is taken for a reconnect (`lib.rs:1158`). The
comments at `lib.rs:457` ("a stale `connected` would tell `terminal_grace_expired` somebody is still
attached and keep the child alive forever") and `lib.rs:1132` name what must not happen. No upgrade
fails here. `StrandedOnlyInDispute` bounds the damage of both findings: hub and owner then disagree
about the newest connection.

By the same two steps an older connection displaces a newer one, against "The new connection wins,
the old one is closed with 4000" (`lib.rs:343`; `MCTerminalHub_older_wins.cfg`, `NewConnectionWins`).

## Observations

Met while modelling; those with a property named can be reproduced with the configuration named.

*Hub and stream*

- `forward_output` runs until the tap is empty (`lib.rs:1104`), so a child that prints as fast as it
  is drained keeps its owner from its deadline; the comment at `lib.rs:1146` rules this out.
- The reader thread answers a palette query by a blocking write (`agent-viewer-core/src/pty.rs:259`)
  while an input may hold the writer until the child reads.

*Terminals of the TUI*

- `back_triage_item` releases only the item it leaves (`actions.rs:440`): the prefetched successor
  is then two ahead, is never released and outlives the queue, against "never accumulates live
  connections" (`actions.rs:375`). `MCEmbeddedTerminals_back.cfg`, `NothingLingers`.
- Ctrl+O on a tile that is still joining spawns a second child for its session (`main.rs:1291`;
  `SPEC.md:1652`, `README.md:423` promise one).
- A tile whose child exited stays in `requested` and is not joined again while it is tiled
  (`main.rs:1350`).
- A spawn's row takes the selection when it appears, up to ten minutes after the spawn
  (`main.rs:1495`), also between the two presses of Ctrl+X.

*Kill gesture*

- Archive and kill use different runner keys (`actions.rs:618`), so both may run on one session. A
  first press refused because a removal is in flight still arms the confirmation.
- A stop that panics leaves its confirmation standing: the runner reports the panic without the
  marker that disarms (`mutations.rs:114`, `main.rs:1566`), and frees the key. The next press within
  the window removes a session that may never have been stopped, against "If stop fails, removal is
  discarded and confirmation is cleared, so the next press retries stop" (`README.md:325`,
  `SPEC.md:920`). `OnlyClearedAreRemoved` and `FailedStopRetries` except exactly such a stop.
  `MCKillGesture_panic.cfg`, `FailedStopForgets`.

*Listing*

- A listing whose shared write fails is shown even if a mutation fenced it. That a fenced viewer
  re-lists "immediately" on its next tick does not hold while another viewer has the lease. A
  provider command that hangs holds the lease for as long as it hangs.

*Grok claims*

- If a process is suspended between reading the clock and claiming for longer than a window, or the
  clock steps back, tokens can repeat and a late answer passes the fence: `LagAssumption` is needed.
  A success stamp in the future of a slow clock makes a just-finished lookup due again.

*Spawn records*

- A viewer that has had no listing of a backend yet (start-up, or the backend fails since) takes
  every session for gone: `prune_resolved_missing` then deletes resolved records older than seven
  days although their sessions exist (`lib.rs:709`, `748`; `main.rs:1464`), against "a still-existing
  session keeps its pin no matter how old the row is" (`state.rs:1013`). `MCSpawnPins_blind.cfg`,
  `NoPinIsLost`.
- The id of a deleted last row is given out again (`state.rs:15`), so a viewer that read the old row
  may resolve or delete the new one, against the comment at `state.rs:1076`. `MCSpawnPins_ids.cfg`,
  `OnlyOldRecordsGo`.
- `resolve_spawn` does not ask for an unresolved row, so a pin can be moved to another session; two
  `codex exec` spawns in one folder within 30 s may resolve to the same one. A crash between the
  start of the process and its record leaves the session unpinned, as does a provider that fails for
  nearly ten minutes.

*Codex*

- The attach route can resume a running turn elsewhere, which cuts it, in cases `NoTurnForked`
  excepts: the turn began after the look, the thread is held by a second app-server, or the managed
  daemon does not answer within its 20 s (the comment of `attach_route`, "there is no live thread
  left", takes silence for absence). `SPEC.md`'s "Known gap" documents a part of this.
- A stop of a thread the managed daemon holds but does not run reports success although the turn
  runs elsewhere; with two terminals on one rollout the first in directory order is signalled. An
  approval stays "needs input" after it was granted until the turn ends. A second Ctrl+X archives a
  codex session that is active again: the check is on the delete path only (`ops.rs:304`).

*Grok sessions*

- Two leaders that contradict each other make the row Unknown, which counts as not active: a removal
  without `require_finished` deletes, and a stop is done waiting, while a turn may run
  (`LiveTurnsAreKept` excepts this).
- A cancel goes to a leader that merely lists the session when the one that runs it fails to answer,
  and is reported as a stop (`StopsAreTrue` excepts this). Delete and rename go to the first leader
  that can be reached. A spawn the roster does not confirm within 10 s is an error although the
  session runs; a retry makes a second one. The viewer's own client answers any permission request
  it reads with "cancelled".

## What is not modelled

- *Claude backend, router, reading of provider files.* Translation of files and command output into
  sessions; in the models it is a listing's version, a job's outcome or a child.
- *HTTP API, authentication, command line.* Stateless handlers over the backends.
- *Session list, composer, rendering, mouse.* Sequential and pure; the parts that meet late results
  (the confirmation, focus, tiles) are in `KillGesture` and `EmbeddedTerminals`.
- *Model, command and PR caches.* Best effort lookups; each result replaces one entry.
- *Pending reply.* No backend enables it at this commit.
- *Android app.* Its connects, takeovers and closes are the client actions of `TerminalHub`.
- *Of the modelled parts:* spawning through the codex daemon and grok leaders, rename, models,
  attach of grok sessions; the Claude and codex branches of `remove_settled_target`; input, resize
  and palette replies of a PTY; `vt100` panics under the parser lock; platforms without `/proc`;
  schema migration, settings and folded groups in `viewer.db`. The kill gesture leaves out what
  `ops.rs` checks before it removes: for grok that is in `GrokSessions`.

`PROJECT.json` gives the reason for each component.

## Plan

Done, checked and proved: `SharedListing`, `ListingCache`, `TerminalHub`, `ScreenMirror`,
`TerminalStream`, `EmbeddedTerminals`, `JobRunner`, `KillGesture`, `GrokClaims`, `GrokSessions`,
`SpawnPins`, `CodexThreads`. In order of what is left:

1. `SessionList`: rows, folds, filter and selection of `app.rs` under listings, with the armed
   confirmation and clicks: a press acts on the row it was aimed at.
2. The Claude and codex branches of removal, and spawning through the codex daemon and the grok
   leaders with their confirmation timeouts.
3. `Console`: the phone's reconnects and takeovers as a client of `TerminalHub`.
