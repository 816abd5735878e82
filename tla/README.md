# TLA+ models of aichip (eren)

aichip runs coding agents for people: a card on a board is picked up by an
engine (Claude Code, Codex, OpenCode, ...), which works in the card's worktree
until its run ends, and a person reviews, answers, merges or stops it. This
directory models the part of the server where that is hard to get right: a
PostgreSQL database written by many small statements, in-memory maps under
mutexes, a semaphore, Docker, and dozens of async tasks that meet between any
two awaits.

Paths below are relative to `src/crates/`; `core` is `eren-core/src`.

## Inventory

| Component | State it keeps | Operations | Hard behaviour | What makes it correct | Module |
|---|---|---|---|---|---|
| Concurrency slots `core/runs/slots.rs` | a semaphore, `debt` | lend, reclaim, take_debt, acquire, drop | a permit nobody holds; a debt paid by whoever comes next | permits = budget + loans + debt; the queue never freezes | `Slots`, `SlotBudget` |
| Permission broker, run gate `core/runs/permissions.rs`, `gate.rs` | `pending`, `parked` (count, lent), `runs.status` | request, resolve, park, unpark, abandon, ParkGuard::drop | parallel prompts, dropped futures, answers racing timeouts, late unparks | one loan per run, settled once; nothing left parked; endings final | `PermissionBroker` |
| Run orchestrator `core/runs/orchestrator.rs`, `core/queue` | `runs`, `queue`, `cancels`, `liveness` | claim, execute, stream, hold, park a plan, cancel, finish, recover | cancels racing every step, holds, crashes between statements | one engine per run; ended is final; queued comes back; a stop ends | `RunLifecycle`, `RunPromise` |
| Plan approval `core/approvals.rs` | `runs.plan_approved_at` | approve, revise (card); approve, reject (team) | two statements racing a cancel | approved work is dispatched once | `RunLifecycle`, `OrgRuns` |
| Starting work `core/runs/follow_up.rs`, `resume.rs`, `core/handoff.rs` | `runs`, `queue`, `tasks.handoff_*`, the card's row lock | start, follow up, summarize, resume, hand over, settle | several doors to one worktree | one live run, one engine, per card; a hand-off is settled | `CardStarts` |
| Organizations `core/runs/org/*` | `runs`, `steps`, the sub-cards | plan, repair, batch, adjust, triage, review, mirror, approve, reject, cancel | fan-out, replanning rounds, two writers of one ending, a crash in a round | work apart; dependents wait; rows and board settle; the run ends | `OrgRuns` |
| Review and checks `core/review.rs`, `checks.rs`, `eren-server/src/routes/tasks.rs` merge | `review_decisions`, `check_runs` | summarize, check, fix, review, judge, gate, merge, retry | verdicts for an older diff; who asks for the review | what is approved is what is there; reviews come; nothing merges unjudged | `ReviewLoop` |
| Landing `core/landing.rs` | `task_deps`, `tasks.landed_at`, `board_column` | add_blocker, land, tell the dependents, sweep | two writers of a column, a crash after the mark | no rings; In Progress means work; waiters are told | `Landing` |
| Previews `core/previews/*` | `previews`, Docker's containers and images | start, wake, build, stop, sweep, reclaim, read, reconcile | rows and containers changed by separate steps | a box that is up has a row; the limit; builds end | `Previews` |
| Manager: wakes, heartbeats, routines, scheduler `core/wake.rs`, `heartbeat.rs`, `routines.rs`, `scheduler.rs`, `manager.rs`, `eren-server/src/mcp/chat_tools.rs` | `wakeups`, `routine_runs`, `manager_actions`, the thread's runs | raise, tick, fire, read, queue, link, consume, start cards | news raised while it is read; tool calls in parallel | the cap; news is read; news is heard | `Manager` |
| Reaper `core/reaper.rs` | `liveness`, `runs.last_event_at` | judge, stop, auto-resume | silence judged against a status just changed | a parked run is not reaped; retries bounded | - |
| Decisions, asks, inbox `core/decisions.rs`, `asks.rs`, `inbox.rs` | `decisions` | propose, decide, apply | effect applied, outcome lost | at most one effect per decision | - |
| Budgets and agents' limits in the queue `core/budgets.rs`, `agents.rs`, `claim_next`, `eren-server/src/routes/budgets.rs` | `budget_policies`, `queue.not_before`, `held_by`, `runs.started_at` | look, hold, stamp and hand out, edit, override, remove, release | a look outside the transaction that writes the hold; counts told from columns others write | no more begin than there is room for; what waits for a window waits for a spent budget; every row leaves | `Claims` |
| Org chart, goals, agents `core/org_chart.rs`, `goals.rs`, `agents.rs` | trees | reparent, pause, retire | concurrent moves that close a cycle | no cycles | - |
| Events `core/bus.rs`, `eren-server/src/ws.rs` | `events`, a broadcast channel | persist, publish, replay | a lagging reader between replay and live | no gap, no duplicate | - |
| Worktrees, leftovers `core/worktrees`, `leftovers.rs` | checkouts | create, drop, sweep | a sweep racing a start | nothing in use is removed | in part `CardStarts`, `ReviewLoop` |
| Knowledge base `core/kb`, `revisions.rs` | articles, revisions | save, move, restore | concurrent edits | no lost update, no cycle | - |
| Apps `core/apps` | schema versions | build, migrate | | | - |
| Engines, pump `eren-engines/src` | a child process, a channel | spawn, pump, interrupt | a full channel, an exit before the last line | every event in order, one ending | - |
| HTTP and MCP surface, access, audit `eren-server/src` | none of its own | parse, authorize, call | | the routes that change a run are modelled with the run | - |
| Index, search, storage, GitHub, models, dashboard | caches | batch work, I/O | | not concurrent with the above in a way that matters | - |

How they interact: a *door* (route, scheduler, decision, landing, a manager's
tool call) inserts a run and its queue row; the *queue loop* takes a permit,
claims the head and spawns a task; the task moves the run through `starting` and
`running`, streams the engine, and calls `finish`; the engine's tool calls come
back over MCP as permission *requests*, which park the run, lend its permit and
wait for a person or a timeout; the *cancel* route signals the stream or finishes
the run itself; the *post-work* reports, files the card, checks, asks for a
review, and a merge lands the card and frees what waited for it. A failure is
*news* to the project's manager, which is woken and starts cards in its turn. The
database is the only state that survives a restart; `recover_orphans` repairs it
before the loop runs, and `previews::reconcile` makes it agree with Docker.

`PROJECT.json` lists every component with its status, and every hazard at its
line with the properties that cover it.

## Modules

| Module | Models | Extends / uses |
|---|---|---|
| `Slots` | `runs/slots.rs`: the semaphore and the debt, as steps other modules compose | |
| `SlotBudget` | abstract: slots held, lent and owed never exceed the budget | |
| `PermissionBroker` | the broker, the gate, and the loop and tasks that hold permits | `Slots`; implements `SlotBudget` |
| `RunLifecycle` | one run from queue row to ending, cancels, holds, plans, crashes | implements `RunPromise` |
| `RunPromise` | abstract: a run waits, works, may ask, and ends once; a rate limit makes it wait again, whatever it was | |
| `CardStarts` | the doors through which one card gets a run | |
| `OrgRuns` | a team's run: plan, batches, rounds, triage, review, the board | |
| `ReviewLoop` | one card from its run's end to its merge: checks, fixes, reviews | |
| `Landing` | the board: dependencies, columns, landings, the sweep | |
| `Previews` | rows, containers and images of the previews of one project | |
| `Manager` | a project's manager: its news, its passes, its thread, its cap | |
| `Claims` | who leaves the queue: budgets, agents' limits, holds and releases | |
| `MC...` | instances for TLC | |
| `WorkProofs` | theorems about `OrgRuns` and about `Claims` | `OrgRuns`, `Claims`, TLAPS |
| `...Proofs` | theorems about the module they are named after | TLAPS |

Several modules and not one: each takes from the others what it needs as one
step. `RunLifecycle` does not know `waiting_permission` (a parked run is
`running` to it); `PermissionBroker` executes a run once; `CardStarts` sees a run
as claimed, preparing, opening, streaming or in post-work, with the stop that is
lost while it opens, and leaves out rate limits, and with them the stream that
works on beside its own hold. `OrgRuns` leaves slots and the queue
row to the other two; `Claims` sees a run as queued, handed out, at work, held
and over, and leaves the statements of a hold and of an ending to
`RunLifecycle`; `ReviewLoop` takes a door that supersedes, looks and
inserts as one step, which is what `CardStarts!OneLiveRun` allows; `Landing` and
`Manager` know of a run only that it is live or over. Where one module finds an
assumption of another broken (the by-hand runs below), the other does not find it
again.

### PermissionBroker

A request's future is a place per await of `PermissionBroker::request`:
`parking` (inside `gate.park`), `lending` (parked, the loan not noted),
`waiting`, `abandoning` and `signalling` (inside `gate.abandon`), `leaving`. The
`ParkGuard` lives while the place is not `new` or `done`, and `DropGuard` is its
`Drop`: the refcount goes down, and the last one reclaims the slot and spawns the
unpark (`unparks`). `HangUp` drops the future at any place, as a closed
connection does. `resolve` may find a responder as soon as the request is
registered, before the run is parked. The queue loop, a run's task and its
fan-out are there for the permits they hold. `running` stands for `starting` too.

Switches: `HangUps` (a client closes one prompt and goes on), `UnparkLags` (the
spawned unpark is scheduled some time later), `FanOut` (a team's run streams
several steps, with extra permits and a `set_status(Running)` of its own per
step), `Patient` (prompts with the wait-for-ever setting).

### RunLifecycle

`status` and `queue` are the two tables; a worker is a spawned task, and its `pc`
is the statement it has reached in `execute`, `execute_task_run`, `stream_run`,
`hold_rate_limited`, `park_for_approval` and `finish`. `requested`, `listener`
and `fired` are the cancel map: a registered receiver is `fired` by a send or
when its sender is dropped by `forget_cancel`. The cancel route is three steps
(read, signal, finish). A crash loses workers, routes and the map, and takes the
engine processes with it; `Recover` is `recover_orphans`.

`Lingers` is the assumption that matters: with TRUE, the queue row of a hold may
ripen while the stream that wrote it is still there. `rate_limit_backoff` can
return a reset time that is already past, and an engine may take as long as it
likes to exit, so the code does not exclude it. Plan-first runs that are also
held break `OneEnginePerRun` even with FALSE. `overrun` is history: the runs that
were taken up again while a stream of theirs was open, until a crash. Nothing but
that puts a second engine on a run (`OneEngineUnlessOverrun`), and nothing but a
hold writes over an ending (`OnlyHoldsRevive`). `RunPromise` has a run's phase,
the runs a limit has held and the ones that are `doubled`, of which two workers
write what they come to. The post-work after `finish` is part of `idle`.

### CardStarts

A door is a call: `superseding` (asking live summaries to stop), `locking`,
`checking`, `inserting` for starts, follow-ups and summaries, on one transaction;
`looking`, `adding`, `queueing` for a resume, which takes no lock; `recording`,
`stopping` for a hand-off request and `counting`, `claiming` for its settling,
after which the door becomes a start. A refusal the model does not look into
(blockers, budgets, paused agents, no worktree) is `Refuse`. Which run is
plan-first is left open. A run's task passes the status gate (`PassGate`) and
registers its stream (`Register`) in two steps, as `stream_run` does: a stop in
between finds no stream, and the run goes to `unheard`, history of the runs whose
engine works on under a row that reads ended. `Stop` is one step of `cancel`,
`cancel_idle` and `finish`, whose statements `RunLifecycle` takes apart. `lock` is the row lock of
`SELECT ... FOR NO KEY UPDATE`. A restart rolls transactions back and keeps
`tasks.handoff_*`. `resumed` is history: a resume has added a run. From then on
`OneLiveRun` and `OneEngineUnlessResumed` say nothing, and
`MCCardResume.cfg` shows why: `resume_dead_run` looks without the lock.

`HandoffWaits` promises less than `handoff.rs` does, which says that a settle
waits for the old run's `execute` to return. `is_executing` is read first and the
statuses second: a task that starts to execute in between, and is canceled while
it prepares, is seen by neither read, and the hand-off is claimed while that task
winds down. What is checked and proved is that no engine of it streams by then,
but one that is deaf to the stop that ended its run.

### OrgRuns

`plan` is what the manager will hand over, `step` the rows of the assignments
(a key and its second attempt), `column` their cards, `own` a run that a person
has started on such a card. `pc` walks the executor: planning and its repair,
parking for a person's yes, then rounds of a batch, the adjustments, the triage
of what failed, and the review of the whole; `turn` is the engine of each member.
The batch is chosen by declared files (`IsBatch`), started one by one, and ends
when its turns have. `canceller` walks the cancel route, which settles the rows
itself when no stream heard it, while the executor goes on to write them; both
mirror the board after it (`Finish`, `FinishMirrors`). `late` is history: a
restart has cut short the last writes of a run that had already ended, which
`recover_orphans` does not look at again.

### ReviewLoop

One card whose project asks for checks and a review. `n`, `trigger`, `state` are
its last run, which may plan first: it is `planning`, then `parked` until its plan
is approved or sent back; `task[k]` is what each ended run left behind: its post-work, or the
checks it spawned, which reports, files, runs checks, starts a fix, asks for a
summary, asks for a review, and acts on a verdict, await by await, while the next
run works. `covered` says that a verdict is newer than the last *completed* work
(`review::last_work`), `fresh` the same of a check. `merge` walks Merge (look,
gate, land, file, drop the worktree) and a fresh Retry (look, drop, start). Merge
looks for any live run; Retry asks `run_is_active`, for which a parked run does
not count, and so drops the worktree of a plan that waits for its yes
(`DropsOnlyIdleWorktrees`, by hand). That it looks at the latest run only matters
to bake-offs, which are left out.
`unjudged`, `cutShort` and `owed` are history: what the worktree holds beyond the
last verdict, and completed work nobody has been told of.

### Landing

The column of each card, its marks (`landed`, `note`), the dependencies, and the
processes that write them: doors, the task of a run that has just completed, and
the sweep of the scheduler. `land` commits the mark and collects the dependents,
then tells or starts one after the other. Plan-first runs and
`awaiting_approval` are left out: `live` is a card with a plain run. `owed` and
`lost` are history: the waiters a landing has freed and not told, and those whose
freedom no landing is there to tell.

### Previews

A row per preview (`status`, `owner`, ...) and what Docker has under its name: a
`box` (one container or those of a compose stack) with the attempt that made it,
and an image. A request is a place per await of `start`, `wake`, `by_id`,
`stop_which`, `reclaim_disk`; `builder` is the spawned task of each row,
`build_and_run`; `swept` the containers the idle sweep has yet to remove. Boxes
die and images are pruned at any time. `known` names the ways a box is left up
with no row that says so; each of them is a step the code takes, and the property
says there are no others. `adopted` is history: the rows a restart has claimed
with their box up and no task left to finish them, which `BuildsEnd` excepts.

### Manager

A card is not there, in the backlog, at work or in review. `news` is the one
unread row a card may have: which raise inserted it and how many there have been.
A *door* (the tick, or a person) carries a pass or a typed message through
`fire`, `dispatch` and `fire_chat`: vetting, reading the news, checking the
thread, queueing the turn, linking the pass to it, consuming what was read. The
tick drains wakes, beats, and asks the cron, one pass after the other, and asks
`may_wake` (an idle thread, the cooldown, the day's count) a statement before it
fires. `call` is a tool call of a live turn: `pass_for_chat`, the count, the
card, the record and the start. `excused` is history: two calls of a pass were
past the count at once, or one was not known as the pass's own; `overtaken`: a
card was raised again while a pass that had read it had not consumed. A read
that fails, which `pass_for_chat` takes for "no pass", is left out.

### Claims

`claim_next` with the budgets and the limits it asks. `status` and `row` are the
two tables, `held` is `queue.held_by`; a row is ready, or not before a moment
(`later`) or the end of a window (`row[r]` is the budget whose window it is).
`loop` is where the claim is: `picked` (the candidate's row locked), `limiting`,
`reading` (the policies, read outside the transaction), `asking` (one budget after
another), `holding`; or `heading`, the claim that asks nothing. `stamped` is
`started_at`, `recent` what `usage` counts of it in a window, `today` what
`load_of` counts. `fresh` are the windows that have not turned since the claim's
transaction began: `now()` is that moment, so a stamp may fall in a window that is
over. `hand` is a person's request, whose second statement is the release, or the
delete. `closing` are the runs whose cancel has written the run and waits for the
row. `begun` and `most` are history: how many have begun in a budget's window, and
how many it has had room for, which an edit lowers to no less than what has begun,
with the claim that is under way. `lost` is history too: runs held at a window that
nothing will let go of before it ends, because the release passed them by before
the hold was written, or a restart came between an edit and its release; and `back` the runs handed out while they read
`rate_limited`.

The module's `ClaimsInit`, `ClaimsNext`, `claimsVars` and so on carry its name
because `WorkProofs` extends it beside `OrgRuns`.

## Runs

| Run | Instance | Shows |
|---|---|---|
| `broker` | a fan-out beside a run, 2 prompts, 2 slots, hang-ups and late unparks | types, slots conserved, a loan has a question, endings final, only a hang-up at the await of the park strands a run, implements `SlotBudget` |
| `broker_live` | 2 runs, 1 slot, 2 prompts, one patient, late unparks; no hang-ups, no fan-out | the queue is not frozen |
| `life` | a plan-first run, 2 workers, 1 hold, 1 revision, 1 crash, a lingering stream | queued and held runs come back and settle; a second engine and a revived ending need the hold; implements `RunPromise` |
| `cards` | a completed run, handed over or not, and two more, a call and the sweep's, every door, a restart | one live run; one engine, but beside one that is deaf; hand-offs wait and settle |
| `org` | 3 assignments, 3 plans, an addition, a replanning round, second attempts, a sub-card run on its own, a cancel, a restart | work apart, dependents wait, rows settle, the board follows, the run ends |
| `review` | 3 runs of any kind, plan-first or not, the task of an ended run, Merge, Retry, a restart | approvals stand, Merge lands judged work; completed work is judged, reviewed, or put to a person |
| `landing` | 3 cards, one waits for two, one starts by itself, one has no git; 1 door, the sweep, a restart | rings need a race, In Progress means work, waiters are told |
| `previews` | a Dockerfile and a compose stack, a limit of 1, 2 requests, the idle sweep, a restart | boxes have rows, the limit needs a race, builds end |
| `manager` | 2 cards, a cap of 1, 1 early pass a day, the tick and a person, 2 tool calls, a restart | the cap, news is read, news is heard |
| `claims` | 2 runs of one agent that may do one at a time and one a day, a machine's budget of 1 run, 2 acts of people, engines or the server | types, the budget is kept, holds are spent, limits are kept, every row leaves |
| `cards_unheard` | 2 runs, a call and the sweep's, no restart | **violated**: a stop is lost between gate and registration, and a second engine works in the worktree |
| `review_unjudged` | two tasks of ended runs, no restart | **violated**: Merge lands what nobody has judged |

The bounds and why they are enough.

* *Broker*: a guard interferes with the guards of its own run and, through the
  semaphore, with other runs. Two prompts of one run are the smallest refcount
  whose last guard is not the one that lent; two runs are the smallest queue one
  of them can freeze; one extra permit is a fan-out that competes. `broker_live` has
  no hang-ups because `QueueNotFrozen` does *not* hold with them: a run whose
  parking prompt is dropped has lent nothing, and keeps its permit for as long as
  another prompt of it waits. It has no fan-out because
  in the model one may take and return an extra permit for ever, passing a queue
  that waits by; in the code a fan-out is as long as its batch. While a slot is lent the status may read
  running: a sibling step's `set_status(Running)` overwrites
  `waiting_permission`.
* *Lifecycle*: runs share only workers, so one run and two workers show every
  race of one run with itself, and any number are in the theorems. One hold, one
  revision and one crash reach each of their statements at every place, the row
  that ripens under its own stream included.
* *Cards*: two live runs need two inserts; a third run lets a summary be asked
  for, superseded and replaced. The sweep's door becomes a start after a claim,
  and a hand-off of the run that has completed may be on record from the start,
  so two doors race for the insert.
* *Teams*: two assignments that are apart and a third that joins them, a chain,
  and one that declares nothing are the cases `parallel_batch` tells apart; one
  addition, one replanning round and one second attempt reach each limit.
* *Review*: three runs are work, its review and a fix or a new start. One task
  stays behind them, with a restart; `MCReviewComes.cfg` has two, a run's
  post-work and the checks of the one before, without.
* *Landing*: a card that waits for two is the smallest whose freedom is not one
  landing's; three acts are a drag, a start and a declaration. That declarations
  overlap takes two doors, and is in `MCLandingLoop.cfg`.
* *Previews*: two owners are the smallest number over a limit of one; two rows
  let a card have an old and a new one; two doors and the builder are three hands
  on one row. A base branch as well makes the instance too large, and is in
  `MCPreviewBase.cfg`.
* *Manager*: two calls are the smallest number past one count; one card in the
  backlog and one to be made are the two tools; three acts are a failure's start,
  a message and a call. `MaxActs` also bounds restarts and pauses.
* *Claims*: two runs are the smallest number over a limit of one, and over a
  budget of one; what one claim leaves behind is all the next one finds, so more
  runs add nothing but their order. Two acts are an edit and what it meets, or a
  rate limit and a cancel; three (531,000 states) pass as well. One budget holds
  a run at a time, and the first that is spent is the one that does.

The types of `OrgRuns`, `ReviewLoop`, `Landing`, `Manager` and `CardStarts` are
proved, and no run checks them again.

Deadlock is checked where the configuration does not say otherwise;
`RunLifecycle` has a `Settled` step for a run with nothing left to do. The
modules from `OrgRuns` on may stop when their bounds are used up.

### By hand

These configurations are not among the listed runs. Each is violated, by a
behaviour the code has; the last two pass. Run one with
`tlc -config X.cfg <module>`.

| Configuration | Property | What it shows |
|---|---|---|
| `MCBrokerStranded` | `NobodyStranded` | `lent` is set after `gate.park` has returned: a future dropped inside it leaves the run reading `waiting_permission` |
| `MCBrokerGone` | `GoneMeansEnded` | a guard's drop removes the entry at once and spawns the unpark; a prompt in between is the run's first again, `park` matches no row, and a live run's engine is told its run is gone |
| `MCLifeTwoEngines` | `OneEnginePerRun` | the hold's queue row ripens before its stream is gone |
| `MCLifeRevived` | `EndedIsFinal` | `hold_rate_limited` updates `runs` without a status guard |
| `MCLifeDeafStop` | `StopIsHeeded` | a cancel between `set_status(Running)` and the registration is forgotten by `cancel_idle`'s `finish` |
| `MCCardResume` | `OneEngineAtWork` | `resume_dead_run` looks for live runs without the card's lock |
| `MCOrgRaces` | `StopIsNotFailure`, `CardFollowsRun`, `OneCheckout` | what comes after a stop in its round may end the run as failed; a canceled run's card moves on; a sub-card runs on its own in the team's checkout |
| `MCReviewLost` | `ReviewComesAnyway` | Merge ends the summary that was to ask for the review, and is then refused |
| `MCReviewTwice` | `ReviewsOnlyTheUnjudged` | what `wants_review` read has changed when the review starts |
| `MCLandingLoop` | `NoCardWaitsForItself` | two declarations overlap |
| `MCLandingWake` | `EveryWaiterIsTold` | a card filed back in the backlog after its blocker has landed; a blocker that is out and back between two ticks keeps `landed_at` |
| `MCPreviewBoxes` | `OneBoxPerCard`, `IdleHoldsNothing` | a stop during a build; a swept stack that stays up |
| `MCPreviewBase` | `StartsBuildOrRun` | a base branch's idle row whose image is gone holds the index, and nothing can be built |
| `MCPreviewStuck` | `BuildsEndAnyway` | a restart finds the box of a row that reads building up, and no task is left to finish it |
| `MCManagerRaces` | `CapIsHard`, `EveryWordIsRead`, `OneTurn` | parallel calls, and calls before the link, pass the cap; a row counted up after it was read is marked read; two doors find the thread idle |
| `MCReviewComes` | `TypeOK` and the properties of `review` | holds: with two tasks of ended runs and no restart |
| `MCLifeStops` | `StopEnds` | holds: a stop ends the run of an engine that never ends by itself, without plans (a stop that meets a plan being completed is lost) |

And with another property in place of a configuration's own: `EveryQuestionEnds`
holds in `MCBrokerLive.cfg`, and `GoneMeansEnded` does so once `UnparkLags` is
FALSE; `DropsOnlyIdleWorktrees` is violated in `MCReviewTwice.cfg`, by a fresh
Retry of a card whose plan waits for its yes; `ReleaseIsHeard` and
`AtOnceKept` are violated in `MCClaims.cfg`: a release made between a claim's look
at the budget and its hold finds nothing to let go, and a run back from a rate
limit is not seen between its claim and its start.

### Fairness

* `PermissionBroker!Fairness`: weak fairness of the loop, of each task, future
  and unpark (tokio polls what is ready; the loop never returns), of a fan-out's
  return, and of the end of a connection whose engine is gone. People are not
  obliged to answer.
* `RunLifecycle!Fairness`: weak fairness of each worker, of a route's remaining
  statements, of the clock (`Ripen`) and of recovery. Nobody has to approve or
  cancel. `HangSpec` drops the assumption that an engine ends by itself.
* `CardStarts!Fairness`: weak fairness of run tasks and doors, of the
  scheduler's sweep (every tick), and *strong* fairness of `Lock`: PostgreSQL
  queues the waiters of a row lock, so a door is not passed over for ever.
  The number of runs is bounded, so no endless stream of starts can keep a
  hand-off waiting; in the code it could.
* `OrgRuns!Fairness`: weak fairness of the executor with its engines, which end,
  and of a cancel that has begun. Nobody has to approve, so `TeamEnds` speaks of
  a dispatch: parked for a person is an end.
* `ReviewLoop!Fairness`: weak fairness of the live run, of the checks, of each
  task of an ended run, and of a door that has been opened.
* `Landing!Fairness`: weak fairness of each process's next step; the sweep's
  comes with every tick.
* `Previews!Fairness`: weak fairness of the build tasks alone; requests and the
  idle sweep may stop anywhere.
* `Manager!Fairness`: weak fairness of the tick and the pass it carries, of time
  (the cooldown ends, midnight comes), and of the end of a turn. No person's
  message and no call of a model has to go on. A pause that is never lifted keeps
  news for ever, so `NewsIsHeard` ends with it.
* `Claims!Fairness`: weak fairness of the claim's statements, of the runs, which
  start and end, of the rest, and of the windows, which turn. *Strong* fairness of
  `Pick`, for each run: a pass asks up to eight candidates, and one that is ready
  but locked, or behind another, is not passed over for ever with so few; and of a
  cancel that waits for a row lock, which PostgreSQL hands to who waits. Nobody has
  to edit a budget, nor to finish editing one.

## Findings

Two listed runs end in a counterexample; `PROJECT.json` quotes the lines each
contradicts.

`cards_unheard`: `stream_run` writes `running` and registers its stream in two
steps (`core/runs/orchestrator.rs:4689`). A cancel in between finds no stream, so
`cancel_idle` finishes the run, and its `finish` forgets that a stop was asked for
before the stream registers. The engine works on under a run that reads canceled,
and the next start finds the card free and puts a second engine in its worktree.
A resume has no part in it.

`review_unjudged`: `last_work` (`core/review.rs:71`) counts completed runs only.
A run that starts after the approval, edits the worktree and then fails or is
canceled is no newer work, the gate calls the old approval good, and Merge
commits whatever is in the worktree, without an override.

The by-hand configurations above show others against a comment of the code:
`MCManagerRaces` (`core/manager.rs:17`, "the model cannot talk its way past it",
and `core/routines.rs:349`, on two concurrent turns), `MCPreviewBoxes`
(`core/previews/mod.rs:19`) and `MCPreviewStuck` (`core/previews/mod.rs:1115`).

Seen while modelling, and allowed for by the properties:

* *Review*: a restart in the middle of a review ends it without the verdict that
  the code records when a reviewer says nothing. Merge and Retry look for a live
  run once and act later, and what Retry looks for (`run_is_active`) leaves out a
  plan that waits for its yes and older attempts: it drops the worktree and is
  then refused by the start, or the approved run works in a directory that is
  gone. The post-work of a run may write the column after Merge
  has filed the card as done.
* *Landing*: a waiter is lost when a run's end reads what it waits for, the
  blocker lands, and the card is then filed back in the backlog. A start queues
  the run and writes In Progress after it, so a run that fails at once leaves the
  card there. A crash after the mark forgets who is still to be told; a restart
  leaves cards In Progress with no run.
* *Previews*: a stop settles every row of a card and removes one box. The limit
  of cards does not count base previews. A launch that fails leaves its image. An
  older reader's question about a replaced container drops the image of the new
  one.
* *Manager*: runs that `recover_orphans` fails are no news. A heartbeat's wake
  that is raised between the beat of the timer and the consume is dropped with
  it. `enqueue_chat_turn` inserts the run and its queue row in two statements;
  the boot repairs what a crash leaves.
* *Claims*: `check_claim` reads on a connection of its own, so what
  `release_held` lets go of is only what is held already: a run that is about to
  be held waits out the window. `remove` and `set_daily_cap(None)` release first
  and delete after: a claim in between holds the run again, and the delete clears
  `held_by` and leaves `not_before`. A stamped run that comes back is counted one
  less even when its first start was in another window and nothing of it is in
  the count. A claimed `rate_limited` run is in nobody's load until `execute`.
  Taking off an agent's limits releases nothing. A claim takes the queue row and
  then the run, `finish` the run and then the row: PostgreSQL aborts one of the
  two.
* *Pool*, read and not modelled: there are eight connections (`core/db.rs:13`),
  `enqueue_task` and `enqueue_follow_up` hold one in a transaction and ask for
  another, and so does `claim_next`: eight at once wait until the acquire times
  out.
* *Reaper* and *asks*, read and not modelled: a run that was marked silent and
  then canceled by a person keeps the mark, and may be resumed; an answer that is
  recorded before a crash is not followed by its run.

## Proofs

| Theorem | States | Assumes |
|---|---|---|
| `PermissionBrokerProofs!TypeCorrect`, `SlotsAreConserved`, `RefcountIsExact`, `LoansHaveQuestions`, `OneQuestionParks`, `EndingsAreFinal` | the broker's safety properties | finite sets of runs and requests |
| `PermissionBrokerProofs!RefinesBudget` | `Spec` implements `SlotBudget` | same |
| `PermissionBrokerProofs!OnlyHangUpsStrand`, `GoneNeedsLags` | `OnlyHangUpStrands`, `GoneNeedsALag`: who may leave a run parked, and who is told wrongly that its run is gone | same: hang-ups and late unparks included |
| `RunLifecycleProofs!TypeCorrect`, `WaitingRunsComeBack` | types, `ComesBack` | nothing more |
| `RunLifecycleProofs!OneEngineButForHolds`, `EndingsAreLeftToHolds` | `OneEngineUnlessOverrun`, `OnlyHoldsRevive` | nothing more: any number of holds, whose rows may ripen at any time |
| `RunLifecycleProofs!PromiseIsKept` | `Spec` implements `RunPromise` | nothing more |
| `CardStartsProofs!TypeCorrect`, `HandoffsWait` | types, `HandoffWaits`, every door included | nothing more |
| `CardStartsProofs!OneRunUnlessResumed`, `OneEngineButForUnheard` | `OneLiveRun`, `OneEngineUnlessUnheard` | nothing more; both say nothing once a resume has added a run |
| `WorkProofs!ClaimsTypeCorrect`, `CapsAreKept`, `HoldsAreSpent`, `LimitsAreKept` | `Claims`' types, `CapKept`, `HeldIsSpent`, `LimitsKept` | a finite set of runs; limits that are not zero |
| `WorkProofs!TypeCorrect`, `TeamsWorkApart`, `TeamsSettle`, `BoardsFollow`, `TeamsWait`, `TeamsFinishTheirWork` | types, `WorkIsDisjoint`, `StepsSettle`, `BoardFollows`, `DependentsWait`, `NothingSweptAway` | plans that `inspect_plan` lets through |
| `ReviewLoopProofs!TypeCorrect`, `ApprovalsStand`, `MergesLandJudgedWork` | types, `ApprovalStands`, `MergeLandsJudgedWork` | nothing more |
| `LandingProofs!TypeCorrect`, `RingsNeedARace`, `InProgressMeansWork` | types, `LoopsNeedARace`, `InProgressIsAtWork` | first dependencies in no ring |
| `PreviewsProofs!TypeCorrect`, `BoxesAreKnown`, `LimitsNeedARace` | types, `BoxesAreClaimed`, `LimitNeedsARace` | finite sets of cards and doors |
| `ManagerProofs!TypeCorrect`, `CapsAreKept`, `NewsAreRead` | types, `CapKept`, `NewsIsRead` | a finite set of calls |

The assumptions on constants are the `ASSUME`s of each module, and TLC evaluates
them in the runs.

**Broker.** `SlotConservation` is not inductive: that a drop of the last guard
gives back what was lent needs the refcount to be right (`RefcountIsGuards`),
that a loan has exactly one lender (`ParksAlone`), that a guard's owner is a
run (`GuardedIsOwned`) and that a queued run holds no permit (`QueuedIsIdle`).
The conjunction `IInv` is. The accounting is done once: `NextMovesSlots` says how
every step moves permits, loans and debt, in terms of cardinalities, and
conservation and the refinement both follow from it. `OnlyHangUpStrands` is about
a parked run's cover (`Covered`): it has lent, a guard of its is about to, or an
unpark is on its way. Each kind of step is shown to keep a covered run covered:
the last guard of a run that has lent spawns an unpark, and the guard about to lend
is not the one that leaves, unless its client hangs up. `park` refuses only a run
that does not read running, and such a run, while it streams, is ended, covered by
an unpark on its way, or stranded (`GoneNeedsALag`).

**Lifecycle.** `ComesBack` needs what `finish` is called with to be an ending
(`EndingsAreEndings`), or a finish could write `rate_limited` and delete the row.
For the one engine, most steps are *quiet*: statuses move within work, into a
hold or into an ending, no worker becomes active, and `overrun` stays. A worker
becomes active only in `Execute`, whose guarded UPDATE finds the run waiting. Were
somebody active for it, the run would read at work, held or ended
(`ActiveIsWorking`), so it is held, and `Execute` puts it in `overrun`; what is not
there has one active worker (`OneActive`). The refinement maps `overrun` to
`doubled`: while a run is not in it, a status written by its one worker is the
phase's own move, and `HeldIsCounted` ties what reads held to the holds there
were.

**Claims.** `CInv` is the three properties and four parts more. `Handed`: what
executes has no row, and what was handed out is stamped or known to be back from
a rate limit. `BudgetRoom`: what has begun in a window is among what the window counts,
and a run about to be stamped has room in every budget it has asked; the look and
the stamp are several statements apart, and an edit between them leaves room for the
one that is under way. `Waits`: what a claim has read of a budget still stands, or
the release that follows every change is still to come, or has come and passed it
over (`lost`). `HeldIsSpent` needs it because a budget's standing never falls but
by a step that releases what it holds (`SpentStands`). `Fits`: a run that has
passed its agent's limits still fits in them when it is handed out, since nobody
else claims and no run begins unclaimed. Counting is by cardinalities of sets of
runs, which grow by the one run the step is about (`OneMore`, `Grows`).

**Cards.** `CInv` relates a run's row, its status and its task: a row belongs to
an idle run, a streaming run is `working` (a stop signals it and `finish` writes
the ending) unless it is `unheard`, and a run a door has read exists. An ending is never taken back, so
what `any_live` saw still holds at the claim. `OInv` adds that the lock is held
exactly while checking and inserting, and, until a resume has added a run, that
no run is live while a door inserts: runs and people only end or continue live
runs (`RunsOnly`), and another insert would hold the same lock.

**Teams.** `OInv` says that what is left of a batch and what is at work are apart
pairwise, and wait for nothing that is queued or at work (`BatchIsSafe`), that a
row at work has a turn under it (`RowsHaveTurns`), that the executor's place, the
run's status and what is left of the plan go together (`PlacesAgree`), that what
failed keeps its row and its second attempt comes once (`FailuresStay`), and that
a card agrees with its row or one of the two writers is still to mirror it
(`CardsAgree`). `WorkIsDisjoint` and `DependentsWait` both follow from
`BatchIsSafe`, `NothingSweptAway` from `PlacesAgree`.

**Review.** `RInv` has two parts beside the types: a verdict that covers the work
leaves nothing unjudged but what was cut short, or somebody works
(`VerdictsCover`), and a Merge that found no live run finds none until a run is
inserted (`DoorsLooked`). Nothing is proved of the worktree that Retry drops.

**Landing.** `LInv` says of each process that it has the card its place is about
(`PcGood`), and, for the rings, that until two declarations have overlapped there
is none, and the one edge that may be about to be inserted closes none
(`Declared`). A ring is a set of cards each of which waits within it, so nothing
needs an induction over paths.

**Previews.** `PInv` adds to the property what a row, its box and its task have to
do with each other (`Shape`: a task works on a row that builds or was stopped
meanwhile, and has no box up before it runs one) and that a wake's row is of its
owner and has neither task nor stack (`Wakers`). The limit is proved by a
narrowing: the cards alive and the owner of the one start that is past the check
(`Busy`, `Pending`) are at most the limit, and every step but a start's first
adds to neither (`Narrows`).

**Manager.** `CapInv`: a call past the pass is its own turn's unless excused
(`OwnPass`), starts made plus calls between their record and their start are at
most the starts recorded, and those are at most the cap, and below it while a
call is between the count and the record (`Within`). `NewsInv`: what a door has read it will
carry to the last raise, or it has been carried, or the card was raised again
since.

Only model-checked: everything under fairness (`QueueNotFrozen`,
`EveryRunSettles`, `HandoffSettles`, `TeamEnds`, `ReviewComes`, `WaitersAreTold`,
`BuildsEnd`, `NewsIsHeard`, `EveryRowLeaves`: the prover has no `ENABLED` and no
rule for fairness).

## What is left

In this order:

1. `Reaper`: silence, parks and auto-resume; composes with `PermissionBroker`.
2. `Decisions` and asks: claim, effect, outcome, crash; at most one effect.
3. The pool of eight connections that the locked doors use twice each
   (`core/db.rs:13`), beside the doors of `CardStarts`.
4. The sweep of leftovers beside a start; the trees of the org chart and of the
   goals; the replay of events.

## Not modelled

* Engine adapters' parsing, prompt building, attachments, the report and its
  memory, rendering and sanitizing: text.
* Repository indexing, search, the graph, apps' manifests and expressions: batch
  data transformation, with nothing that runs beside it on the same state.
* Docker and git commands, GitHub and storage clients, local models: outside
  services. Previews take Docker by what the code asks of it.
* Of budgets: dollars and tokens, which are compared as runs are, warnings,
  forecasts, and the door's own refusal (see `Claims`).
* CRUD routes, access, audit and the dashboard: no protocol of their own.
* Bake-offs, whose runs have checkouts of their own, workflows, and the kinds of
  routine other than the manager's.

`PROJECT.json` gives the reason per component.
