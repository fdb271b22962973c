# Communication health checker: TLA+ model

A verification development for the desktop application in this repository: a
FastAPI process that pings a list of targets, once or on a schedule, stores the
results in SQLite and streams them to a browser. Paths below are relative to the
repository; `periodic_ping_service.py` and the like are found under
`src/communication_health_checker/`.

## 1. The system

### Components

| Component | State | Operations | Modelled by |
|---|---|---|---|
| Scheduled ping service (`application/services/periodic_ping_service.py`, schedule routes of `apps/desktop/routers/ping.py`) | `_task`, `_running`, `_mode`, `_target_ids`, `_max_cycles`, `_completed`; one asyncio task per schedule; cycles on executor threads | `start_periodic`, `start_repeat`, `stop`, `stop_all`, `status`, `_loop` | `PeriodicPing`, `PeriodicPingFifo`, `PingSchedule`, `ScheduleRequests`, `PeriodicPingContract`, `PeriodicPingProofs` |
| Targets, logs and SQLite (`infrastructure/repositories/sqlite/*`, `application/use_cases/*`, `apps/desktop/routers/targets.py`) | tables `targets` and `ping_logs`, one connection and its open transaction, one lock | create, update, delete, delete all, list, get, logs; `PingTargetsUseCase.execute` | `PingStore`, `PingStoreProofs` |
| Event bus and WebSocket stream (`infrastructure/adapters/in_memory_ping_event_bus.py`, `apps/desktop/routers/ws.py`) | a set of bounded queues; per connection two pending asyncio tasks | `subscribe`, `unsubscribe`, `publish`; accept, greet, forward, disconnect | `PingStream`, `LiveFeed`, `PingStreamProofs` |
| Launch and single instance (`apps/desktop/instance.py`, `main.py`, `routers/system.py`) | `instance.json`, listening ports | search, choose a port, write and clear the record, serve, shut down | `SingleInstance`, `SingleInstanceProofs` |
| Ping command and parsing (`infrastructure/adapters/subprocess_ping_adapter.py`, `_build_response` of `ping_targets_use_case.py`) | none | run a command under a timeout, parse it, aggregate | `PingProbe`, `PingProbeProofs` |
| Domain model (`domain/models/target/*`) | values | validation | host rule planned |
| Dashboard (the page of that name in the pre-built bundle `statics/assets/index-*.js`) | one WebSocket, a reconnection timer, the calls under way, the schedule shown | mount, unmount, connect, reconnect; start, stop, ask for the status | `Dashboard`, `DashboardProofs` |
| Mock service worker (`statics/mockServiceWorker.js`) | `activeClientIds`, the registration, requests and messages being handled | install, activate, messages, fetch | `MockWorker`, `MockWorkerProofs` |
| Application assembly (`apps/desktop/app.py`, `modules/desktop_module.py`) | singletons, lifespan | build, stop the schedule at shutdown | not modelled |
| DTOs, converters, mappers; the rest of the bundle; build scripts | none | copies, layout, packaging | not modelled |

### How they interact

- An HTTP route is an `async def`. The schedule routes await the service; all other
  routes call synchronous use cases *on the event-loop thread*, so they never
  interleave with one another, and a one-shot run (`POST /ping/run`) blocks the loop
  for as long as its pings take. (`docs/architecture.md:114` says FastAPI runs
  synchronous use cases on a thread pool; it does so for `def` routes only.)
- A schedule's loop hands each cycle to the default executor with
  `asyncio.to_thread`. Cancelling the loop abandons the cycle; it does not stop the
  thread. The cycle goes on pinging and writing logs beside whatever comes next.
- Cycles and routes share one SQLite connection behind `Database`'s lock, held for
  one repository method at a time.
- The loop publishes results and status changes on the bus; `publish` puts without
  waiting; each WebSocket handler takes from its own queue.
- A browser tab learns the schedule from two sides: from the answers of its calls and
  from the status events on its WebSocket. It shows whichever came last.
- The mock service worker is the one that the library MSW generates (2.14.6) for
  development. It is served with the static files, but in the bundle of this
  repository the function that would register it is empty. The page's half of its
  protocol is therefore external, and may do whatever the worker's handlers admit.
- Processes on one machine share only `instance.json` and TCP ports.

### What is hard, and what makes each component correct

- **Service.** `stop()` awaits the loop it cancels and writes to the service's
  attributes after the await; the counter and the target list belong to the service
  and not to the loop; a task may be cancelled before its first step, in which case
  its `finally` never runs. Correct: at most one loop; `status()` true; `stop()`
  reaches and ends the loop; a repeat schedule sends exactly `count` cycles;
  subscribers are told of every end; `stop()` is always answered.
- **Store.** Use cases are several transactions; `save()` is an upsert after a
  separate find; a failed commit leaves its statements in the open transaction.
  Correct: acknowledged creations last, acknowledged deletions do not come back, a
  result is reported only once logged, a deleted target is not pinged again.
- **Stream.** Events are published between subscribing and the first send; queues
  are bounded. Correct: no gap, repetition or reordering while a queue has room, a
  client that has caught up knows the current schedule, every event is delivered.
- **Dashboard.** Unmounting races with the socket's close event and the reconnection
  timer; buttons are not disabled while a call is under way; an answer may be older
  than an event already shown. Correct: one chain of sockets, whatever the order; the
  schedule shown is the one `status()` reports, except after an answer that was
  overtaken, or a `stop()` that tells nobody.
- **Mock service worker.** Its handlers are suspended at every await, and read the set
  of active clients before and after; clients close, crash or never answer; the
  browser terminates the worker and its variables with it. Correct: a page that was
  told mocking is enabled is asked about each of its requests; a page that was asked
  is told the response; the worker does not unregister over a client that was there from
  `CLIENT_CLOSED` on; a request ends unless the page it was put to leaves.
- **Ping command.** Answers arrive late, twice or out of order among other lines; the
  figures are rounded. Correct: the packets reported received are those answered.
- **Single instance.** Check-then-act on ports and on a file, stale records after a
  kill, a health check with a timeout, and file operations whose failure is ignored.
  Correct: one server, one that the next launch can find, and a launch that always leads
  to a server.

The hazards, each at its line and with the properties aimed at it, are listed in
`PROJECT.json`.

## 2. Modules

| Module | Role |
|---|---|
| `PeriodicPing` | the service on the event loop: handlers, loop tasks, executor threads, timers |
| `PeriodicPingFifo` | the same under asyncio's first-in first-out ready queue |
| `PingSchedule` | abstract contract of the service for requests made one at a time |
| `ScheduleRequests` | abstract contract of the service for requests that overlap |
| `PeriodicPingContract` | the refinement mappings from `PeriodicPing` to the two contracts |
| `PeriodicPingProofs` | theorems about `PeriodicPing`, the refinements and `PeriodicPingFifo` |
| `PingStore` | SQLite, the REST use cases and the cycles |
| `PingStoreProofs` | theorems about `PingStore` |
| `PingStream` | bus and WebSocket handlers, with `PingSchedule` as the publisher |
| `PingStreamProofs` | theorems about `PingStream`, and that it implements `LiveFeed` |
| `LiveFeed` | abstract promise of the stream to its clients |
| `Dashboard` | one browser tab, with `LiveFeed` as the stream and `ScheduleRequests` as the service |
| `DashboardProofs` | theorems about `Dashboard` |
| `MockWorker` | the mock service worker, its clients and the browser |
| `MockWorkerProofs` | theorems about `MockWorker` |
| `SingleInstance` | launches, the record and the ports |
| `SingleInstanceProofs` | theorems about `SingleInstance` |
| `PingProbe` | one ping command, its parsing and the figures reported |
| `PingProbeProofs` | theorems about `PingProbe` |
| `Subsequences`, `SubsequencesProofs` | `Only(s, S)`, the elements of a sequence that are in a set, and what it returns |
| `MC*` | what TLC runs: the modules above with the constants their configurations need |

Within a module, a definition preceded by `\* Mutant:` is a plausible bug: the next
definition as it would be with that bug. The specification does not use it; each
property is broken by at least one of them (`PROJECT.json`, "mutants").

### PeriodicPing

A coroutine runs without interruption between two suspension points, so each such
stretch is one action.

| Code | Model |
|---|---|
| `stop()` up to `await self._task` | `StopAwaits` (cancel, then wait) |
| the rest of `stop()` | `StopReturns`, and the first half of `StartReturns` |
| `_start()` after `await self.stop()` | the rest of `StartReturns`: `Configure`, a new task, `PublishStatus` |
| `_loop()` up to its first await | `LoopBegins` |
| after `to_thread` returns: publish, count, `break` or sleep | `CycleEnds` |
| `execute()` raises | `CycleRaises` |
| `CancelledError` at an await / before the first step | `Cancelled` / `CancelledUnbegun` |
| the `finally` clause | `Finally` |
| executor threads, `asyncio.sleep` | `WorkerStarts`, `WorkerEnds`, `TimerFires` |

`task`, `running`, `cfg`, `completed` are the service's attributes (`cfg` holds
`_target_ids` and `_max_cycles`; `_mode` is determined by the latter). `told` is the
`running` field of the last status published. `pings` is a history variable: the
cycles a task itself has completed, against which the shared counter is compared. A
task slot is used again once the task is finished, its thread has returned and no
handler holds it, as memory is. In `PeriodicPing` any runnable coroutine may run
next, which allows more behaviours than asyncio; what holds there holds under every
scheduling. `PeriodicPingFifo` adds the ready queue, so that a counterexample found
there is one asyncio itself can produce, and so that properties that rely on the
order (a task created runs before a request that arrives later) can be checked.

### PingSchedule, ScheduleRequests and the refinements

`PingSchedule` has no tasks or threads: one `active` schedule, `sent` cycles, and
`Start`, `Halt`, `Send`, `Finish`. `PeriodicPingContract` maps `active` to `cfg` and
`sent` to `completed` while a loop is alive. `ContractSpec` is checked by TLC and
proved. `PingStream` then uses `PingSchedule` in place of the service.

The events `PingStream` attaches to the contract's steps go beyond the contract
itself: that a start, an end and a cycle each publish, and publish the current state,
is `StreamTruthful` and `EndAnnounced` of run `ping_serial`. Both rest on one request
at a time; with overlapping requests they fail (see Findings), and `PingStream` says
nothing of that case.

`ScheduleRequests` promises less, to any number of requests: it keeps of the service
`active` (what `status()` reports), `told`, `_task` and where each handler and each loop
stands, and leaves out cycles, counters, threads and timers. A `stop()` that resumes
clears whatever is active by then and publishes nothing (`Stops`); a start that resumes
begins its loop beside whatever loop another has begun (`Starts`); a loop that ends
clears the status, whoever's it is (`Ends`), and one cancelled before its first step ends
without a word (`Withdraws`). `RequestsSpec` says that `PeriodicPing` implements it, with
`Stage` mapping a loop's place to the four it tells apart; TLC checks it with two
overlapping requests, and a theorem proves it for any number. `Dashboard` uses it in
place of the service.

### PingStore

A repository method is one action, since it holds the lock from its first statement
to its commit; use cases are sequences of methods, their progress kept in `at`. `db`
is what the connection sees, `disk` what is committed. `Raises` gives an operation
that fails its possible effects: none, the statement left in the open transaction, or
the transaction given up by SQLite; `Database.cursor()` never rolls back. `Crash`
discards what is not committed. `RestFree` says that REST use cases run on the
event-loop thread. Attributes of a target other than its existence, and of a log
other than its row id, target and `sent_at`, are left out. The histories `kept`,
`gone` and `wiped` record what a client has been told.

### PingStream

`conn` follows `ws.py`: accept, subscribe and read the status, first send
(`Greets`/`GreetingFails`), then take and forward until a disconnect. Events are
numbered in the order published, so that "missed", "repeated" and "reordered" can be
said. A cycle's results are published together, without an await between them: one
event stands for them.

### LiveFeed and Dashboard

`LiveFeed` keeps of the stream what a tab needs: the active schedule, who is linked,
the statuses each link is still due, and who may have missed one because there was no
room. `KeepsFeed` says that `PingStream` implements it, which TLC checks and a theorem
proves: `due` is the statuses among
the event a handler holds and those in its queue, and `Room` is the queue's bound and
one more, for the event held.

`Dashboard` extends `LiveFeed` with the service of `ScheduleRequests`, which decides when
a status is published, and with the tab, translated from the component that opens
the socket and the one that draws the dashboard:

| Code | Model |
|---|---|
| the effect of mounting: connect, ask for the status | `Mounts` |
| its cleanup: a flag, `clearTimeout`, `close()` | `Unmounts`, which makes the socket an `orphan` |
| `onclose`: nothing if the flag is set, otherwise a timer | `Closes`, `Retries` |
| the timer: connect again | `Reopens` |
| `onmessage` with a status | `Feeds`; a socket being closed delivers nothing (`Hears`) |
| a click on start or stop, here or in another tab | `Clicks`, `Elsewhere` |
| the rest of the service's handlers and loops | `Proceeds`, `Ends` |
| the route answers with `status()` | `Stops`, `Starts`, `Reads` (`Answers`) |
| the answer is shown, or the call fails | `Shows`, `Fails` |

Requests of one tab or of several are under way together and resume in any order, so
that an answer says what `status()` is when its own request resumes: a stop that resumes
after an overlapping start clears the new schedule and answers "not running". The
history `overtaken` says that what is shown was taken from an answer that a turn had
made old. `ShownCurrent` is about tabs that have been brought everything there is; it
has three exceptions, each something the code does: an answer overtaken, a status
dropped for want of room (`gaps`), and a last status published that is not the current
one (`told`), because a `stop()` cleared the schedule in silence or a loop ended
unannounced.

`LiveFeed` has two ways to publish: `Turn`, for a publisher whose every status is a
turn, which is what `PingStream` is shown to implement; and its part `Tells`, which
publishes the status the service reports by then and which `Dashboard` combines with the
steps of the service that publish.

### MockWorker

Each handler is cut at its awaits. A run of the message handler is a record in
`handling` that goes from `getting` (`clients.get()`) to `listing` (`matchAll()`) to
`ready`; a request goes from `getting` to perhaps `matching` (`resolveMainClient`), then
to `serializing` and `asked`, or to `fetching`, and to `reporting` (the second read of
the body, before `RESPONSE` is sent). What a client is at, open, closing (it has sent
`CLIENT_CLOSED`), closed or gone without a word, is the browser's, as are the
registration's phases and `controlled`. Which visible client `matchAll()` yields first
is left open. The histories are `enabled`, the clients that were sent
`MOCKING_ENABLED` by this incarnation of the worker; `due`, whether a request's issuer
was one of them when it made it; `asked`; and `present`, who was there when
`CLIENT_CLOSED` came.

### SingleInstance

`main()` as steps: read the record (`Launch`), probe the candidates (`Finds`,
`Misses`), `Chooses`, `Writes`, `Binds`, `Stops`, `Clears`, and `Dies` at any point.
`Foreign` ports belong to other programs; `blocked` servers are inside a one-shot run
and do not answer the health check in time. `MayOverlap = FALSE` lets a process
launch or stop only when no other is between two steps; `MayFail` lets the operating
system refuse to read, write or remove the record, which the code ignores: a write that
fails leaves the file as it was or cut short, and the server runs `unrecorded`. The
history `disturbed` remembers what makes a second server possible: that a process
launched or stopped while another was between two steps, that a blocked server was taken
for dead, or that a launch went without the record of a server that is not on the default
port, because the record could not be read, was written over or was never written
(`Astray`). The two safety properties are about the behaviours where none of these
happened; a write that failed for a server on the default port, a record that was cut
short and one that could not be removed are no excuse. A launch
with `COMMUNICATION_HEALTH_CHECKER_FORCE_NEW` (`LaunchForced`) skips the search; beside
another process it counts as a disturbance, since a second server is what it asks for.

### PingProbe

The ping command is an external process that prints a line for every answer, in any
order, perhaps some twice, and lines that are not answers. It ends by itself
(`Exits`), or `subprocess.run` kills it or cannot run it (`Fails`, every probe failed).
`Parsed` is `parse_ping_output`, which numbers the answers in the order printed, and
`Responds` is `_build_response`. Rounding is to a nearest value, either of two at a
tie, since a tie depends on the binary fraction. Every route sends one packet a cycle;
the model has the counts that `PingRunRequest` admits.

## 3. Runs

| Run | What it asks | Answer |
|---|---|---|
| `ping_serial` | one request at a time, asyncio's order: type invariant, true status and true last event, the loop's own targets, exact counts, effective stops, ends announced, `PingSchedule` implemented, repeat schedules end, queued cycles get a thread | holds |
| `ping_overlap` | two requests together, any scheduling: no `running` without a loop beyond a pending `stop()`, every stop answered, `ScheduleRequests` implemented | holds |
| `overlap_single_loop` | two requests together, asyncio's order: one loop at a time | violated |
| `store_faults` | REST on the event loop, one cycle on a thread, failures and crashes: what clients were told stays true | holds |
| `store_orphans` | deleting a target deletes its logs | violated |
| `stream` | nothing missed, caught-up clients know the schedule, every event is delivered, `LiveFeed` is implemented | holds |
| `dashboard` | a tab that mounts, unmounts and loses its socket, requests of its own and of other tabs: one chain of sockets, the current schedule shown once everything has been brought unless overtaken, served again after a drop | holds |
| `dashboard_overlap` | two requests that overlap in the service: the same of the schedule shown | holds |
| `mock_worker` | a page and a frame that activate, request, close and crash, a worker that is restarted: no request slips through, the page asked is told, unregistering alone, requests end | holds |
| `instance` | launches, also forced ones, exits, kills, blocked servers and refused file operations in any order: one server, findable, unless disturbed; a launch leads to a server | holds |
| `instance_blocked` | a blocked server and a launch: one server | violated |
| `ping_probe` | received packets are answered ones, rounding hides no loss, the average is in range | holds |

The safety properties of `ping_serial` other than `StreamTruthful` and `EndAnnounced`
do not depend on asyncio's order: the theorems of section 5 are about `PeriodicPing`
itself.

### Bounds

- **`Handler`**: one slot is one request in progress at a time (the same slot serves
  any number one after another); two give every pairwise overlap. **`Task`**: three
  slots are a live loop, a cancelled one whose thread still runs, and a free one; with
  two requests together two slots already give two live loops, and the violated runs
  have four. When every slot is taken `StartReturns` waits, which the code would not;
  slots are freed as threads end. **`PoolSize` = 1** is the executor at its limit at
  once.
- **`Counts`, `CycleCap`**: repeat counts 1 and 2 are a first cycle that is the last
  and one that is not. Counters saturate at `CycleCap`, which is at least every
  count, so no comparison is affected.
- **`MaxTime` = 1, `MaxLogs` = 2**: two clock readings tell earlier from later; cycles
  begin only while fewer than two rows were ever logged, but finish what they began.
  Two targets, selections of one or both; `Thread` is the event loop and one worker.
- **`QueueMax` = 2, `MaxEvents` = 4 or 6**: a queue that fills, overflows and drains,
  in place of the code's 1000 entries; publishing stops at `MaxEvents`. `Flaky` clients may vanish
  during the handshake; one client is not flaky, so that the bound on events is never
  taken for a deadlock.
- **`Proc`**: three processes, each launched any number of times (two in the violated
  runs); three ports, so that two can be held besides the foreign one.
- **`Room` = 1, `Conn` of two, `MaxDrops` = 1** of `dashboard`: a client one status
  behind is at its limit; two connections are the old socket and the new one; one drop
  by the network besides any number of unmounts. `Handler` and `Task` have one slot there
  and two in `dashboard_overlap`, where two requests are two clicks, or a click here and
  one elsewhere, and two loops are what a start that resumes late leaves; that run has
  one connection and no drops, which have no part in what overlapping requests do. The
  question for the status (`Poll`) is beside them in every run. One schedule, so that
  "running" and "not running" are told apart, as the page does.
- **`PageAndFrame`**: a page that sends every message and a frame that activates mocking
  but never says it closes; one request at a time, any number one after another. Two
  clients are what each condition on "another client" needs. Runs of `mock_worker` may
  end with all clients gone, so deadlock is not checked there.
- **`Counts`** of `ping_probe`: one to three packets, one duplicate or other line
  (`MaxExtra`), three times of which two are adjacent, so that averages are rounded.
- **`Faults`, `MayOverlap`, `MayForce`, `MayBlock`, `MayFail`** switch a class of behaviours on or off, so
  that a violation shows which it needs.

### Fairness

- `PeriodicPing`: asyncio runs every ready callback (`HandlerStep`, `LoopStep`; in
  `PeriodicPingFifo` the head of the queue, `RunHead`), every
  timer expires, and a cycle takes a free thread and ends because each ping process is
  killed at its overall timeout (`subprocess_ping_adapter.py`). Weak fairness suffices:
  a ready coroutine stays ready until it runs. No client is obliged to send a request.
- `PingStream`: `WF(Serves(c))`: a client that stays connected reads what it is sent. A
  client that stops reading without disconnecting is outside `Delivered`; that its
  queue overflows meanwhile is covered by the invariants.
- `Dashboard`: the server serves a connected client (`Feeds`), the browser reports a
  socket that closed (`Closes`) and fires its timer (`Reopens`), and the server finds a
  dead connection (`Loses`, by the protocol's keep-alive). No call need be answered.
- `MockWorker`: the browser settles the promises it is asked for (`HandlesOf`,
  `Proceeds`), and a page that has activated mocking answers while it is open
  (`ClientAnswers`), which the library in it does. No client is obliged to open, speak
  or close.
- `SingleInstance`: `WF(Steps(p))`: a launched process runs on unless it is killed.
- `PingStore`: no liveness is stated.

## 4. Findings

1. **Two loops** (`overlap_single_loop`). Two starts await the same dying loop; both
   then create a task. The class says only one runs at a time. For the same reason a
   `stop()` that resumes after an overlapping start clears `_task` and `_running` of
   the new loop, which then pings on while `status()` denies it, and publishes nothing.
2. **Logs of a deleted target** (`store_orphans`). A cycle that had resolved the target
   writes its log after the deletion.
3. **A second server** (`instance_blocked`). A one-shot run blocks the event loop
   longer than the health check waits.

More observations, each a behaviour of the models that no run is devoted to:

- A task cancelled before its first step never enters the `try` (`CancelledUnbegun`), so
  that with overlapping requests its end is not published, against the comment at
  `periodic_ping_service.py:97`. One request at a time cannot meet it: `EndAnnounced`
  holds in `ping_serial`.
- A full queue drops the newest event and keeps the oldest (`Kept`), against the comment
  at `in_memory_ping_event_bus.py:34`: a slow client may end with a stale status, and
  `ViewTruthful` excepts it.
- Of two launches at the same time the one that loses the port clears the record of the
  other (`Clears`), against `README.md:41`; so does a server that exits after another
  has started. Both are among what `disturbed` records.
- The dashboard shows an answer also when a newer status has already arrived
  (`overtaken`), and shows it until the next turn.
- A server that could not write its record (`Writes`) runs all the same; if it is not
  on the default port, the next launch does not find it and starts another.
- One exception out of `execute()` ends a periodic schedule (`CycleRaises`).
- A ping command killed at the overall timeout has all its packets reported as lost,
  answered ones too (`Fails`; the last conjunct of `ReceivedTrue`).
- Cycles that overlap store their logs out of the order of `sent_at`, while
  `find_by_target` orders by row id.
- The dashboard's buttons stay enabled during a call, so that two clicks are enough for
  the first finding.
- The mock worker drops `CLIENT_CLOSED` from a client that is gone by the time
  `clients.get()` resolves: its id stays active and the registration stays, although no
  client does, against the comment at `mockServiceWorker.js:81`.
- A client that opens after the mock worker has listed its clients loses the
  registration with them; `UnregistersAlone` speaks of those that were there throughout.
- A request put to a page that closes or crashes before it answers never ends;
  `RequestEnds` excepts it.

## 5. Proofs

Every invariant, action property and refinement that a passing run checks is also a
theorem, for every value of the constants that satisfies the named assumptions of the
modules. The assumptions say what kind of value a constant is; four say more.
`SerialClients` (one request at a time) is a hypothesis of the theorems that need it
and of no other; `FifoAssumption` has finitely many slots for handlers and loops, since
a queue that orders them is finite; `Cap` is a number; `Counts` are within 1 to 100, as
`PingRunRequest` validates. The bounds on faults, events, clocks and schedules that the
runs need are arbitrary here. The inductive invariants were first checked by TLC on the
instances of the runs.

| Module | Theorem | Statement |
|---|---|---|
| `PeriodicPingProofs` | `TypeCorrect` | `[]TypeOK` |
| | `OverlapSafe`, `DoomedAwaitedSafe` | `[]NoPhantomRunning`, `[]DoomedAwaited` |
| | `ImplementsRequests` | `RequestsSpec`: the service implements `ScheduleRequests` |
| one request at a time | `SerialSafe` | `[](Reachable /\ StatusTruthful /\ CounterOwned)` |
| | `JobIsConfigSafe` | `[]JobIsConfig` |
| | `RepeatExact`, `StopEffective` | `ExactCount`, `StopStops` |
| | `Implements` | `ContractSpec`: the service implements `PingSchedule` |
| asyncio's order | `FifoIsPeriodicPing` | `FifoSpec => Spec` |
| both | `StreamTruthfulSafe`, `EndAnnouncedSafe` | `[]StreamTruthful`, `EndAnnounced` |
| `PingStoreProofs` | `TypeCorrect` | `[]TypeOK` |
| | `CreatedStaysSafe`, `DeletedStaysGoneSafe` | `[]CreatedStays`, `[]DeletedStaysGone` |
| | `ReportedIsLoggedSafe` | `[]ReportedIsLogged` |
| | `NotPickedUpAgainSafe` | `NotPickedUpAgain` |
| `PingStreamProofs` | `TypeCorrect` | `[]TypeOK` |
| | `NothingMissedSafe`, `ViewTruthfulSafe` | `[]NothingMissed`, `[]ViewTruthful` |
| | `ImplementsFeed` | `KeepsFeed`: the stream implements `LiveFeed` |
| `DashboardProofs` | `TypeCorrect` | `[]TypeOK` |
| | `OneChainAlways`, `ShownSafe` | `[]OneChain`, `[]ShownCurrent` |
| `MockWorkerProofs` | `TypeCorrect` | `[]TypeOK` |
| | `InterceptionSafe` | `[]EnabledIntercepted` |
| | `AskedIsToldAlways`, `UnregistersAloneAlways` | `AskedIsTold`, `UnregistersAlone` |
| `SingleInstanceProofs` | `TypeCorrect` | `[]TypeOK` |
| | `SingleServerSafe`, `FindableSafe` | `[]SingleUndisturbed`, `[]FindableUndisturbed` |
| `PingProbeProofs` | `TypeCorrect` | `[]TypeOK` |
| | `ReceivedTrueSafe`, `FiguresHonestSafe` | `[]ReceivedTrue`, `[]FiguresHonest` |

### The service

*The overlapping case.* `NoPhantomRunning` is not inductive by itself: a loop
cancelled before its first step ends without clearing `_running`. `DoomedAwaited`
supplies the handler that will: every pending cancellation is awaited by the handler
that asked for it. The two are inductive together over `TypeOK`. The refinement of
`ScheduleRequests` needs no more than `TypeOK`: `HandlerRequests`, `LoopRequests` and
`OutsideRequests` map every step to a step or a stutter, by way of what each step does
to `Stage`.

*The serial case.* Without `SerialClients` two loops may run at once (the first
finding), and what these theorems say of the one loop is not to be had. `SerialInv` adds
three facts to the properties themselves. An awaiting handler awaits `self._task`: so
when it resumes no other loop can be alive (`PassesWhenQuiet`), and `stop()` may clear
the attributes. A live loop implies `running`: with `NoPhantomRunning` this is
`StatusTruthful`. A live repeat loop's counter is below its limit: so `count` is met
with equality, never passed, which gives both `ExactCount` and the guards of the
contract's `Send` and `Finish`. Each action preserves `SerialInv` (`HandlerSerialInv`,
`LoopSerialInv`, `OutsideSerialInv`); `HandlerContract` and `LoopContract` map every
step to a step of `PingSchedule` or to a stutter.

*asyncio's order.* `FifoIsPeriodicPing` carries all of this over to the event loop.
`StreamTruthful` needs the order itself: a loop cancelled before its first step has no
`finally` to publish its end. `FirstStepAhead` says that it cannot happen: a loop that
has not begun is in the ready queue with no handler ahead of it. That is inductive
because callbacks are only ever added at the end, each of them once (`QueueOK`).
`Told` then says that clients were told what `running` is, which each step keeps.

### The store

`Ids` relates the histories to both the connection's tables and the disk, since a
failed commit or a crash may make either the next state. What was created is in both,
what was deleted in neither, and an update that has found its target has not had it
deleted under it, because REST use cases are on one thread (`RestPlace`).
`DeletedStaysGone` alone is not inductive: without the last part the upsert could put
the row back. `Logged` is about a result already counted by a cycle that is still at
work: its log is in the tables *and* on the disk (`Safe`). On the disk alone would not
do, since a later commit writes the tables out. `LogsKept` is the step that
all other actions share: only a delete takes a row from both.

### The stream

`Greeted` says that a handler in its first send holds a status. `Ahead` says of each
client whose queue was never full that its queue continues the last event that left it,
number by number up to the last published (`Consecutive`), and ends its knowledge at
the active schedule (`Tells`); it includes the clients that are still being greeted,
which `NothingMissed` does not mention, because what is published during that send must
be in their queues already. `StreamInv` is these two over `TypeOK`.

For the refinement `ServiceImplements` and `HandlerImplements` take each step to one of
`LiveFeed`. A status published is a `Turn`, missed by the clients whose queues have no
room for all that is published with it: at the end of a repeat schedule a queue with one
place left takes the results and drops the status, and the proof goes through what
`Kept` keeps of one and of two events. A result is `Misses`. Subscribing is `Joins`;
a send that returns is `Receives` if the event is a status, and otherwise, like taking
an event from the queue, nothing; leaving, in either way, is `Leaves`.
The mapping chooses the statuses among the events ahead with `Only`, and
`SubsequencesProofs` says what `Only` returns when a sequence grows at its end or its
beginning. `SelectSeq` would say the same, but its definition is closed to the prover.

### The dashboard

*One chain.* `Chain` says what `OneChain` does with the members of the chain
separated: a mounted dashboard has its socket, or one socket closing that is not an
orphan, or the timer. It is inductive over `TypeOK`.

*The schedule shown.* `ShownCurrent` is about a tab to which nothing is due; a step
that takes the last status off its queue makes it true only if that status was the
last published. `ShownInv` therefore adds `LastDue`, the last status due to a client
without a gap is the last published, unless that is no longer the current one;
`ActiveTold`, a schedule that is active has been told, so that only "not running" is
ever reached in silence; and `AnswersTrue`, an answer that is not old is what `status()`
says. `Current` then follows every step that sets `shown`. `Publications` and
`Unpublished` say what the steps of the service that publish and those that do not do to
the first two.

### The mock worker

`EnabledIntercepted` is about requests under way, but rests on the message handler.
`ClientInv` says that a client that was told stays in the set of active clients until
it says it is closing (`Told`). That is inductive because a run of the handler for
`CLIENT_CLOSED` belongs to a client that has said so, and a run for another message to
one that awaits its answer (`Handled`). `RequestInv` then follows each request from
await to await: until its main client is resolved its issuer is known to be told;
after that it has been put to its issuer, and whoever was asked had been told.
`AskedIsTold` follows from both. For `UnregistersAlone`, `WatchInv` adds that whoever
was there when `CLIENT_CLOSED` came is in the list, once there is one, or has gone.

### Single instance

Both properties are about the behaviours in which nothing was `disturbed`, so
`ServerInv` is a disjunction with that history. `OneAtATime` says that at most one process
is between two steps; `Search`, that one past its search, or on its way out, is beside
no server, and that one still searching has the server's port yet to probe; `Recorded`,
that the server's port is the default or the recorded one, or the server is unrecorded.
Each needs the others: the candidates of a search include the server's port because it
is recorded, or else the launch went `Astray`, and a record lasts because nobody else
wrote or cleared it.

### The ping command

`ProbeInv` counts the reply lines against the packets answered (`Counted`), ties what
`ping_once()` returned to the lines, and the figures to that (`Derived`).
`Percentage` is the arithmetic of the rounded loss: for up to 100 packets one packet is
at least ten tenths of a percent, so rounding reaches neither 0 nor 1000 from inside.
The assumption on `Counts` is what makes it true. `SumBetween` bounds the community
modules' `SumFunction`, by induction on the size of the set, and `NearestBetween` keeps
the rounded average between the same numbers.

The library's induction theorems take an operator as a parameter, which the provers
cannot instantiate. `Induction` in `SubsequencesProofs` is induction for a set, from
the library's well-founded ordering of finite sets; the lemmas on `Only`, on sums and on
the least and the greatest of a set rest on it.

### Only model-checked

Liveness (`StopAnswered`, `RepeatEnds`, `QueuedCycleStarts`, `Delivered`,
`Reconnected`, `RequestEnds`, `LaunchServed`), because the prover handles neither
fairness nor `ENABLED`; and the three violations, which are single counterexamples.

## 6. Not modelled

- Field-by-field copies (DTOs, converters, mappers), packaging.
- The application assembly: it wires the parts and keeps no state. Its lifespan hook is
  one more `stop()`, made when no request is in progress; `StopStops` says what it does.
- Of the bundle, the page of targets, the application shell with its shutdown button,
  one-shot runs and the results and histories shown; and the React and MUI libraries.
- The growth of the reconnection delay: a timer fires eventually.
- Requests of pages that the mock worker does not control (a forced reload), a second
  registration, and what the pages' half of its protocol does with what it is sent.
- The browser thread of a launch; redirection of the standard streams; the delay of the
  shutdown route.
- The interval between cycles: a timer fires eventually; no property depends on when.
- Order of `find_all()`, and the updating of a target's attributes.

## 7. Plan

In order:

1. That the steps of the service in `PingStream` are those of `PeriodicPingFifo` under
   one request at a time: the start, the end and the cycle of a schedule publish what
   `Turns`, `Sends` and `Finishes` put on the bus. So far the link is `Implements`,
   `StreamTruthfulSafe` and `EndAnnouncedSafe` together.
2. The safety halves of the liveness properties, as far as they are invariants: that a
   queued cycle has a thread ahead of it, and that a waiting `stop()` waits for a task
   that will be run.
3. The rule for hosts as a pure definition.
