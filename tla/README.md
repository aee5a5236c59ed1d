# A verification project for maas-box

maas-box is the backend of a video surveillance system. A Go server (`src/internal/server`)
keeps its rows in SQLite, has ZLMediaKit (ZLM) pull, publish and record streams, has a Python
AI service (`src/ai-analysis`) analyse cameras, and reports alarms and their clips to a web
front end. This directory holds TLA+ models of the parts whose interleavings, failures and
restarts are hard to test, the TLC runs that check them, and proofs of their main invariants.

## 1. Inventory

| Component | State | Operations | What is hard | What makes it correct |
|---|---|---|---|---|
| Alarm clip sessions (`alarm_clip_runtime.go`, parts of `recording_runtime.go`, `server.go`) | session and event rows; a timer and sequence number per source; one finalize mutex | alarm, timer, policy close, shutdown, startup recovery | goroutines between any two statements; stale timers; crash in the middle; failing statements | one session per source to extend; a clip appears once, for all events of the session; every session is sealed |
| Pull self-heal (`pull_self_heal.go`), the same shape in `zlm_webhook.go` (restart recovery) and `gb28181_runtime.go` (device and channel invite) | running and pending marks per key | request, run with retries, check of the mark | a request that arrives as the goroutine ends | one goroutine per key, no request lost, bursts merged |
| Detection tasks (`tasks.go`, `llm_quota.go`, `events.go`, parts of `zlm_webhook.go`, `ai-analysis`) | task row, device rows, auto-resume setting, pending marks; the AI service's camera table | start, stop, quick configuration, sync, edit, delete, recovery, token-limit stop, `/stopped` | seven writers of the same rows, no lock, calls of many seconds between the writes; late or lost callbacks | a stop is not undone; the limit is kept; rows follow the cameras |
| Startup recovery (`server.go` 965-1184, `zlm_webhook.go` 222-324) | pending tasks, pending devices, flags of two recoveries and the retry goroutine | schedule, run, retry for five minutes, attempt at `/started` and keepalive | two-step test and set of flags, a retry that ends as it is wanted, a list that is old when its marks are cleared | what is pending is taken up |
| Pull sources and proxies (`zlm_proxy.go`, `devices.go`, `zlm_webhook.go`) | source row (address, status), ZLM proxies, proxy lock | create, update, delete, preview, heal, hooks | row read before a sleep and written after it; delete without the lock | the proxy follows the row; a deleted source has none |
| Push sources (`zlm_webhook.go`, `devices.go`, `devices_blacklist.go`) | source row, block, the stream in ZLM | publish (which may create the row), hooks, create, update, delete, block, unblock | a check, a block and a closing in different orders; lost hooks | what is blocked is not published; the row follows the stream |
| Recording policy (`recording_runtime.go`, the buffer in `alarm_clip_runtime.go`, `storage_maintenance.go`) | ZLM's recorder, buffer segments, rows | apply policy, segment hook, pruning, healing | everybody re-applies the policy on rows he has read; hooks write the status without asking | the row knows the recorder; the window of a session is kept |
| Storage cleanup (`storage_maintenance*.go`) | files by class, rows that name them, notice | four stages, database sync | files and rows are written while the janitor holds a list of them; crash between removal and update | no row names a file that is gone; what is used stays; the valuable goes last |
| Alarm events (`events.go`) | event rows, their notice times | detection callback, review | check-then-write of the notice; review against clip | one announcement per cycle, an event for every alarm, once |
| LLM usage (`llm_usage.go`, `llm_quota.go`) | call rows, notice | record, total, notice | the notice against a changed limit | the notice is there when the limit is reached |
| WebSocket hub (`ws/hub.go`) | clients, read-write lock | join, broadcast, leave, drop | concurrent writers of a connection; a waiting writer keeps readers out | every broadcast ends and arrives |
| GB28181 (`gb28181/service.go`, `gb28181_runtime.go`, `devices_gb28181.go`) | device row, block, session, play dialog, RTP server | register, messages, offline scan, invites, requests | every check is older than its write; two runners invite one channel | who is put out is out; who is shown online is heard |
| Source blocking (`source_blocking.go`, `devices_blacklist.go`) | blocked streams and devices | block, unblock, test | tests before a later write | a blocked source does not come back |
| Test, draft and patrol jobs (`algorithm_test_jobs.go`, `algorithm_draft_job.go`, `dashboard_camera2_patrol.go`) | job and item rows, slots; jobs in memory | submit, run, retry in rounds, refresh, expire | slots taken in two steps, refreshes that overtake one another, events created before a retry | a job ends, once, with true counters |
| Areas, devices, task plans, algorithms, prompts, providers (`areas.go`, `devices.go`, `tasks.go`, `algorithms.go`) | rows without foreign keys | create, update, delete, activate, import | checks that another request overtakes | rows name rows that are there; one active prompt |
| Dashboard, auth, system, configuration, web front end | rows, tokens | read, format | little | not modelled |

The components meet in the database and in the two services. The tables below are written by
more than one goroutine without a common lock; this is where most hazards of `PROJECT.json` are:
`mb_media_sources` (status by ZLM hooks, heal, recovery; `ai_status` by tasks and callbacks),
the tasks' `status`, the alarm events' clip columns. The hazards of all components are listed in
`PROJECT.json` at the line where they bite, those that no property covers with the reason.

## 2. Plan

1. `AlarmClipSession`, its abstract specification `AlarmClipPromise`, proofs. *Done.*
2. `CoalescedRunner` and proofs. *Done.*
3. `TaskRuntime` and proofs of type correctness, of the stop, of the limit and that rows follow
   cameras. *Done.*
4. `StartupRecovery`: what is pending is taken up as long as keepalives come. *Done.*
5. `PullSource` and proofs of type correctness, of the lock, of deletion, of editing and that rows follow
   ZLM; `PushSource` and proofs. *Done.*
6. `StorageCleanup`, `AlarmBuffer` for the buffers it must spare, and proofs. *Done.*
7. The hub, detection callbacks, the two kinds of jobs, GB28181, the plans and the algorithms:
   `AlertHub`, `AlarmIntake`, `TestJobs`, `MemoryJobs`, `GBSession`, `TaskPlans`, `AlgorithmStore`,
   and proofs about all of them. *Done.*
8. Proofs still worth having: that the invite runners of `GBSession` and the healer of `PullSource` are
   `CoalescedRunner`s, which needs its history of requests in those modules.

Runs are few on purpose. Modules whose parts share nothing are checked together, one part chosen in
the initial state (`MCServices`, `MCDevices`), so that a run is a question: what the server does in
the background, and what reaches it from outside.

## 3. Modules

| Module | Role |
|---|---|
| `AlarmClipPromise` | what the event API promises: an event joins one session while it records, its clip appears while the session closes, a session sealed with a clip has shown it to all its events |
| `AlarmClipSession` | the session runtime |
| `AlarmClipProofs` | type correctness; safety; the refinement; every way to seal |
| `CoalescedRunner`, `CoalescedRunnerProofs` | merged background work |
| `TaskRuntime`, `TaskRuntimeProofs` | one task and its cameras |
| `StartupRecovery` | who resumes tasks after a restart, and when |
| `PullSource`, `PullSourceProofs` | one pull source and its proxy in ZLM |
| `PushSource` | one pushed stream and its block |
| `GBSession` | one GB28181 device with one channel |
| `AlarmIntake` | detections become events; review |
| `AlertHub` | the WebSocket hub |
| `AlarmBuffer` | the recorder and the buffer of one source |
| `StorageCleanup` | the janitor |
| `TestJobs`, `MemoryJobs` | jobs in the database, jobs in memory |
| `TaskPlans` | areas, devices, tasks and what refers to what |
| `AlgorithmStore` | algorithms, prompts, providers |
| `StoreProofs` | proofs about `TaskPlans` and `AlgorithmStore` |
| `StorageCleanupProofs` | proofs about the janitor |
| `DeviceProofs` | proofs about `PushSource`, `GBSession` and `AlarmIntake` |
| `JobProofs` | proofs about `TestJobs`, `MemoryJobs`, `AlarmBuffer`, `AlertHub` and `StartupRecovery` |
| `MC*` | instances: symmetry, schedules with less concurrency, one part at a time |

Operators whose comment starts with "Mutant" are deliberate mistakes of the kind a change to the
code could make. No specification uses them. Each property has one that breaks it, named in
`PROJECT.json`.

### AlarmClipSession

A database transaction, or a single statement outside one, is one step; between two steps any
goroutine may run. `hpc[e]` is the request that carries event `e`: `Alarm` (the event is created
and the clock read), `StartOrExtend` (the transaction of
`startOrExtendAlarmClipSessionBySourceID`: `StartSession`, `ExtendSession` or a failure),
`ScheduleAfterCommit` (the timer, set after the commit). `pc[t]` is a goroutine that finalizes:
`find`, `wait` (for `alarmClipFinalizeMu`), then `close`, `cancel`, `collect`, `publish`, `seal`
in the order of `finalizeAlarmClipSession`. Error paths are `PublishIgnored` and
`StatementFails`. `timers`, `armed` and `fired` tell the map of timers, the timers the Go runtime
still holds and the callbacks it has begun apart: a stopped or replaced timer may have begun
already, and only the sequence number protects the session then. `HandleDeadline` is that callback
up to its call of finalize. `Shutdown` to `Exit` are `Close()`, `Startup` to `RecoveryDone` are
`recoverAlarmClipSessionsOnStartup`. `Crash` loses all that is not a row.

A clip is the session it was made of or nothing: which files it has, and how they are merged, is
left out. Times are whole seconds. Each event comes with a request of its own; a request with
several events is the same with the events joined at once.

### CoalescedRunner

`running` and `pending` are the two maps under `pullHealMu`; `Schedule`, and the check at the end
of a run, are one critical section each. An attempt's begin and end are two steps, so that requests
fall before, in and between attempts. The attempt itself (asking ZLM, adding the proxy) is left
out. For the restart recovery there is one key and one attempt.

### TaskRuntime

The rows are `exists`, `taskStatus`, `aiRunning` (devices whose `ai_status` is running; the other
values are one to every reader modelled) and `autoResume`. `camera` is the AI service's
`_camera_tasks`, where a camera that failed stays as `error`; `callbacks` are its `/stopped` posts on
their way. `pc` and `op` say at which step of which operation a goroutine is. One read or write of a
row is one step: `Check` and `Gate` (the two questions for the limit), `StartCall`, `StartReply`,
`StartRow` for each device, `Compute` and `Save` (status read and written), `Grant` (auto resume on).
Stops are `Disable`, `StopCall`, `StopRow` for each device and `Finish`. The token-limit stop runs
on a goroutine of its own (`Limiter`), since `llmQuotaStopRunning` admits one. `Fetch`, `SyncRow`,
`SyncSave` follow the AI service; `BeginRecovery` and `Mark` to `Clear` are a recovery, whose list
(`seen`) is made long before it is used; `BeginDevice` is a pending device whose stream came up.
The devices of a task are taken in any order (the code takes them in the order of the query).
One call to the AI service is two steps: the request has its effect, and the answer arrives, says
no, or is lost.

One task with fixed devices is modelled; database errors are not. `reached` may become true at any
time a camera runs, and false only by a restart, since the limit is configuration.

### PullSource

The rows are `exists`, `url`, `status`, `analyzing` (`ai_status` is running) and `proxyUrl`
(`mb_stream_proxies`); `fresh` says that the source's id has not been used yet. ZLM, external, is
`proxy` (the address it pulls from), `up` (the stream is in `getMediaList`) and `hooks`, sent and not
yet handled; `Receive` takes any of them, since each is a request of its own. `pc` and `op` say at
which step of which operation a goroutine is; `lock`, `check`, `add` and `recheck` are
`ensureZLMProxy`, the same for all who want a proxy: create, edit, preview, snapshot, heal, recovery
and the recovery at startup. Where they differ is `Proceed` (what follows success) and `FailAttempt` (what
follows an error: an answer to the request, or another try). Each call to ZLM and each database
statement is one step, and each may find that the world has changed since the last: `seen` and `addr`
are what the goroutine holds of the rows. `Save` writes the whole row as it was read and inserts it when
it has been deleted meanwhile, as GORM's `Save` does. The heal (`Healer`) and the recovery
(`Recoverer`) run on one goroutine each with a mark, which is what `CoalescedRunner` shows of their
flags. `Crash` is this process only; `ZLMRestart` loses its proxies and, perhaps, hooks not sent.

Left out: disabled proxies, other stream names than the source's own, what
is written of output addresses, database errors. A viewer's `on_stream_not_found` comes while the
stream is away; the handling of hooks is one step, its look-up of the row and its update included (an update of
a deleted row does nothing). `StartAnalysis` and `StopAnalysis` stand for `TaskRuntime`.

### PushSource, GBSession

`PushSource` is one stream: `Publish`, `AdmitPublished` are the hook on_publish (check of the block,
then the row, which it may create), `StreamChanged` handles any of the hooks on their way (`pushNews`; each is an HTTP request of
its own, so one may overtake older ones, which `pushOld` counts), also the one by which ZLM says that it has
started anew, the requests are in two or three steps where they call ZLM: `PushDelete` closes the stream first and
writes the block with the deletion, `PushBlock` to `PushClose` writes the block first. `pushLate` and
`pushStale` remember what the properties excuse.

`GBSession` has one row of the device, its block, its sources (the device's and the channel's), the
session of the SIP service, one dialog and ZLM's RTP server. A signal (`GBEnter`, `GBRemember`,
`GBWrite`, `GBSync`) asks whether the device is let in, remembers it, and writes; the two invite
runners (`device`, `channel`, of the shape of `CoalescedRunner`) go from `GBInvite` over `GBOpen`,
`GBBye`, `GBUnlink`, `GBSend`, `GBAnswer` to `GBConnect` or `GBGiveUp`; `GBScan` and `GBScanMark` are the
offline scan with its list; the requests write first (`GBSave`, `GBDelete`, `GBBlockCommit`) and clean up
afterwards (`GBForget`, `GBBye`, `GBClean`). Ages are fresh or not. A second device would share nothing
but the UDP reader.

### AlarmIntake, AlertHub

A callback of `AlarmIntake` is `Receive` (task, device, which algorithms alarm), then for each
algorithm `Check` (the question whether it was announced within the cycle), `Create`, and last
`TriggerClip`, which marks a clip only if an event was written; `ReviewRead` and `ReviewSave` are an operator's, `ClipReady` is the finalizer's update
of the row. A payload is what the decision needs of it. `AlertHub` is the lock: `Announce` and
`Locked` are Go's `RWMutex`, in which a waiting writer keeps new readers out; a write to a connection
has a begin and an end, so that two may meet. Where they meet the library panics and the read lock
stays taken (`stuck`); the property ends there.

### StartupRecovery

Two recoveries (after a restart of ZLM, and of what is pending) and the retry goroutine, with
`recFlags` for the flags that admit one of each, `recMarks` and `recSync` for what is pending.
`RecKeepalive` is the AI service's keepalive, which asks for a recovery each time. `recDue` says which
tasks are owed a look. A camera runs or not; what a resume does to devices is `TaskRuntime`'s.

### AlarmBuffer

`BufFollow` (a task request), `BufAlarm`, `BufStreamHook`, `BufJanitor` all run the same steps:
`BufReadRow`, `BufPolicy`, `BufStream`, then `BufRestart`, `BufStart` or `BufStop`, then `BufMark`; each
is one statement or one call to ZLM, and any may fail (`BufCallFails`). `BufFollowed` writes the task's
status after that, as the code does. Segments have ages in ticks of half a minute, the window in
which a buffer counts as healthy; `BufLoad` and `BufRemove` are the pruning, with the sessions
asked for before the removal. Nobody takes as long as a tick.

### StorageCleanup

`Phases` is the walk: routine, soft, hard and critical stages, each a sequence of classes. For each class
the janitor loads what it must spare (`Load`), lists (`List`), removes one file after another
(`Remove`) while it wants to (`Wanted`), and then brings the rows up to date (`Sync`); `usage` is the disk
as it counts it, `Used` as it is. `Save`, `Refer`, `FinishItem`, `Expire` are the writers of files and
rows and the time. Each file has the size 1; a notice is the set of files it names.

### TestJobs, MemoryJobs

`TestJobs` is a job in the database: the runner takes a slot (`JobAcquire`, for a video a second
one, `JobAcquireVideo`) for each item and starts a goroutine; results, records, and refreshes of the job's row
in two steps (`RefreshRead`, `RefreshWrite`) follow, then rounds for those that failed. `MemoryJobs` is a
job in memory, a draft test or a patrol (`memKind`); steps under its lock are one step; a patrol
writes an event (`MemCreateEvent`) between them.

### TaskPlans, AlgorithmStore

Each request is two steps: its checks (`Ask...`), and its commit, a transaction. `planStale` and `storeStale` say
whose checks are older than another's commit, `planCrossed` and `storeCrossed` that one of those has
committed. A request that the code writes without a transaction or without checks is written so.

A device in `TaskPlans` is a row of `media_sources`. Those of `PlanGB` are sources of GB28181 devices: the
device's own row has an area too (`planHome`), which `AskGB` and `SaveGB` write, or a signal of a device nobody
knows (`HearGB`), and which `SyncGB` writes to the source without looking for the area. `AskDevice` and
`SaveDevice` move such a source and leave the row; `AskDeleteArea` asks the sources only. `planLost` remembers the areas
that were deleted while a row named them. A device's channels have the same area by the same code and
are not told apart.

## 4. Properties and runs

| Run | Instance | Shows |
|---|---|---|
| `alarms` | one source, 3 sessions, 3 events, 2 goroutines, clock to 3; 555 thousand states | `RecordingDisjoint`, `SealedMeansReady` |
| `crash` | 2 sessions, 2 events, 2 goroutines, one crash or exit, one failing statement; 1.3 million | `ImplementsPromise` |
| `live` | the same without the failure, with fairness; 227 thousand | `ClosingIsSealed`: what is being closed is sealed, perhaps by the next startup |
| `tasks` | 2 devices, 2 goroutines and the limiter, 3 requests of any kind of which the second and third may overlap; 2.7 million | `CalmAgrees`, `StopHolds`, `LimitHolds` |
| `tasks_live` | 1 device, 2 requests, a lost answer or callback, a failing camera, a crash of either process, with fairness; 642 thousand | `LimitStops` |
| `pull` | 2 addresses, 2 goroutines with healer and recoverer, 4 requests of any kind, one lost camera or restart, one failing call or lost hook; 3 million | `RowsFollow`, `DeletedIsGone`, `OneAdds`, `EditKeepsAnalysis` |
| `pull_live` | 1 address, 1 goroutine, 2 requests, two restarts, one failure, with fairness; 224 thousand | `EveryCallReturns`, `RestartRepaired` |
| `storage` | a test medium, a recording, a snapshot and a clip of a later hour, one failure or crash; 9.6 million | `NoDangling`, `MediaKept`, `LastResort`, `EvidenceRules` |
| `services` | one of six parts: 2 keys, 2 goroutines and 3 requests of the coalesced runner; a test job of 2 videos and an image with 2 slots, one for videos, and one failure; a draft or patrol job of 3 items; 2 broadcasts to 2 clients; the recoveries of a task with one restart, failure and request; a recorder with 2 goroutines and 3 events; with fairness; 578 thousand | `OneWorker`, `NothingForgotten`, `JobEndedIsTrue`, `JobSettles`, `MemEndedIsTrue`, `HubDelivers`, `OwedIsTaken`, `WindowKept`, `RecorderIsKnown`, `BufferingRecords` |
| `devices` | one of five parts: a GB28181 device with 3 packets, requests or faults; a stream with 2 publishes, 3 requests and a fault, hooks in any order; 2 callbacks, a review and a failure; 3 requests on 2 areas, 2 devices, one of them of GB28181, 2 tasks and 2 algorithms; 3 requests on prompts and providers; with fairness; 987 thousand | `KeptOut`, `SourcesHaveDevice`, `OnlineIsHeard`, `PushKeptOut`, `PushShown`, `QuietPeriod`, `EventsJustified`, `ReviewKeepsRow`, `LegacyAgrees`, `ReferencesKept`, `OneActivePrompt`, `ActiveKept` |
| `orphan` | 3 events on one source | the code breaks `EverySessionSealed` |
| `pull_address` | a create, then an edit, no faults | the code breaks `SavedIsBuilt` |

The types are proved for all values of the constants and not checked again by the runs. What
the promise implies (`SealedForever`, `ReadyMeansSealing`, `ClosedMeansPublished`) is checked by
`ImplementsPromise`; these statements have theorems.

**Bounds.** `MaxTime`, `MaxRestarts`, `MaxFaults`, `MaxRequests`, `Unhurried`, `MaxFailures` and their likes in
each module (every constant called `Max...`) appear in guards
only. For sessions three events and three sessions are enough for a session that is extended, one
that replaces it and a third party; one source, since sources share nothing but the mutex, which
two goroutines contend for anyway. `PostSeconds`, `MaxSessionSeconds` and `SettleSeconds` are chosen
so that the hard deadline cuts an extension and the settle time leaves a gap between the end and the
timer. Two keys tell a merge per key from a merge of all. For tasks two devices give a partial start
and an interleaving between the devices of one loop; three requests and the limiter give an
operation to start from and two that overlap. Faults, failures and restarts
run with one device, where the state space allows them; the two-device cases they could add concern
`StatusOf` alone. For a pull source two addresses tell an edited one from a stale one, two request
goroutines meet each other, the healer and the recoverer, and four requests give a source, an
analysis or a viewer, and two operations that overlap; two attempts are one retry. One address is enough for
liveness: a second only adds the case that `RestartRepaired` excludes.

For the janitor four files of different classes are the fewest of which a stage leaves a cheap one and must not go on
to a valuable one, while evidence falls into two hours; the watermarks are one file apart, so that each stage is reached
and left. Covers and device snapshots go the same way as the classes that are there, with other tables. For test jobs
two videos and an image with two slots let a video wait with a slot while the image wants one. Two
broadcasts meet on a connection, two clients let one join while one breaks. For GB28181 one
signal, two runners, the scan and two requests meet with three events in all: one to put the device
where it hurts, two that cross. A stream needs a publish, a block and another publish. Three requests on plans or
prompts are one that prepares and two that overtake each other. For the recorder `JanitorKeep > BufPre`, as the
defaults of the configuration have it, `BufMax` is long enough for one extension, and two goroutines with
three events give a recorder, what stops it, and an alarm. The theorems do not have these bounds.

**Deadlock.** `alarms`, `crash` and `live` check it: the system may always crash, stop, or go on
until the bounds are spent, and `Next` lets a server that is up restart or stay. The other runs may
really stop: all requests have been made and every goroutine is done (`CHECK_DEADLOCK FALSE`). That
nobody waits for ever is what `JobSettles`, `HubDelivers`, `EveryCallReturns` say.

**Schedules.** The run `orphan` uses `SerialSpec` of `MCAlarmClip`, which allows less
than the code does (one activity at a time), so that what it finds needs no
unlikely timing. In `tasks` the bound `Unhurried` lets the second and
third request overlap; the first has none beside it (the limit stop and the
callbacks wait for nobody). With a fourth request, and with three that all may overlap, the same properties hold too, on
4 and 8 million states, but that takes too long to repeat. In `pull_address` both requests are unhurried. `StopHolds` and `LimitHolds` are proved without
any bound.

**Fairness.** Weak fairness of each step of a goroutine that can go on: Go's scheduler runs every
runnable goroutine, and every call it waits for has a timeout (8 s, 15 s). Strong fairness of
acquiring the finalize mutex (`ReadSession`), since a Go mutex hands over to a waiter that starves,
and of a fired timer getting a goroutine. Fairness of `Startup`: the process is restarted by its
supervisor. Of `BeginLimitStop`: a running camera keeps reporting usage, and each report asks for the
limit. Of `Lock`, strong: the mutex of a source is a Go mutex as well. In `services` and `devices` it is weaker:
somebody who can go on does (`ServicesWork`, `DevicesSpec`), where goroutines, the timers, the AI service's keepalives
and the janitor's ticker are somebody; and the container of the AI service is restarted (`ServicesBack`, "restart:
unless-stopped"). The parts' own bounds see to it that nobody goes on for ever at another's expense. Nothing obliges anybody to raise an alarm, to make a request, to fail or to crash.

**Overlaps that are excused.** Where the code checks first and writes later, two operations that overlap can
leave what no single one would. A property that forbade this would only say that the code has no lock. Each
module therefore remembers, in a history variable, that it has happened, as narrowly as it can: `calm` in
the tasks and pull sources, `gbLate`, `pushLate`, `pushStale`, `planCrossed`, `storeCrossed`, `recCrossed`,
`planLost`, `intakeOverrun`, `intakeBlind`, `hasty`, `lost`, `bufAstray`, `hubCollided`. The properties say that nothing else breaks them; the
mutants, that they are not excused from everything. What each overlap leaves behind is told with the
hazard in `PROJECT.json`.

### The properties in words

* `RecordingDisjoint`: two sessions of one source that record were never alive together; so an
  alarm has one session to extend.
* `ImplementsPromise`: seen through the rows, every step of timers, goroutines and restarts is a
  step of the promise or invisible.
* `SealedMeansReady`: every way to seal a session leaves its events ready, with its clip. It is
  checked, and proved, without failing statements: two error paths ignore the result of their update.
* `NothingForgotten`: a key goes quiet only after an attempt that began after its last request.
* `StopHolds`: once auto resume was switched off while nobody was starting, no camera comes up and
  it stays off until somebody asks for a start (`held` is that history).
* `LimitHolds`: past the limit nobody enters the loop over the devices, and only who is in it starts
  a camera. The code asks once per loop, so the rest of a loop may still come up; `LimitStops` says
  that the limit stop gets those as well, as far as their rows say running.
* `CalmAgrees`: with nobody at work and no callback on its way, rows and cameras agree, if the
  operations since the latest undisturbed sync did not overlap and nothing was lost (`calm` is that
  history). So each operation by itself keeps the rows right, and one sync repairs any mess.
* `RowsFollow`: with nobody at work and no hook on its way, the status is that of the stream and both
  rows have one address, if since the start or the latest undisturbed recovery operations did not
  overlap, hooks kept their order and no call failed (`calm`, as for tasks).
* `DeletedIsGone`: after a delete that nothing joined neither the row nor the proxy comes back. A
  delete that a preview or a heal overlaps may leave a proxy without a row: it takes no lock.
* `OneAdds`: what the lock is for. Of those who asked ZLM and found no stream one makes the proxy.
* `EditKeepsAnalysis`: an edit never ends an analysis unless something happened during it. One that
  starts during it is lost: the row is saved as it was read.
* `EveryCallReturns`, `RestartRepaired`: the lock is given back on every path and retries end; a
  restart of ZLM during a recovery is followed by another one.

* `OwedIsTaken`: once the AI service is back its state is synced and each marked task is looked at, also
  when a failed attempt finds a retry goroutine that is about to end: the keepalives make it good.
* `KeptOut`, `SourcesHaveDevice`, `OnlineIsHeard`: a GB28181 device that was put out has no session, dialog or
  RTP server left; its sources go with its row, also when a registration overtakes the deletion; one
  shown online without a session is heard again or put offline.
* `PushKeptOut`, `PushShown`: a blocked or deleted stream is not published once the request has ended; the row says
  whether the stream is there, in whatever order the hooks were handled, unless what was written last is older than
  the last hook: an overtaken hook, or a row that an update had read before, or that hook was lost or not written.
* `QuietPeriod`, `EventsJustified`, `ReviewKeepsRow`: one announcement in a cycle; one event for
  each algorithm that raised an alarm, announced or not, and for no other; a review keeps the clip.
* `JobEndedIsTrue`, `JobSettles`, `MemEndedIsTrue`: a job shown as ended is, with true counters, one record and one alarm event
  per item whatever was retried; every job comes to rest although videos hold a slot while they wait.
* `HubDelivers`: every broadcast ends and reaches every healthy client that was there.
* `WindowKept`, `RecorderIsKnown`, `BufferingRecords`: no segment of an unsealed session's window is removed;
  a recorder that runs has a row that says so; a row that says so does not stay without a recorder.
* `NoDangling`, `MediaKept`: rows name files that are there; media of unfinished test items are spared.
* `LastResort`, `EvidenceRules`: a stage that has left a file of a cheap class removes nothing of a
  valuable one; evidence goes expired and announced, or hour by hour in the emergency stage.
* `LegacyAgrees`, `ReferencesKept`, `OneActivePrompt`, `ActiveKept`: the older tables repeat the plans; what is named is
  there, but for an area deleted while the row of a GB28181 device named it; an algorithm has one active prompt and keeps it.

### Findings

`PROJECT.json` quotes the documentation for each.

1. `orphan`: an alarm in the settle time after a hard deadline opens a session beside one that
   still records. The source has one timer, so the first is not sealed before a restart.
2. `pull_address`: an edit of the address succeeds and does nothing while the old stream is active.

Statements that do not hold and have no run of their own; they stay in their modules, where a
configuration that names them shows it:

* `AlarmClipSession!RecoveryRebuildsTimers`: recovery may cancel a timer that it has just rebuilt
  for another session of the source.
* `TaskRuntime!ShownRunningIsRunning`: the AI service answers a start of a dead camera with success.
* `TaskRuntime!LimitKeepsResumeOff`: a start that overlaps the limit stop switches auto resume on again.
* `TaskRuntime!DeletedIsStopped`: a partially running task can be deleted while its cameras go on (two
  devices, a start of which one fails, a delete).
* `GBSession!DeletedStaysRefused`: a registration that was past its check when the device was deleted writes
  the row again, enabled; from then on the row is asked and not the block (`docs/backend-api-v1.md:85`).
* `TaskPlans!AreasKept`: a deleted area comes back without any overlap. A GB28181 device is in area A;
  `PUT /devices/:id` moves its source to the root and leaves the device's row (`devices.go` 420-468); `DELETE` of A
  asks the sources only (`areas.go` 139) and succeeds; the next keepalive writes A to the source
  (`gb28181_runtime.go` 987, 1060). No document promises the contrary, so it is no finding.
* `AlarmBuffer!RunningIsBuffered`: a start applies the recording policy before it writes the task's
  status, and the policy asks for that status: the buffer waits for the first alarm, hook or sync.

## 5. Proofs

TLAPS checks these for every value of the constants, from the named assumptions of the modules
only: sets are finite or contain what is named, model values are distinct, bounds and durations are numbers
(`SetsAssumption`, `TimesAssumption`, `RunnerAssumption`, `TaskAssumption`, `PullAssumption`, `PlanAssumption`,
`StoreAssumption`, `StorageAssumption`, `GBAssumption`, `PushAssumption`, `MemAssumption`, `JobAssumption`, `RecAssumption`);
the payloads of callbacks are payloads (`IntakeAssumption`); a recorder keeps more than the window before an
alarm, and a session's window is not longer than its limit (`BufferAssumption`: the code computes them so; both keeps are below
`Aged`, where the model stops counting).
TLC evaluates those assumptions in the runs. One theorem has a hypothesis more, `JanitorKeep > BufPre`:
the defaults of the configuration satisfy it, and nothing in the code enforces it.

| Theorem | Statement | Argument |
|---|---|---|
| `AlarmClipProofs!TypeCorrect` | `Spec => []TypeOK` | a step per action. The look-up of a finalizer needs `CallersHaveSession`, which is why it is a part of `TypeOK` |
| `AlarmClipProofs!OneSessionAtATime` | `[]RecordingDisjoint` | a session starts only when the latest one of its source is past its deadline; clocks do not go back, so neither do starts |
| `AlarmClipProofs!NotReadyWhileRecording`, `ClosedSessionsPublished`, `SealedStays` | `[]ReadyMeansSealing`, `[]ClosedMeansPublished`, `SealedForever` | `IInv`: the mutex has one holder and its session's status is what its last step left (`HolderInv`); the events it read are all there are, since nobody joins a closing session (`BatchInv`); attachments are made once (`AttachInv`). None of the three is inductive without it |
| `AlarmClipProofs!Refines` | `Spec => Promise!Spec` | each action maps to a step of the promise or a stutter, given `IInv` |
| `AlarmClipProofs!SealedIsReady` | `[](faults = 0 => SealedMeansReady)` | `SealInv`: who is about to seal has answered every event of its batch, and comes there only by the publication; nobody else touches a holder's batch and outcome (`Sealers`) |
| `AlarmClipProofs!AnswersStay` | an answered event stays answered, by its session | attachments are made once, and a clip is given only to events that have none |
| `CoalescedRunnerProofs` (three) | `[]OneWorker`, `[]NothingForgotten`, `[]Merged` | `Covered`: a key that runs without a mark has a goroutine that has not begun yet or has seen every request |
| `TaskRuntimeProofs!TypeCorrect` | `[]TypeOK` | `Places`: each goroutine is at a step of its operation. Without it the limiter could be at a start, and `probing` could hold it |
| `TaskRuntimeProofs!StopIsFinal` | `StopHolds` | `HeldInv`: after a stop that found nobody starting, nobody starts and auto resume is off. Only an operation that asks for a start, or one that reads auto resume as on, begins to (`Quiet`) |
| `TaskRuntimeProofs!LimitIsFinal` | `LimitHolds` | only `Gate` leads into the loop, and it asks |
| `TaskRuntimeProofs!RowsFollowCameras` | `[]CalmAgrees` | `CalmInv`: while it is calm at most one goroutine is at work (`Lone`), what it holds is true (`InHand`), every device that it does not just handle agrees, the status is right or will be written again, and callbacks on their way concern cameras that do not run |
| `PullSourceProofs!TypeCorrect` | `[]TypeOK` | `Places`: whoever is on the way to a proxy does so for an operation that wants one; without it `Proceed` leads nowhere |
| `PullSourceProofs!OnlyOneAdds` | `OneAdds` | `LockInv`: who is inside `ensureZLMProxy` holds the lock; only its `Add` makes a proxy |
| `PullSourceProofs!DeletedStaysGone` | `[]DeletedIsGone` | `FinalInv`: a lone delete stays alone or is noticed (`Deleting`), and without a row only recoveries that pass by are at work (`Quiet`) |
| `PullSourceProofs!RowsFollowZLM` | `[]RowsFollow` | `FollowInv`: while it is calm one goroutine is at work, the last hook on its way says what the stream is, and what the goroutine has in hand is what the rows should say. A lone recovery only needs to mend (`MendsRightly`), after it everything written is right (`WritesRightly`) |
| `PullSourceProofs!EditsKeepAnalysis` | `EditKeepsAnalysis` | who is alone and saves a source has seen it without analysis (`FollowInv`) |
| `StoreProofs!LegacyFollows` | `[]LegacyAgrees` | inductive by itself: what is written of a task replaces its rows in all four tables alike, whatever the request read before |
| `StoreProofs!StoreInvariant`, `OnePromptActive` | `[]StoreIInv`, `[]OneActivePrompt` | `RequestsInv`: a prompt keeps its algorithm, so an activation or update switches off the others of the right one; ids are new, so two requests on one prompt agree |
| `StoreProofs!NothingDangles` | `[]ReferencesKept` | `PlanInv`: what a request has looked at is still so unless another has committed since, and the area in a GB28181 device's row is there or `planLost`. `ReferencesKept` alone is not inductive: a commit does not look again |
| `StoreProofs!ActiveStays` | `ActiveKept` | `StoreChecked`, the same for prompts that are deleted or switched to |
| `StorageCleanupProofs!CleanupInvariant`, `RowsNameFiles`, `WorkingMediaStay` | `[]CleanInv`, `[]NoDangling`, `[]MediaKept` | the lists hold files of the phase's class (`FilesInv`, `PlaceInv`); what was in use when the janitor asked is spared, what came into use later is `hasty` (`ShieldInv`) |
| `StorageCleanupProofs!ValuableGoesLast` | `LastResort` | `SpareInv`: a target that a stage has reached stays reached until its next gate; the order of classes in `Phases` is a fact about each plan (`PlanOfClasses`) |
| `StorageCleanupProofs!EvidenceByTheRules` | `EvidenceRules` | `EvidenceInv`: what a phase lists of an evidence class has expired, what was announced stays in the notice until the next gate, and the emergency stage is entered only under `BreakGlass`; the oldest hour exists (`SomeoneIsOldest`) |
| `DeviceProofs!PushOutStays`, `PushRowShows` | `[]PushKeptOut`, `[]PushShown` | `PushOutInv`: a blocked stream that is still published is about to be closed; `PushShownInv`: the newest hook that nothing has overtaken (there is none when `pushOld` counts all of them), or who works, brings the row up to date |
| `DeviceProofs!RefusedStaysOut`, `NoOrphanSources` | `[]KeptOut`, `[]SourcesHaveDevice` | `OutInv`: nobody works for a device that is out but those who put it out, and whatever is left of it one of them will remove; `KeepsOrder`: an RTP server's channel has a source or is on a list |
| `DeviceProofs!OncePerCycle`, `AlarmsJustified`, `ReviewIsAll` | `[]QuietPeriod`, `[]EventsJustified`, `ReviewKeepsRow` | who decides to announce has seen no announcement within the cycle, from the decision to the row (`SeenInv`, `CycleInv`); a callback writes each of its events once (`WorkInv`, `EventInv`); a review holds the row that is there (`ReviewInv`) |
| `JobProofs!EndedTestJobsAreOver` | `[]JobEndedIsTrue` | `JobItemInv`: an item that is left has no record; `JobSnapInv`: an end that a late refresh has read is still an end, so what it writes of an ended job is what is there |
| `JobProofs!EndedMemJobsAreOver` | `[]MemEndedIsTrue` | `MemJobInv`: the events of each item are those shown and the one just raised |
| `JobProofs!WindowIsKept` | `JanitorKeep > BufPre` gives `[]WindowKept` | `BufWindowInv`: what is removed, or on a list to be, is older than the window of the session and of one that starts now |
| `JobProofs!RunningRecorderIsKnown` | `[]RecorderIsKnown` | `BufRecorderInv`: unless something went astray one goroutine at most is at work, and what it relies on at each of its steps is so (`BufPlace`) |
| `JobProofs!BroadcastsReach`, `HealthyClientsStay`, `NobodyWaitsForHimself` | `[]HubReached`, `[]HubKeepsHealthy`, `[]HubNoSelfWait`: the safety half of `HubDelivers` | `HubInv`: whom a broadcast found it has written to, failed to write to, or still will; whoever it failed to write to has broken and never heals |
| `JobProofs!FlagsTellWhoRuns`, `OwedStaysMarked` | `[]RecFlagsTell`, `[]RecOwedIsMarked`: the safety half of `OwedIsTaken` | inductive together with the types |

The invariants the proofs use were first checked by TLC on the instances of the runs. The five
definitions of the last two rows are no properties of a run; they were checked once with two broadcasts to three
clients (353 thousand states) and with two tasks, restarts and requests (9.7 million).

Every invariant and every action property that a passing run checks has a theorem. Only model-checked are
the liveness properties: `ClosingIsSealed`, `LimitStops`, `EveryCallReturns`, `RestartRepaired`, `JobSettles`,
`HubDelivers`, `OwedIsTaken`, `OnlineIsHeard`, `BufferingRecords`. They rest on fairness, hence on
`ENABLED`, which is out of this prover's reach, as is induction over data (what a recursive definition
computes for every input). Statements the code breaks have nothing to prove.

What the theorems do not say is what the history variables excuse (section 4): they hold for any number
of actors, requests and faults, but once an overlap that is excused has happened they say nothing: of tasks
and pull sources until an undisturbed sync or recovery makes it good, of the others from then on.

## 6. What is not modelled

The components with the status `not_modelled` in `PROJECT.json`: the dashboard's reads and playback,
authentication, system and metrics, configuration and schema, the front end. They keep no state that two
goroutines could spoil. In the modelled components:

* several of what shares nothing but a mutex or a limit: sources of clips and recorders, pull sources,
  GB28181 devices, test jobs; two tasks whose cameras run in one AI service (`TaskRuntime` has one; `TaskPlans`
  has several, without running them);
* errors of the database in `TaskRuntime` and `PullSource`; a startup that fails before recovery;
* names, addresses, tokens and secrets, SIP digests and texts, prompts, uploads and their validation;
* numeric work: inference, merging of video files, token sums, disk usage other than a count of files;
* the sources of a GB28181 device's channels apart from the device's own (`updateGBChannel` looks for its area like
  `updateDevice`);
* the janitor's notice of soft pressure (`storage_maintenance.go` 1245-1285) and its removal of empty
  directories; deletion of recordings and test media by hand;
* lists and statistics; the one-time migration of old event rows (`events_optimization.go`);
* functions that nothing calls any more: `scheduleAlarmRecordingStop` with its timeout,
  `startRecordingForSource` (so the recording status never says recording).
