# Verification of quota-monitor

`quota-monitor` shows the remaining Codex and Claude quota of one person, and
how many coding tasks are running, on a small desk display. The repository
holds a Go program (agent, central service, standalone mode, administration
commands) and the firmware of the ESP32 display. This directory models the
parts of the system in which state, time, failure and concurrency meet, checks
the models with TLC on small instances and proves the properties that matter
most with TLAPS for all values of the constants.

`PROJECT.json` lists components, runs, mutants, hazards and theorems, and maps
every definition to the lines it models. Paths below are relative to `src/`.

## 1. Inventory

### 1.1 Parts, their state and how they interact

| Part | State it keeps | Operations | Talks to |
|---|---|---|---|
| Hook forwarder (`internal/hooks/event.go`) | none; one process per hook | parse, stamp, post with a deadline of one second | agent's hook endpoint |
| Task ledger (`internal/agent/ledger.go`, `hookserver.go`) | active main and sub tasks | `Apply`, `Snapshot`, prune | fed by the hook endpoint, read by the reporter |
| Agent (`internal/agent/agent.go`) | provider reports, back-off, one pending collection request | `run`, `CollectOnce`, `IngestStatusLine`, `ReportOnce` | collectors, ledger, service |
| Codex collector (`internal/collector/codex.go`) | child process, pending calls, ids | `Collect`, `ReleaseIdleResources`, `Close`, reader goroutine | `codex app-server` over pipes |
| Claude collector (`internal/collector/claude.go`) | consecutive logged-out answers | `Collect`, status-line parser, `MergeProviderReports` | `claude` command |
| Hook installer (`internal/hooks/install.go`) | two provider configurations, backups, secret, state file | `Install`, `Uninstall` | file system |
| Service (`internal/server/server.go`) | rate-limit windows, authentication slots, cached health | report, snapshot, manifest and download handlers | store, firmware directory |
| Store (`internal/store/store.go`) | tokens, agents, provider reports, tasks in SQLite | create, revoke, authenticate, replace report, build snapshot | service |
| Firmware publication (`internal/firmware/firmware.go`) | versioned images, manifest, lock file | `Publish`, `LoadManifest`, `OpenVerifiedImage` | administrator, service |
| Command line and standalone mode (`cmd/quota-monitor/main.go`) | display token file | start-up order, agent and service in one process | all of the above |
| Display configuration (`firmware/src/main.cpp`) | two slots, selector, v0.2 namespace in flash | load, save, clear | portal, serial console |
| Display snapshot cache (`main.cpp`, `lib/SnapshotParser`) | snapshot, its copy and its epoch in flash, generation | fetch, persist, clear, restore | service, configuration |
| Display loop, portal, network task (`main.cpp`, `lib/OtaPolicy`) | job queue, candidate, firmware status, restart deadlines, partitions | requests of the portal, tests, downloads, self test | service, flash |
| Wi-Fi failover (`lib/WifiFailoverPolicy`, `main.cpp`) | order of the round, phase, deadlines | `configure`, `update`, `note_connected`, `manual_reset` | Wi-Fi station |
| Power saving and refresh gate (`lib/RuntimePolicy`) | last activity, brightness state | `update`, `note_activity` | loop |
| Battery, charging, USB sensing (`lib/ChargeTrendDetector` and others) | filters over samples | `update` | loop |

Hooks push events to the agent; the agent polls the provider commands, accepts
status lines and sends its complete state every fifteen seconds; the service
keeps the newest report of each agent; the display polls a snapshot, which the
service computes from what it holds. Firmware images go from an administrator
through the service's directory to the display. Nothing is ever pushed to the
display, and no message is acknowledged except by an HTTP status.

### 1.2 What is hard here

* **Order.** Hooks are processes that race each other; reports that timed out
  may arrive after their successors; answers of a dead child are read after the
  next child was started; snapshots may be replayed.
* **Crashes.** The publication, the hook installer, the first start of
  standalone mode and the display commit several writes to storage and may be
  stopped between any two of them; SQLite may lose its last commits with power.
* **Partial failure.** One of several writes fails; a rollback itself fails.
* **Shared state.** The collection goroutine and the readers; the display's loop
  and its network task; the service's queries and its writers.
* **Time.** TTLs computed from foreign stamps, time-outs that race answers, a
  32-bit millisecond counter.
* **Progress.** A request, a reserved network, a selected image, a Wi-Fi round:
  each must end.

The main ones, with lines, are `hazards` in `PROJECT.json`; each hazard names
the properties that would catch it, or says why none does yet.

### 1.3 What makes each part correct

* Ledger: a task nobody hears of disappears; an event never touches another
  session's tasks; what is reported is admissible to the service.
* Reports: the service never goes back to an older state; the display never
  goes back to an older sample.
* Codex collector: at most the current child survives, answers belong to their
  requests, collections end, shutdown leaves nothing behind.
* Claude state: a login is given up only when the CLI has said so often enough,
  a confirmed logout forgets its quota, quota that was reset is not carried on,
  values come from their own section, and the state follows the account.
* Standalone mode: whoever serves has a token file that authenticates, failed
  starts leave no valid token behind, revocations are obeyed, only collected
  reports are stored, and a process that is asked to stop ends.
* Publication: the manifest always names a complete image; a download never
  fails because of a publication; an acknowledged publication is final.
* Hook installer: the user's own status line is never lost; hooks never lack
  their secret; a failed install is undone.
* Display: no torn configuration, atomic commits, no data of a former server,
  no replay, only tested candidates, no selected image destroyed, reservations
  end, networks tried in their priority until one is joined.

## 2. Modules

| Module | Models | Proved in | Run with |
|---|---|---|---|
| `Ledger` | `ledger.go`, `event.go`, the handler of `/v1/events` | `AgentProofs` | `MCLedger` |
| `LatestState` | abstract: per agent a register that only moves forward | | |
| `ReportStore` | reports, `ReplaceAgentReport`, `BuildDisplaySnapshot`; implements `LatestState` | `ReportStoreProofs` | `MCReportStore` |
| `FirmwarePublish` | `Publish`, downloads, disk and directory | `FirmwareProofs` | `MCFirmwarePublish` |
| `CodexCollector` | `codex.go`, sequential collection of `agent.go` | `CodexProofs` | `CodexCollector` |
| `ClaudeUsage` | the section parser for the text of `/usage` | `AgentProofs` | with `ClaudeState` |
| `ClaudeState` | `claude.go`, status lines, the agent's Claude report | `AgentProofs` | `ClaudeState` |
| `ServiceAuth` | tokens: table, CLI, authentication of requests | `StandaloneProofs` | with `Standalone` |
| `Standalone` | `standalone`: token file, first report, schedulers, shutdown; composed with `ServiceAuth` | `StandaloneProofs` | `Standalone` |
| `ConfigStore` | the configuration slots in flash | `ConfigProofs` | `ConfigStore` |
| `SnapshotCache` | snapshot, cache, endpoint changes | `SnapshotProofs` | `SnapshotCache` |
| `HooksInstall` | `install.go` | `HooksProofs` | `HooksInstall` |
| `DeviceJobs` | loop, portal, network task, firmware update | `FirmwareProofs` | `DeviceJobs` |
| `WifiFailover` | failover policy and its callers | `ConfigProofs` | `WifiFailover` |

### 2.1 Correspondence to the code

**Ledger.** `tasks` is the map of `Ledger`; `inflight` the hook processes that
have stamped an event and not yet been answered; `heard` (history) when the
agent last handled an event about a task. `EmitHook` stamps (`ParseEvent`),
`LoseHook` is a forwarder whose deadline passes, `ApplyEvent` is one request to
`/v1/events` under the ledger's mutex: early return, pruning, the switch of
`Apply`. Event names are the canonical ones; a payload is provider, name,
session, task id and stamp. Stamps lie between `MaxLag` behind and `MaxLead`
ahead of the agent's clock.

**ReportStore.** `local` is an agent's memory abstracted to one observation and
one task, with a version that counts its changes; `db` one row per agent;
`build` the snapshot under construction, one action per query. The agents'
clocks lag or lead by `MaxDrift` and never run backwards. Delivered reports stay
in flight, so they may be delivered again. `HandleAgentReport` takes
`receivedAt` and commits in one step: the handler's clock reading and the commit
are not separated. Of `ValidateAgentReport` the tests on time are modelled;
those on format only refuse more. `LatestState` has two operations, an agent
advances and the service catches up with a state not older than the one it has.

**FirmwarePublish.** The directory as processes see it (`manifest`, `files`)
and, for each entry, the set of contents that a power loss may leave
(`diskManifest`, `diskFiles`): a rename adds to the set, a directory sync
reduces it to the current content. `Publish` is one action per system call that
others can observe, each with its failing variant; `Kill` releases the lock and
leaves the files, `PowerLoss` chooses from the sets. Temporary files are never
named by a manifest and therefore not modelled.

**CodexCollector.** The collection goroutine is `phase`, with the locals of
`collectAttempt`, `call` and `stopProcess`; each child has a reader, a pipe and
the operating system's view of it. `stopProcess` has two halves (`BeginStop`
closes `done`, `FinishStop` cleans up under the mutex), because other goroutines
run in between. Both collection modes are explored: `sequential` is chosen
initially. Answers are abstracted to what `collectAttempt` tells apart: success,
logged out, refreshable authentication error, another error.

**ClaudeUsage.** A line of the answer is the heading it starts with, a
percentage and the time to a reset, each possibly missing. The parser is the
loop of `parseClaudeUsageText` with its pending window, as a recursive function
of the number of lines read (`Parsed`); it keeps the numbers of the lines its
values stand in, so that a definition that knows nothing of the parser
(`OwnSection`) can say whether a window's percentage and reset stand together in
a section about that window. TLC evaluates it for every answer up to `MaxLines`
lines; the proof is for every `MaxLines`.

**ClaudeState.** The collection worker is `pc`: a poll takes the request from
the channel of one, runs `claude auth status`, perhaps `/usage`, and stores.
`providers` is the agent's report of Claude. `ObservedAt` is kept as an age, the
number of observations since; `time.UTC()` strips the monotonic reading, so
`ClockSetBack` makes existing observations younger. A status line is sent,
received (stamped) and ingested in three steps, any poll may run in between.
Every window carries a tag that tells what became of the login it was read
under, and `outs` counts the polls that said "logged out" in a row; no code
reads either. `Paced` is an assumption on time: a status line is delivered or
given up before the second poll after it starts (a forwarder's deadline of
seconds against an interval of a minute).

**ServiceAuth and Standalone.** The tokens table as processes see it and as a
power loss would leave it (`durable`; commits are durable after a checkpoint,
because of `synchronous = NORMAL`). A token stands for its id, digest and raw
value. A request takes a slot, is looked up, notes its use and is handled in
separate steps. Two processes run `ensureDisplayToken` call by call, each call
may fail. `onDisk` is the set of contents the file may have after a power loss: a
file that was not synced may be missing or cut short, and one that was synced may
still be missing, because its directory is not synced. A row that a power loss
took is `"gone"`: its token is not issued again. From `Listen` on the API is served while the first collection runs;
`cancelled` is `runCtx`, and the report sink writes nothing under a cancelled
context. `lost` and `abandoned` are history: tokens a kill, a power loss or a
failing revocation left behind, and tokens of starts that gave up. So are
`revoked` (revocations that were committed), `unsaved` (not checkpointed since)
and `undone` (taken back by a power loss since); a power loss keeps them. A
request records on arrival what had become of its token by then, `late` and
`undone`, so that `RevokedStaysOut` speaks of revocations and not of the row.

**ConfigStore.** Flash is two slots (validity and value), `active`, `target`,
`pending` and the v0.2 namespace; every put is an action with a failing variant,
and power may be lost between any two. The fields of a slot are written by one
action that leaves the value torn if it fails; a boot evaluates `BootConfig`,
which follows `load_config` case by case.

**SnapshotCache.** A configuration is its endpoint, a snapshot its source and
`generatedAt`. The loop's commit and the network task's fetch are interleaved at
every acquisition of the shared mutex; the puts of `persist_snapshot_state` are
separate and may fail. `used` (history) holds the endpoints since the cache was
last cleared.

**HooksInstall.** Files are a map from path to content; a configuration is its
status line, whether it has managed hooks, and the user's own part. `Install`
and `Uninstall` are one action per file operation, each write may fail, the
process may be killed between two, and the rollback's restores may fail in turn.

**DeviceJobs.** The loop goes through its services in the order of `loop()`;
`loopPc` names the next one. The network task takes jobs from the bounded queue. A
step lies between two acquisitions of the mutex. The boot loader (external) goes
back to the other partition when an image on probation is restarted before it
was marked valid. Two requests of a page in a row, reopened portals, a second
release during the probation, power losses and an access point that does not
start are included.

**WifiFailover.** The policy object field by field, a counter that wraps around
at `Wrap`, and the station. `tried`, `age`, `pause` are history: the networks
tried in this round, and the true time since the last start or failure, which
does not wrap around.

## 3. Runs

Every run explores its instance completely. A property is in the table once,
with what it says about the code.

| Run | Instance | What it shows |
|---|---|---|
| `ledger` | 2 sessions, 1 sub-task id, 3 events, 1 restart, clock 0..3 | `PhantomBounded`: a task the agent no longer hears of is reported for less than TTL + tolerance. `OnlyOwnEventsOrExpiry`: a task leaves the ledger by an event of its own session, by expiry or by a restart. |
| `ledger_order` (counterexample) | as above | `ReportedTasksOrdered` fails, see section 6. |
| `report` | 2 agents with 2 versions each, 2 reports in flight, 2 snapshots, clock 0..2 | `StoreIsRegister`: the store implements `LatestState`. `ObservationNeverRegresses`: the sample shown is replaced by an older one only if its agent restarted. |
| `firmware_publish` | 2 publishers, 2 downloads, 2 images, 3 versions | `ManifestHasImage`, `DownloadsSucceed`, `PublicationDurable`, `NoOrphanImage`. |
| `codex` | 2 children, 2 collections, both modes | `NoOrphanProcess`: every live child is the current one or being stopped. `AnswerMatchesRequest`: a call is completed by the answer to it. `CollectionEnds`, `ShutdownLeavesNoChild` (liveness). |
| `claude_state` | answers of up to 2 lines, resets after 2 observations, 2 confirmations, 1 failure, restart or step of the clock, 1 status line under way | `LogoutForgets`: no window of a login whose end was confirmed and stored comes back. `NoExpiredCarried`: what is filled in from an older observation had not been reset. `ShownFromOwnSection`: percentage and reset are from the window's own section of `/usage`. `LogoutIsConfirmed`: a login is given up only after that many polls in a row said so. `StateFollowsAccount` (liveness): once calls stop failing, a login brings quota and a logout removes it. |
| `standalone` | 2 processes, 2 starts, 2 tokens, 1 request, any number of kills and power losses | `ServesUsableToken`, `NoStrayToken`. `RevokedStaysOut`: a request that arrives after a revocation is not served, except when a power loss took the revocation back before a checkpoint saved it and nobody repeated it. `StoredIsCollected`. `StopsWhenAsked` (liveness): a process that is asked to stop ends, except while its first collection hangs. |
| `config_store` | 3 configurations, 2 failing puts, any number of power losses | `NeverBootsTorn`, `SavedIsDurable`, `PowerLossAtomic`. |
| `snapshot_cache` | 2 servers, epochs 1..3, 1 staged change, 2 losses of power | `ShownFromUsedServer`, `CachedFromUsedServer`, `AcceptedMonotone`. |
| `hooks_install` | 2 status lines, 2 edits, 2 failures | `WrapperRestorable`, `HooksHaveSecret`, `FailedInstallUndone`, `UninstallRestores`, `ReplacedIsBackedUp`. |
| `device_jobs` | 2 configurations, 2 releases, queue of 3, 2 requests, 2 openings, 1 power loss | `SelectedIsIntact`, `CommittedWasTested`, `ReservationEnds` and `SelectedIsBooted` (liveness). |
| `wifi_failover` | counter modulo 8, time-out 2, 1 change | `RoundInPriority`, `AttemptLastsTimeout`, `GetsConnected` (liveness). |

Every property of a passing run has a mutant in `PROJECT.json`: a plausible
mistake in the code (a dropped guard, a missing reset, a swapped order), written
beside the definition it mutates, under which TLC finds the property violated.

### 3.1 Bounds, and why they are enough

* Three hook events are a start, something that overtakes, and an end; two
  sessions are one that must not be touched. Provider and session always enter
  keys together, so a second session also stands for a second provider. TTL and
  tolerance of 1 against a clock of 3 let tasks expire and stamps be too early.
* Two reports of each agent can arrive in either order and twice; two agents are
  the least that compete for a provider. More of either changes no comparison:
  the store compares one report with one row. Agents lag in this instance;
  `MCReportRegister.cfg` has one agent with three reports and a clock that also
  leads, and passes; the theorem covers every drift.
* Two lines of `/usage` are a section that is shown and one that is not, in
  either order, with the values above or below a heading. One failure is enough
  to break a row of answers, to lose the state, or to turn the order of two
  observations around; with two failures, resets already past and no step of the
  clock the invariants hold as well (9.4 million states). Ages are cut off above
  the time to a reset.
* Two starts are two at once, or one that meets what the other left; two tokens
  are one for each. One request suffices: requests share nothing but the slots.
* Two publishers are a holder of the lock and a competitor; three versions are
  one published, one in progress, one refused.
* Two children are the current one and the one being cleaned up. `codex.go`
  keeps no history beyond that.
* Two failing puts are one that makes a commit fail and one that disturbs its
  recovery. Three configurations tell old, new and erased apart.
* The queue of the display is scaled from 5 to 3 so that it can be full. Two
  requests of the portal's page are one that starts a job and one that meets the
  state the first left, at any moment, also in a reopened portal.
* The counter modulo 8 wraps around during an attempt and during a pause, and
  leaves the signed comparison half its range.

Symmetry is declared for sessions, publishers, downloads and images only, in
runs without liveness properties.

`CHECK_DEADLOCK FALSE` stands where the bounded counters of an instance, or a
system that is allowed to rest, end every behaviour.

### 3.2 Fairness

* `CodexCollector`: goroutines that can run do run; a deadline passes; a killed
  child dies and is reaped. Nothing is assumed of a child that was not killed:
  it may hang for ever.
* `ClaudeState`: the ticker fires, the worker runs, CLI calls end because of
  their deadline, and a status line is delivered or given up. A deadline kills
  the CLI but not a grandchild that holds its output (`claude.go:39` sets no
  `WaitDelay`): the assumption is that there is none.
* `Standalone`: the main goroutine goes on from call to call; the first report
  has a deadline that SQLite heeds, and both waits of the shutdown are limited.
  Nothing is assumed of collections, the worker's or the first: a deadline
  cancels their context, but `cmd.Run` (`claude.go:39`) and the wait for a killed
  child (`codex.go:442`) may outlast it.
* `DeviceJobs`: the loop and the network task go on. Every job ends, because
  every network operation in it has a time-out. Restart deadlines pass (strong
  fairness, since the loop visits the test again and again and in between is
  elsewhere). Users, portal requests and releases are not fair.
* `WifiFailover`: loop and time go on, and a network in reception that the
  station is told to join again and again is joined in the end (strong fairness
  of `Join`): without this assumption on the radio no policy gets connected.

## 4. Proofs

TLAPS proves the following for all values of the constants that satisfy the
named assumptions. These are types and relations of bounds, in the modules that
declare the constants, and TLC evaluates them in the runs.

**Ledger** (`AgentProofs`). `PhantomBounded` is not inductive: what is pruned
depends on stamps the agent did not take. The invariant `LedgerInv` bounds every
stamp by the clock plus the tolerance, and every `lastSeenAt` by the moment the
agent handled the event it came from plus the tolerance. `EffectLemma` says what
the switch in `Apply` leaves of a ledger; the theorems `LedgerTypeCorrect`,
`LedgerInvariant`, `LedgerPhantomBounded` and `LedgerNotTooFarInFuture` follow.
`LedgerOnlyOwnEventsOrExpiry` is the action property: the keys that `Apply`
touches carry the provider and the session of its event (`OwnKeys`), and what
`pruneLocked` removes was last heard of a TTL ago, give or take the tolerance,
which is again `LedgerInv`.

**Reports** (`ReportStoreProofs`). The store compares `sentAt` only. `OrderInv`
says that this orders states: among the reports of an agent that can still
arrive, and against the stored one, a later `sentAt` never carries an earlier
version. With it every step is a step of `LatestState` or leaves the register
unchanged (`NextRefines`), and `StoreImplementsRegister` is the refinement. The
argument needs the agent's clock not to run backwards, and nothing about the
service's clock. `DisplayNeverRegresses` (`ObservationNeverRegresses`) needs a
second order: the store compares `sentAt`, the display picks by `observedAt`.
`ObservationInv` says that for an agent that kept its memory the two agree, in
flight and in the store, and that a sample read for a snapshot under way is not
newer than the store and not older than the one shown, whatever is committed
between the queries.

**Publication** (`FirmwareProofs`). The invariant is about what may be on disk:
every manifest that could survive a power loss names an image that certainly
survives it (`DiskInv`), the version a publisher works on is named by no
manifest and no download (`ClaimInv`, `ReaderInv`), what was acknowledged
survives (`AckInv`), and without faults an unpublished image belongs to a
publisher at work (`OrphanInv`). One lemma per action.

**Configuration** (`ConfigProofs`). `Rewriting` and `ValidIsWhole` need no
assumption: whatever fails, a slot that is valid is whole, hence
`NeverBootsTorn`. `Saved` carries `SavedIsDurable`. `Sound` says how metadata,
slots and firmware agree while no put has failed, and carries `RunsOnBootConfig`,
`ResetErases` and `PowerLossAtomic`.

**Standalone** (`StandaloneProofs`, about `ServiceAuth` as well). A token is
created, put into the file and synced in steps that other starts, kills, power
losses and operators come between. `FileInv` says what a start in the middle of
`ensureDisplayToken` has achieved and that `O_EXCL` lets one of them write;
`ReadyInv` that everybody past that point has a file with a good token. Together
they carry `ServesUsableToken` and `NoStrayToken`. `RevokedStaysOut` rests on
`RevokedInv`, that a revocation no power loss took back is in the table, and a
checkpointed one also in the copy the next power loss leaves, and on
`RequestInv`, that a request that came after such a revocation stays at the
lookup.
`StoredIsCollected` rests on `ProviderInv`: failures that a shutdown caused
exist only in a process whose context is cancelled, which stores nothing.

**Hook installation** (`HooksProofs`). The invariant has a part for every
promise: `SecretInv`, `UninstallInv`, `LineInv`, `UndoInv`, `BackupInv`, each
relating the files on disk, what the command is going to write, and what it
read before, at every position of the write order. `SecretInv` and
`UninstallInv` hold with edits at any time, so `HooksSecretPresent`
(`HooksHaveSecret`) and `HooksUninstallRemovesEntries` have no hypothesis. The
other four, `WrapperRestorable`, `FailedInstallUndone`, `UninstallRestores` and
`ReplacedIsBackedUp`, are about contents that an editor may save between a
command's reading and its rename; they are proved for edits between commands
(`~ConcurrentEdits`), the setting of the run, and `MCHooksEdits.cfg` shows that
the hypothesis is needed.

**Snapshot** (`SnapshotProofs`). `FetchInv` is what the generation check relies
on: a fetch of the current generation asked an endpoint in use, and nobody has
moved the replay bound since the worker copied it. `ShownFromUsedServer`,
`CachedFromUsedServer` and the action property `AcceptedMonotone` follow.
`SnapshotCachedFromStoredServer` complements the two counterexamples of section
6: while nothing was staged and no power was lost, the cache does belong to the
endpoint in flash.

**Codex** (`CodexProofs`). `StopInv` and `LastInv` follow the two halves of
`stopProcess`: `c.proc` is never a child whose cleanup is over, and whoever
releases or closes stops the last one. With `NoOrphanProcess`, which is part of
the invariant, `CodexStoppedWhenReleased` follows: when Claude is probed, and
after `Close`, no child runs that was not killed. (That it may not have been
reaped is the counterexample of `MCCodexOverlap.cfg`.) `RequestInv` says that
ids are not reused and that only the process a request was made to can answer
it; it carries `AnswerMatchesRequest`.

**Claude** (`ClaudeUsage` and `ClaudeState`, in the second half of
`AgentProofs`: the other state of the agent). The properties speak of
`providers` alone; `ClaudeInv` also says what the poll under way and the status
lines on their way may hold, because they are merged into it later. Its parts:
`CountInv` (the collector's count is `outs`, up to an answer that was not looked
at yet) and `LogoutInv` (a logout is reported without windows and only when
confirmed) carry the action property `LogoutIsConfirmed`; `QuotaInv` and
`LinesInv` (windows are from their own section and, when carried, not reset yet)
carry `NoExpiredCarried` and `ShownFromOwnSection`. `MergeFacts` says what
`MergeProviderReports` makes of two such reports, in either order of their ages.

That a parsed window is from its own section is a statement about a loop over
any number of lines (`UsageOwn`). The library's induction theorems cannot be
used, since no installed prover instantiates an operator parameter;
`LeastNumber` does their work. It follows from the library's `WFMin` and the
well-foundedness of `<`, and takes a set: were there a line after which the loop
invariant `LoopInv` fails, there would be a first one, and `LineOwn` contradicts
it. In the same way `LoopExists` shows that the recursive function is defined.
`LoopInv` says that the pending window is about the section the current line is
in and holds values of that section only, which is what the reset of `pending`
at each heading is for.

`ClaudeLogoutForgets` has two hypotheses. `Paced` is the assumption on time of
section 2.1, and `MCClaudeTransit.cfg` is the counterexample without it. The
other is `Confirmations > 1` (the code has 2): a status line may have seen one
answer "logged out" on its way, and must not have seen enough of them. `TagInv`
bounds how far the end of a login has been noticed where its windows still are:
less in a status line than in the state, and in the state not beyond the moment
a confirmed logout is stored, which empties it. `ClaudeTypeCorrect` adds
`DatesInv`: an age is negative by at most the number of steps of the clock.

**Display jobs** (`DeviceJobs`, in the second half of `FirmwareProofs`: the end
that downloads what was published). `ReservedInv` says that `ota_status.installing` is
reserved from the request to the result, so that one install is queued or under
way, and the portal stays open meanwhile. `SelectInv` adds that no install
begins once a partition is selected: from then on the loop has a result to take
and a restart to make. `NewerInv` follows the version from the manifest to the
partition. They carry `SelectedIsIntact`; `TestInv`, that one candidate is
tested at a time and the result belongs to it, carries `CommittedWasTested`. The
invariant holds for any capacity of the queue, and a job that finds it full is
one of the cases. `DeviceTypeCorrect` adds that the queue never holds more than
its capacity (`QueueInv`) and that a partition only ever has a version that was
published (`ReleaseInv`).

**Wi-Fi failover** (`WifiFailover`, in the second half of `ConfigProofs`: what
uses the networks of that configuration). `RoundInv` says that while an attempt is under way the
order is the one `prepare_round` makes of the present configuration and that the
profiles tried are a prefix of it; `AppendFacts` and `RoundFacts` say what that
order is. `ClockInv` says that the unsigned difference of two counter readings is
the true age of the attempt, up to the cap on `age`, because the loop comes by
before the difference has gone around: `WifiAssumption` bounds the time-out and
the longest gap between two services by half the counter's range.
`WifiTypeCorrect` follows: the station is told what the policy made active.

`ClaudeState`, `DeviceJobs` and `WifiFailover` name their specifications
`ClaudeSpec`, `DeviceSpec` and `WifiSpec`, so that a module of proofs can extend
them beside another component.

The inductive invariants were checked with TLC on the instances of the runs
before they were proved. Type correctness, `NotTooFarInFuture`,
`RunsOnBootConfig` and `ResetErases` are proved and not in a run.

Every invariant and every action property of the passing runs is proved. Only
model-checked is liveness (`CollectionEnds`, `ShutdownLeavesNoChild`,
`StateFollowsAccount`, `StopsWhenAsked`, `ReservationEnds`, `SelectedIsBooted`,
`GetsConnected`), which is out of the prover's reach.

## 5. Abstractions

* `receivedAt` and the commit of a report are one step, and waiting for SQLite's
  lock takes no time.
* `ReportOnce` of `ReportStore` reads the providers, the time of sending and the
  tasks in one step; the code reads them one after the other
  (`agent.go:385-402`). One loop makes all reports of an agent, so that of two
  reports the one sent later has also read each part later. What a collection or
  a hook changes in between is in the next report at the latest.
* `SnapshotCache` and `DeviceJobs` take `save_config` as atomic. `ConfigStore`
  models it put by put, and `PowerLossAtomic` is the justification for devices
  whose puts do not fail.
* `ClaudeState` counts time in observations; plans and error codes are left out.
  A tie of ages keeps the stored report, as in `MergeProviderReports`.
* The windows of the rate limiter are a choice: `ServiceAuth` answers a request
  with a 429 or goes on. Tokens of one scope are modelled; rows of the other one
  are never compared.
* The hook secret is one value in `HooksInstall`. `Install` writes the secret that
  `loadOrCreateSecret` (`main.go:144`) has just read from that file or put into
  it, so an old and a new one differ only when somebody rewrites the file in
  between.
* `Standalone` tells reports apart by how they came about only; the hook secret
  file and other set-up errors are the failing variant of `Listen`.
* Reading flash never fails; writing may.
* `DeviceJobs` lets the portal time out at any moment, which includes the ten
  minutes of the code. The serial commands that change the configuration are in
  `SnapshotCache` and `WifiFailover`.
* The boot loader is assumed to keep an image on probation until the firmware's
  own self test, which is what `service_ota_self_test` is written for.
* Configurations are normalised: clamping of numbers, formats of URLs and
  tokens, JSON, text and drawing are left out.
* The Unix variant of `atomic_replace` is the one translated.

## 6. Where code and documentation disagree

One is a run of the project, `ledger_order` (`MCLedgerOrder.cfg`): `Apply`
stores an event's stamp as `lastSeenAt` even when it lies before `startedAt`
(`internal/agent/ledger.go:72`). The service refuses every report with such a
task (`internal/server/server.go:432`), so the agent's whole state stops arriving
until the task is touched again, ends or expires.

The following configurations are kept to reproduce further counterexamples; TLC
reports a violation for each of them.

| Configuration (module) | Property | What TLC finds |
|---|---|---|
| `MCReportTorn.cfg` (`MCReportStore`) | `SnapshotCoherent` | The queries of `BuildDisplaySnapshot` run outside a transaction (`store.go:498`): a report committed between them makes a snapshot count tasks of an agent it counts as offline; docs/architecture.md:61 says such tasks are not counted. |
| `MCCodexHandshake.cfg` (`CodexCollector`) | `RequestStaysPending` | The second half of `stopProcess` empties `c.pending` (`codex.go:411`) when the next child's handshake may already be in it; the handshake then waits for its time-out. |
| `MCCodexOverlap.cfg` (`CodexCollector`) | `NoOverlapWithClaude` | `ReleaseIdleResources` returns at once when `c.proc` is nil, also when a child that timed out has not been reaped; the comment at `codex.go:440` says the Claude probe cannot overlap it. |
| `MCClaudeTransit.cfg` (`ClaudeState`) | `LogoutForgets` | A status line that takes longer than two polls, which a coalesced request can bring close together, is stamped on receipt (`hookserver.go:68`): it counts as newer than the confirmed logout and brings back the windows of the old login until the next poll. |
| `MCStandaloneTorn.cfg` (`Standalone`) | `CanStartAgain` | A write that fails, or a crash, after the token file was created leaves an empty file (`main.go:703`), and every later start ends with "display token file is empty" until someone removes it. |
| `MCStandalonePower.cfg` (`Standalone`) | `RevocationIsFinal` | A revocation that was committed and not checkpointed is undone by a power loss (`store.go:130`), and the token authenticates again; docs/operations.md:145 says that revocation takes effect immediately. |
| `MCStandaloneHang.cfg` (`Standalone`) | `StopsAtOnce` | A process that is asked to stop during its first collection ends only after it: `CollectOnce` (`main.go:597`) runs before the `select` and its ten seconds (`main.go:613`), and a CLI call may outlast its deadline (`claude.go:39` sets no `WaitDelay`). The example unit kills it after twenty seconds (`TimeoutStopSec`). |
| `MCWifiPause.cfg` (`WifiFailover`) | `PauseIsObserved` | `configure`, called before every `update`, takes the waiting state after a failed round for a profile that is gone (`WifiFailoverPolicy.cpp:37`), so the documented pause of 1, 2, 4 ... 60 seconds (docs/firmware-ota.md:8) never takes place. |
| `MCConfigRetained.cfg` (`ConfigStore`) | `PreviousSlotRetained` | `marker_written &=` does not short-circuit (`main.cpp:715`): a failing `target` followed by a successful `pending` makes the next boot load the configuration before the one in use, although the console said "previous slot retained". |
| `MCConfigRollback.cfg` (`ConfigStore`) | `RollbackIsFinal` | A first dual-slot commit that is interrupted is rolled back to the v0.2 namespace, but the new slot stays valid and the boot after the next one loads it (`main.cpp:635`). |
| `MCSnapshotStaged.cfg` (`SnapshotCache`) | `CachedFromStoredServer` | A fetch queued before `set base_url` uses the staged endpoint and writes its snapshot to flash (`main.cpp:1460`); docs/quickstart.md:372 says unsaved changes are in memory only. |
| `MCSnapshotCrash.cfg` (`SnapshotCache`) | `CachedFromStoredServer` | The new endpoint is durable before the old cache is removed (`main.cpp:2413`); after a power loss in between the old snapshot is restored and its epoch bounds the new server's. |
| `MCHooksEdits.cfg` (`HooksInstall`) | `ReplacedIsBackedUp` | What is saved to a configuration between the installer's reading and its rename is overwritten and in no backup (`install.go:498`). |
| `MCDeviceRollback.cfg` (`DeviceJobs`) | `RollbackTargetWhole` | A second release installed during the probation of the first erases the image to roll back to (`main.cpp:1895`); docs/firmware-ota.md:178 promises the rollback. |

## 7. Plan

The order of the plan is by what a failure costs: stored state first, then the
processes around it, then timers.

Done, with proofs: `Ledger`, `ReportStore` with `LatestState`,
`FirmwarePublish`, `ConfigStore`, `ServiceAuth` and `Standalone`,
`HooksInstall`, `SnapshotCache`, `CodexCollector`, `DeviceJobs`,
`WifiFailover`, `ClaudeUsage` and `ClaudeState`.

Modules that would still add something: the timer of the next fetch together
with `RuntimePolicy`, over a wrapping counter (`main.cpp:3206`); the fixed
windows of the limiter with clock readings taken before its lock
(`server.go:528`); and the limit of 256 tasks in a report with a scaled-down
bound, composed with `Ledger`.

## 8. Not modelled, and why

* `lib/ChargeTrendDetector`, `lib/BatteryEstimate`, `lib/UsbSense`,
  `lib/ExternalPowerSense`: thresholds over analogue samples of one sequential
  input; nothing else depends on their intermediate state.
* `lib/DisplayText`, `lib/ResponseBuffer`, `src/lcd_smoke.cpp`,
  `src/lv_font_qmon_16.c` and the drawing code of `main.cpp`: presentation.
* Normalisation of Codex answers (`codex.go:487-645`), and of the dates and field
  names in Claude's: pure conversions of formats the repository does not define.
* `main.go` outside `standalone` and the token commands: flags, output, and
  calls of parts that have their own module. `loadOrCreateSecret` (used by the
  agent and by standalone mode) writes without `O_EXCL`; two first starts at
  once can leave one of them with a secret that is no longer in the file.
* `server.go`: the limiter's counting and the health check's cache.
* `lib/RuntimePolicy` and the fetch timer of the display: see the plan.
* `internal/agent/service.go`, `deploy/`, `api/`, `hardware/`, scripts:
  generated text, configuration, documentation and hardware data.
