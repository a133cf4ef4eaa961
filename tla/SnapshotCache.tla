---------------------------- MODULE SnapshotCache ----------------------------
(***************************************************************************)
(* The display's snapshot, its copy in flash and the server they come from *)
(* (firmware/src/main.cpp: fetch_snapshot, persist_snapshot_state,          *)
(* commit_config, clear_snapshot_cache, clear_config).                      *)
(*                                                                         *)
(* The main loop stages and commits configurations while the network       *)
(* worker fetches with the configuration it copied when it started.  Both  *)
(* take the shared mutex; an HTTP exchange happens outside it.  save_config *)
(* is one step here: module ConfigStore shows that it is atomic.  A        *)
(* configuration is abstracted to its endpoint (base_url and token).       *)
(***************************************************************************)
EXTENDS Integers

CONSTANTS
    Servers,         \* the endpoints
    NoServer,        \* the endpoint of a blank configuration
    MaxEpoch,        \* bound on generatedAt
    Interval,        \* kSnapshotPersistIntervalSeconds
    MaxGeneration,   \* bound on snapshot_generation
    MaxStages,       \* bound on the changes staged on the serial console
    MaxLosses        \* bound on the number of restarts and power losses

ASSUME SnapshotAssumption ==
    /\ NoServer \notin Servers
    /\ {MaxEpoch, Interval, MaxGeneration, MaxStages, MaxLosses} \subseteq Nat
    /\ MaxGeneration > 0     \* snapshot_generation starts at 1

VARIABLES
    stored,       \* flash: the endpoint of the committed configuration
    cache,        \* flash: the cached snapshot
    lastEpoch,    \* flash: last_epoch
    pc,           \* where the main loop is
    config,       \* the endpoint of config, which may be staged only
    committed,    \* the endpoint of committed_config
    candidate,    \* what commit_config was called with
    changed,      \* its endpoint_changed
    dirty,        \* network_config_dirty
    inFlight,     \* fetch_in_flight
    snapshot,     \* what the screen shows
    accepted,     \* last_accepted_generated_epoch
    persisted,    \* last_persisted_generated_epoch
    cached,       \* have_persisted_snapshot_cache
    generation,   \* snapshot_generation
    resetting,    \* reset_in_progress
    worker,       \* where the network worker is
    request,      \* what it copied when it started to fetch
    writer,       \* who is making the puts of persist_snapshot_state
    put,          \* which of them is next
    stages,       \* number of changes staged so far
    losses,       \* number of restarts and power losses so far
    used          \* history: endpoints of config since the cache was cleared

flash == <<stored, cache, lastEpoch>>
configVars == <<config, committed, candidate, changed, dirty>>
snapshotVars == <<snapshot, accepted, persisted, cached, generation, resetting>>
workerVars == <<worker, request, inFlight>>
putVars == <<writer, put>>
bounds == <<stages, losses>>
vars == <<flash, pc, configVars, snapshotVars, workerVars, putVars, bounds, used>>

-----------------------------------------------------------------------------
Epochs == 1..MaxEpoch

Endpoints == Servers \cup {NoServer}

NoSnapshot == [server |-> NoServer, epoch |-> 0]

\* What parse_snapshot returns, abstracted to where it came from and when it
\* was generated; a payload it refuses is a failed fetch.
Snapshot == [server : Servers, epoch : Epochs] \cup {NoSnapshot}

NoRequest == [server |-> NoServer, replay |-> 0, gen |-> 0]

Larger(a, b) == IF a >= b THEN a ELSE b

\* The shared mutex: clear_snapshot_cache and clear_config hold it across
\* their flash operations, and so does persist_snapshot_state.
LockFree == writer = "none" /\ pc \notin {"remove_cache", "remove_epoch", "erase_slots"}

Init ==
    /\ stored \in Endpoints /\ cache = NoSnapshot /\ lastEpoch = 0
    /\ pc = "off"
    /\ config = NoServer /\ committed = NoServer /\ candidate = NoServer
    /\ changed = FALSE /\ dirty = FALSE /\ inFlight = FALSE
    /\ snapshot = NoSnapshot /\ accepted = 0 /\ persisted = 0 /\ cached = FALSE
    /\ generation = 1 /\ resetting = FALSE
    /\ worker = "idle" /\ request = NoRequest
    /\ writer = "none" /\ put = "cache" /\ used = {}
    /\ stages = 0 /\ losses = 0

\* load_config
Boot ==
    /\ pc = "off"
    /\ pc' = "run"
    /\ config' = stored /\ committed' = stored
    /\ snapshot' = cache /\ cached' = (cache # NoSnapshot)
    /\ accepted' = Larger(lastEpoch, cache.epoch)
    /\ persisted' = accepted'
    /\ used' = {stored, cache.server}
    /\ UNCHANGED <<flash, candidate, changed, dirty, generation, resetting,
                   workerVars, putVars, bounds>>

-----------------------------------------------------------------------------
(* The main loop.                                                          *)

\* set base_url or set token on the serial console.
Stage(s) ==
    /\ pc = "run" /\ LockFree
    /\ stages < MaxStages
    /\ stages' = stages + 1
    /\ config' = s /\ dirty' = TRUE
    /\ used' = used \cup {s}
    /\ UNCHANGED <<flash, pc, committed, candidate, changed, snapshotVars,
                   workerVars, putVars, losses>>

\* commit_config up to the end of save_config: the serial console saves what
\* is staged, the portal a candidate that the worker has tested, after any
\* fetch that was queued before it.
Commit(s) ==
    /\ pc = "run" /\ LockFree
    /\ s = config \/ worker \in {"idle", "done"}
    /\ generation < MaxGeneration
    /\ stored' = s /\ committed' = s /\ dirty' = FALSE
    /\ candidate' = s
    /\ changed' = (s # committed)
    /\ pc' = "install"
    /\ UNCHANGED <<cache, lastEpoch, config, snapshotVars, workerVars, putVars,
                   bounds, used>>

Install ==
    /\ pc = "install" /\ LockFree
    /\ config' = candidate
    /\ used' = used \cup {candidate}
    /\ pc' = IF changed THEN "clear" ELSE "run"
    /\ UNCHANGED <<flash, committed, candidate, changed, dirty, snapshotVars,
                   workerVars, putVars, bounds>>

\* clear_snapshot_cache, before its two flash operations.
ClearCache ==
    /\ pc = "clear" /\ LockFree
    /\ generation' = generation + 1
    /\ snapshot' = NoSnapshot /\ cached' = FALSE
    /\ accepted' = 0 /\ persisted' = 0
    /\ used' = {config}
    /\ pc' = "remove_cache"
    /\ UNCHANGED <<flash, configVars, resetting, workerVars, putVars, bounds>>

\* Mutant of RemoveCache: only the time stamp is removed.
RemoveCacheNot ==
    /\ pc = "remove_cache"
    /\ pc' = "remove_epoch"
    /\ UNCHANGED <<flash, configVars, snapshotVars, workerVars, putVars, bounds, used>>

RemoveCache ==
    /\ pc = "remove_cache"
    /\ cache' = NoSnapshot
    /\ pc' = "remove_epoch"
    /\ UNCHANGED <<stored, lastEpoch, configVars, snapshotVars, workerVars,
                   putVars, bounds, used>>

RemoveEpoch ==
    /\ pc = "remove_epoch"
    /\ lastEpoch' = 0
    /\ pc' = "run"
    /\ UNCHANGED <<stored, cache, configVars, snapshotVars, workerVars, putVars,
                   bounds, used>>

\* loop: a fetch job for the worker.
QueueFetch ==
    /\ pc = "run" /\ ~dirty /\ ~inFlight
    /\ inFlight' = TRUE /\ worker' = "queued"
    /\ UNCHANGED <<flash, pc, configVars, snapshotVars, request, putVars, bounds, used>>

\* service_network_results
TakeResult ==
    /\ pc = "run" /\ LockFree
    /\ worker = "done"
    /\ worker' = "idle" /\ inFlight' = FALSE /\ request' = NoRequest
    /\ UNCHANGED <<flash, pc, configVars, snapshotVars, putVars, bounds, used>>

\* clear_config: the namespace of the cache first, under the mutex.
FactoryReset ==
    /\ pc = "run" /\ LockFree
    /\ generation < MaxGeneration
    /\ resetting' = TRUE /\ generation' = generation + 1
    /\ cache' = NoSnapshot /\ lastEpoch' = 0
    /\ config' = NoServer /\ committed' = NoServer /\ dirty' = FALSE
    /\ snapshot' = NoSnapshot /\ accepted' = 0 /\ persisted' = 0 /\ cached' = FALSE
    /\ used' = {NoServer}
    /\ pc' = "erase_slots"
    /\ UNCHANGED <<stored, candidate, changed, workerVars, putVars, bounds>>

EraseSlots ==
    /\ pc = "erase_slots"
    /\ stored' = NoServer
    /\ pc' = "restart"
    /\ UNCHANGED <<cache, lastEpoch, configVars, snapshotVars, workerVars,
                   putVars, bounds, used>>

\* sleep_soft_off forces the state into flash before the deep sleep.
SoftOff ==
    /\ pc = "run" /\ LockFree
    /\ ~resetting /\ accepted > 0
    /\ ~(accepted = persisted /\ cached)
    /\ writer' = "main" /\ put' = "cache"
    /\ pc' = "sleep"
    /\ UNCHANGED <<flash, configVars, snapshotVars, workerVars, bounds, used>>

-----------------------------------------------------------------------------
(* The network worker: fetch_snapshot.                                     *)

StartFetch ==
    /\ worker = "queued" /\ LockFree
    /\ IF resetting
       THEN worker' = "done" /\ UNCHANGED request
       ELSE /\ worker' = "fetching"
            /\ request' = [server |-> config, replay |-> accepted, gen |-> generation]
    /\ UNCHANGED <<flash, pc, configVars, snapshotVars, inFlight, putVars, bounds, used>>

\* No answer, no valid answer, or one that is too old.
FetchFails ==
    /\ worker = "fetching"
    /\ worker' = "done"
    /\ UNCHANGED <<flash, pc, configVars, snapshotVars, request, inFlight,
                   putVars, bounds, used>>

\* Mutant of Fresh: only the very same snapshot is a replay.
NotTheSame(epoch) == epoch # request.replay

\* validate_snapshot_time
Fresh(epoch) == request.replay > 0 => epoch > request.replay

\* Mutant of Superseded: only a factory reset supersedes a fetch.
SupersededByReset == resetting

Superseded == resetting \/ generation # request.gen

\* The answer is there; the mutex decides when the worker applies it.
Answer(epoch) ==
    /\ worker = "fetching" /\ LockFree
    /\ request.server # NoServer
    /\ Fresh(epoch)
    /\ IF Superseded
       THEN worker' = "done" /\ UNCHANGED <<snapshot, accepted>>
       ELSE /\ snapshot' = [server |-> request.server, epoch |-> epoch]
            /\ accepted' = epoch
            /\ worker' = "persist"
    /\ UNCHANGED <<flash, pc, configVars, persisted, cached, generation,
                   resetting, request, inFlight, putVars, bounds, used>>

\* persist_snapshot_state(false, generation), up to its early returns.
BeginPersist ==
    /\ worker = "persist" /\ LockFree
    /\ IF Superseded \/ accepted = 0 \/ (persisted > 0 /\ accepted - persisted < Interval)
       THEN worker' = "done" /\ UNCHANGED putVars
       ELSE writer' = "worker" /\ put' = "cache" /\ UNCHANGED worker
    /\ UNCHANGED <<flash, pc, configVars, snapshotVars, request, inFlight, bounds, used>>

\* putString("snapshot"): it may fail, and without a snapshot there is none.
PutCache ==
    /\ writer # "none" /\ put = "cache"
    /\ put' = "epoch"
    /\ \/ snapshot # NoSnapshot /\ cache' = snapshot /\ cached' = TRUE
       \/ UNCHANGED <<cache, cached>>
    /\ UNCHANGED <<stored, lastEpoch, pc, configVars, snapshot, accepted,
                   persisted, generation, resetting, workerVars, writer, bounds, used>>

\* persist_snapshot_state returns; a device that goes to sleep is off.
PersistReturns ==
    /\ writer' = "none" /\ put' = "cache"
    /\ worker' = IF writer = "worker" THEN "done" ELSE worker
    /\ pc' = IF writer = "main" THEN "restart" ELSE pc

\* putULong64("last_epoch"), which may fail.
PutEpoch ==
    /\ writer # "none" /\ put = "epoch"
    /\ PersistReturns
    /\ \/ lastEpoch' = accepted /\ persisted' = accepted
       \/ UNCHANGED <<lastEpoch, persisted>>
    /\ UNCHANGED <<stored, cache, configVars, snapshot, accepted, cached,
                   generation, resetting, request, inFlight, bounds, used>>

-----------------------------------------------------------------------------
\* ESP.restart, deep sleep or a power loss.
PowerOff ==
    /\ pc # "off"
    /\ losses < MaxLosses
    /\ losses' = losses + 1
    /\ pc' = "off"
    /\ config' = NoServer /\ committed' = NoServer /\ candidate' = NoServer
    /\ changed' = FALSE /\ dirty' = FALSE /\ inFlight' = FALSE
    /\ snapshot' = NoSnapshot /\ accepted' = 0 /\ persisted' = 0 /\ cached' = FALSE
    /\ generation' = 1 /\ resetting' = FALSE
    /\ worker' = "idle" /\ request' = NoRequest
    /\ writer' = "none" /\ put' = "cache" /\ used' = {}
    /\ UNCHANGED <<flash, stages>>

Next ==
    \/ Boot
    \/ \E s \in Servers : Stage(s) \/ Commit(s)
    \/ Install \/ ClearCache \/ RemoveCache \/ RemoveEpoch
    \/ QueueFetch \/ TakeResult \/ FactoryReset \/ EraseSlots \/ SoftOff
    \/ StartFetch \/ FetchFails \/ BeginPersist \/ PutCache \/ PutEpoch
    \/ \E epoch \in Epochs : Answer(epoch)
    \/ PowerOff

Spec == Init /\ [][Next]_vars

-----------------------------------------------------------------------------
\* Every variable has the shape of the value it stands for.
TypeOK ==
    /\ stored \in Endpoints /\ cache \in Snapshot /\ lastEpoch \in 0..MaxEpoch
    /\ pc \in {"off", "run", "install", "clear", "remove_cache", "remove_epoch",
               "erase_slots", "restart", "sleep"}
    /\ {config, committed, candidate} \subseteq Endpoints
    /\ {changed, dirty, inFlight, cached, resetting} \subseteq BOOLEAN
    /\ snapshot \in Snapshot /\ {accepted, persisted} \subseteq 0..MaxEpoch
    /\ generation \in 1..MaxGeneration
    /\ worker \in {"idle", "queued", "fetching", "persist", "done"}
    /\ request \in [server : Endpoints, replay : 0..MaxEpoch, gen : 0..MaxGeneration]
    /\ writer \in {"none", "main", "worker"} /\ put \in {"cache", "epoch"}
    /\ used \subseteq Endpoints

\* An answer that a fetch brings back after the endpoint was changed and the
\* cache cleared is never shown, however the fetch, the commit and the
\* clearing interleave (the generation check in fetch_snapshot).
ShownFromUsedServer ==
    snapshot # NoSnapshot => snapshot.server \in used

\* Neither is it written to flash behind clear_snapshot_cache.
CachedFromUsedServer ==
    pc \notin {"off", "remove_cache"} /\ cache # NoSnapshot => cache.server \in used

\* Between two clearings of the cache and without a restart the replay bound
\* never moves backwards (validate_snapshot_time with the epoch copied when
\* the fetch started).
AcceptedMonotone ==
    [][pc # "off" /\ pc' # "off" /\ generation' = generation => accepted' >= accepted]_vars

\* What flash holds between two operations was fetched from the endpoint it
\* holds: "changing the server address or the token clears the snapshot cache
\* and the replay time stamp" (docs/firmware-ota.md), "changes before save
\* are in memory only" (docs/quickstart.md).
CachedFromStoredServer ==
    pc = "run" /\ LockFree /\ cache # NoSnapshot => cache.server = stored
=============================================================================
