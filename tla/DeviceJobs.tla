----------------------------- MODULE DeviceJobs -----------------------------
(***************************************************************************)
(* The display's main loop, its configuration portal and its network task  *)
(* (firmware/src/main.cpp): candidate configurations are tested before     *)
(* they are committed, firmware is checked, downloaded into the inactive   *)
(* partition and selected, and a new image is on probation until its self  *)
(* test.                                                                   *)
(*                                                                         *)
(* The main loop and the network task share the variables under            *)
(* shared_mutex and a bounded queue of jobs.  A step is what happens       *)
(* between two acquisitions of the mutex or two services of the loop.      *)
(* Saving and erasing the configuration are single steps here: ConfigStore *)
(* models them put by put.  Deadlines of the loop pass at any time.        *)
(***************************************************************************)
EXTENDS Integers, Sequences, FiniteSets

CONSTANTS
    Configs,       \* complete configurations
    NoConfig,      \* an unconfigured display
    MaxRelease,    \* bound on the firmware versions that are published
    QueueCap,      \* capacity of network_jobs (5)
    MaxPosts,      \* bound on the requests of the portal's page
    MaxOpens,      \* bound on the times the user opens the portal
    MaxCrashes     \* bound on power losses

ASSUME DeviceJobsAssumption ==
    /\ NoConfig \notin Configs
    /\ MaxRelease \in Nat \ {0} /\ QueueCap \in Nat \ {0}
    /\ MaxPosts \in Nat /\ MaxOpens \in Nat /\ MaxCrashes \in Nat

VARIABLES
    loopPc,          \* the service the main loop is about to run
    portal,          \* portal_active
    jobs,            \* network_jobs
    worker,          \* what the network task is doing
    fetch,           \* fetch_in_flight and fetch_result_ready
    candidate,       \* pending_candidate, candidate_result, candidate_test_in_flight
    ota,             \* ota_status
    config,          \* the committed configuration
    restartConfig,   \* restart_after_config_ms is set
    restartOta,      \* restart_after_ota_ms is set
    part,            \* the two application partitions
    running,         \* the partition the firmware runs from
    bootNext,        \* the partition selected for the next boot
    pendingVerify,   \* the running image is on probation
    latest,          \* the version the server publishes
    tested,          \* the candidate of the last successful test (history)
    posts, opens, crashes

ramVars == <<loopPc, portal, jobs, worker, fetch, candidate, ota, restartConfig, restartOta, tested>>

flashVars == <<config, part, running, bootNext, pendingVerify>>

boundVars == <<latest, posts, opens, crashes>>

deviceVars == <<ramVars, flashVars, boundVars>>

-----------------------------------------------------------------------------
Jobs == {"fetch", "test", "scan", "check", "install"}

Loop == {"serial", "portal", "idle", "fetched", "candidate", "ota", "button",
         "queue", "selftest", "restart"}

Partitions == {0, 1}

Other(p) == 1 - p

Image == [version : 0..MaxRelease, whole : BOOLEAN]

NoFetch == [inFlight |-> FALSE, ready |-> FALSE]

NoCandidate == [pending |-> NoConfig, ready |-> FALSE, success |-> FALSE, inFlight |-> FALSE]

\* manifest_valid and update_available are always assigned together.
NoOta == [checking |-> FALSE, available |-> FALSE, version |-> 0,
          installing |-> FALSE, resultReady |-> FALSE, success |-> FALSE]

IdleWorker == [at |-> "idle", config |-> NoConfig, version |-> 0]

\* queue_network_job does not wait: a full queue drops the job.
Enqueue(q, job) == IF Len(q) < QueueCap THEN Append(q, job) ELSE q

DeviceInit ==
    /\ loopPc = "serial" /\ portal = FALSE
    /\ jobs = <<>> /\ worker = IdleWorker /\ fetch = NoFetch
    /\ candidate = NoCandidate /\ ota = NoOta
    /\ config \in Configs /\ tested = NoConfig
    /\ restartConfig = FALSE /\ restartOta = FALSE
    /\ part = [p \in Partitions |-> [version |-> IF p = 0 THEN 1 ELSE 0, whole |-> p = 0]]
    /\ running = 0 /\ bootNext = 0 /\ pendingVerify = FALSE
    /\ latest = 1
    /\ posts = 0 /\ opens = 0 /\ crashes = 0

-----------------------------------------------------------------------------
(* The portal.                                                             *)

\* start_configuration_portal; an open portal only notes the activity.  The
\* results of queueing are ignored.
StartPortal ==
    /\ portal' = TRUE
    /\ IF portal THEN UNCHANGED <<ota, jobs>>
       ELSE /\ ota' = [NoOta EXCEPT !.checking = TRUE]
            /\ jobs' = Enqueue(Enqueue(jobs, "scan"), "check")

\* The serial command "portal" and the BOOT button; the access point may fail.
OpenPortal(here, then) ==
    /\ loopPc = here /\ loopPc' = then
    /\ opens < MaxOpens /\ opens' = opens + 1
    /\ StartPortal
    /\ UNCHANGED <<worker, fetch, candidate, restartConfig, restartOta, tested, flashVars,
                   latest, posts, crashes>>

SerialPortal == OpenPortal("serial", "portal")

ButtonPortal == OpenPortal("button", "queue")

\* service_portal without a request.
NoRequest ==
    /\ loopPc = "portal"
    /\ loopPc' = IF portal THEN "idle" ELSE "fetched"
    /\ UNCHANGED <<portal, jobs, worker, fetch, candidate, ota, restartConfig, restartOta,
                   tested, flashVars, boundVars>>

Request ==
    /\ loopPc = "portal" /\ loopPc' = "fetched"
    /\ portal
    /\ posts < MaxPosts /\ posts' = posts + 1

\* Mutant of PostConfig: the result of the previous candidate stays.
PostConfigKeepsResult ==
    /\ Request
    /\ ~candidate.inFlight /\ ~ota.installing
    /\ jobs' = Enqueue(jobs, "test")
    /\ \E c \in Configs :
          candidate' = [candidate EXCEPT !.pending = c, !.inFlight = jobs' # jobs]
    /\ UNCHANGED <<portal, worker, fetch, ota, restartConfig, restartOta, tested, flashVars,
                   latest, opens, crashes>>

\* POST /api/config.
PostConfig ==
    /\ Request
    /\ ~candidate.inFlight /\ ~ota.installing
    /\ jobs' = Enqueue(jobs, "test")
    /\ \E c \in Configs :
          candidate' = [NoCandidate EXCEPT !.pending = c, !.inFlight = jobs' # jobs]
    /\ UNCHANGED <<portal, worker, fetch, ota, restartConfig, restartOta, tested, flashVars,
                   latest, opens, crashes>>

\* Mutant of Installable: a restart that is due is not considered.
InstallableBeforeRestart ==
    /\ ota.available /\ ~ota.installing /\ ~ota.resultReady /\ ~ota.success
    /\ ~candidate.inFlight

Installable ==
    /\ ota.available /\ ~ota.installing /\ ~ota.resultReady /\ ~ota.success
    /\ ~candidate.inFlight /\ ~restartOta

\* POST /api/ota/install.
PostInstall ==
    /\ Request
    /\ Installable
    /\ jobs' = Enqueue(jobs, "install")
    /\ ota' = [ota EXCEPT !.installing = jobs' # jobs]
    /\ UNCHANGED <<portal, worker, fetch, candidate, restartConfig, restartOta, tested,
                   flashVars, latest, opens, crashes>>

\* The rest of service_portal: ten minutes without a request close it.
ClosePortal ==
    /\ loopPc = "idle" /\ loopPc' = "fetched"
    /\ ~ota.installing
    /\ portal' = FALSE
    /\ UNCHANGED <<jobs, worker, fetch, candidate, ota, restartConfig, restartOta, tested,
                   flashVars, boundVars>>

KeepPortal ==
    /\ loopPc = "idle" /\ loopPc' = "fetched"
    /\ UNCHANGED <<portal, jobs, worker, fetch, candidate, ota, restartConfig, restartOta,
                   tested, flashVars, boundVars>>

-----------------------------------------------------------------------------
(* The other services of the loop.                                         *)

\* A service with nothing to do.
Pass(here, then) ==
    /\ loopPc = here /\ loopPc' = then
    /\ UNCHANGED <<portal, jobs, worker, fetch, candidate, ota, restartConfig, restartOta,
                   tested, flashVars, boundVars>>

NoCommand == Pass("serial", "portal")

NoPress == Pass("button", "queue")

\* service_network_results: the result of a fetch.
TakeFetch ==
    /\ loopPc = "fetched" /\ loopPc' = "candidate"
    /\ fetch' = IF fetch.ready THEN NoFetch ELSE fetch
    /\ UNCHANGED <<portal, jobs, worker, candidate, ota, restartConfig, restartOta, tested,
                   flashVars, boundVars>>

CandidateReady == candidate.ready /\ candidate.success /\ ~restartConfig

\* service_network_results: a candidate that passed its test is committed.
CommitCandidate ==
    /\ loopPc = "candidate" /\ loopPc' = "ota"
    /\ CandidateReady
    /\ config' = candidate.pending
    /\ restartConfig' = TRUE
    /\ UNCHANGED <<portal, jobs, worker, fetch, candidate, ota, restartOta, tested, part,
                   running, bootNext, pendingVerify, boundVars>>

CommitFails ==
    /\ loopPc = "candidate" /\ loopPc' = "ota"
    /\ CandidateReady
    /\ candidate' = [candidate EXCEPT !.success = FALSE]
    /\ UNCHANGED <<portal, jobs, worker, fetch, ota, restartConfig, restartOta, tested,
                   flashVars, boundVars>>

NoCommit == ~CandidateReady /\ Pass("candidate", "ota")

\* service_network_results: the result of an install, taken once.
TakeOta ==
    /\ loopPc = "ota" /\ loopPc' = "button"
    /\ ota' = [ota EXCEPT !.resultReady = FALSE]
    /\ restartOta' = (restartOta \/ (ota.resultReady /\ ota.success))
    /\ UNCHANGED <<portal, jobs, worker, fetch, candidate, restartConfig, tested, flashVars,
                   boundVars>>

\* loop: the next snapshot, when it is due and the station is connected.
QueueFetch ==
    /\ loopPc = "queue" /\ loopPc' = "selftest"
    /\ ~portal /\ ~ota.installing /\ ~fetch.inFlight /\ config # NoConfig
    /\ jobs' = Enqueue(jobs, "fetch")
    /\ fetch' = [fetch EXCEPT !.inFlight = jobs' # jobs]
    /\ UNCHANGED <<portal, worker, candidate, ota, restartConfig, restartOta, tested,
                   flashVars, boundVars>>

NoFetchDue == Pass("queue", "selftest")

\* service_ota_self_test after thirty seconds.
SelfTestPasses ==
    /\ loopPc = "selftest" /\ loopPc' = "restart"
    /\ pendingVerify /\ pendingVerify' = FALSE
    /\ UNCHANGED <<portal, jobs, worker, fetch, candidate, ota, restartConfig, restartOta,
                   tested, config, part, running, bootNext, boundVars>>

NoSelfTest == Pass("selftest", "restart")

NoRestart == Pass("restart", "serial")

\* The bootloader: a newly selected image starts on probation; one that is
\* on probation still is given up for the other, if that one can be started.
BootPartition ==
    IF bootNext # running THEN bootNext
    ELSE IF pendingVerify /\ part[Other(running)].whole THEN Other(running)
    ELSE running

\* setup: an unconfigured display opens its portal, unless the access point
\* fails.
Boot(stored) ==
    /\ config' = stored
    /\ loopPc' = "serial"
    /\ \E open \in {FALSE, stored = NoConfig} :
          /\ portal' = open
          /\ jobs' = IF open THEN Enqueue(Enqueue(<<>>, "scan"), "check") ELSE <<>>
          /\ ota' = [NoOta EXCEPT !.checking = open]
    /\ worker' = IdleWorker /\ fetch' = NoFetch /\ candidate' = NoCandidate
    /\ restartConfig' = FALSE /\ restartOta' = FALSE /\ tested' = NoConfig
    /\ running' = BootPartition /\ bootNext' = BootPartition
    /\ pendingVerify' = (bootNext # running)
    /\ UNCHANGED <<part, latest, posts, opens>>

RestartConfig == loopPc = "restart" /\ restartConfig /\ Boot(config) /\ UNCHANGED crashes

\* Mutant of RestartOta: the restart waits for the portal to be closed.
RestartOtaWhenClosed ==
    loopPc = "restart" /\ restartOta /\ ~portal /\ Boot(config) /\ UNCHANGED crashes

RestartOta == loopPc = "restart" /\ restartOta /\ Boot(config) /\ UNCHANGED crashes

SelfTestFails == loopPc = "selftest" /\ pendingVerify /\ Boot(config) /\ UNCHANGED crashes

\* The serial command "factory-reset" and both buttons at power-on.
FactoryReset ==
    /\ loopPc = "serial"
    /\ crashes < MaxCrashes /\ crashes' = crashes + 1
    /\ Boot(NoConfig)

Crash ==
    /\ crashes < MaxCrashes /\ crashes' = crashes + 1
    /\ Boot(config)

-----------------------------------------------------------------------------
(* The network task.                                                       *)

mainVars == <<loopPc, portal, restartConfig, restartOta, config, boundVars>>

\* worker_test_candidate and worker_install_ota copy what they need first.
TakeJob ==
    /\ worker.at = "idle" /\ jobs # <<>>
    /\ jobs' = Tail(jobs)
    /\ worker' = [at |-> Head(jobs),
                  config |-> IF Head(jobs) = "test" THEN candidate.pending ELSE NoConfig,
                  version |-> IF Head(jobs) = "install" /\ ota.available THEN ota.version ELSE 0]
    /\ UNCHANGED <<mainVars, fetch, candidate, ota, tested, part, running, bootNext, pendingVerify>>

FetchDone ==
    /\ worker.at = "fetch" /\ worker' = IdleWorker
    /\ fetch' = [fetch EXCEPT !.ready = TRUE]
    /\ UNCHANGED <<mainVars, jobs, candidate, ota, tested, part, running, bootNext, pendingVerify>>

\* Mutant of ScanDone: the scan is repeated until it finds a network.
ScanPolls ==
    /\ worker.at = "scan"
    /\ UNCHANGED deviceVars

ScanDone ==
    /\ worker.at = "scan" /\ worker' = IdleWorker
    /\ UNCHANGED <<mainVars, jobs, fetch, candidate, ota, tested, part, running, bootNext, pendingVerify>>

\* The candidate's Wi-Fi, the time and the candidate's server, in that order;
\* a failure of any goes back to the previous connection.
TestDone(ok) ==
    /\ worker.at = "test" /\ worker' = IdleWorker
    /\ candidate' = [candidate EXCEPT !.ready = TRUE, !.success = ok, !.inFlight = FALSE]
    /\ tested' = IF ok THEN worker.config ELSE tested
    /\ UNCHANGED <<mainVars, jobs, fetch, ota, part, running, bootNext, pendingVerify>>

\* validate_firmware_manifest: strictly newer than what runs.
Acceptable(version) == version > part[running].version

\* worker_get_manifest.
ManifestRead ==
    /\ worker.at = "check" /\ worker' = [worker EXCEPT !.at = "checked"]
    /\ config # NoConfig
    /\ Acceptable(latest)
    /\ ota' = [ota EXCEPT !.available = TRUE, !.version = latest]
    /\ UNCHANGED <<mainVars, jobs, fetch, candidate, tested, part, running, bootNext, pendingVerify>>

ManifestFails ==
    /\ worker.at = "check" /\ worker' = [worker EXCEPT !.at = "checked"]
    /\ UNCHANGED <<mainVars, jobs, fetch, candidate, ota, tested, part, running, bootNext, pendingVerify>>

CheckDone ==
    /\ worker.at = "checked" /\ worker' = IdleWorker
    /\ ota' = [ota EXCEPT !.checking = FALSE]
    /\ UNCHANGED <<mainVars, jobs, fetch, candidate, tested, part, running, bootNext, pendingVerify>>

\* Update.begin and the first Update.write: the inactive partition is gone.
EraseSlot ==
    /\ worker.at = "install" /\ worker.version > 0
    /\ worker' = [worker EXCEPT !.at = "download"]
    /\ part' = [part EXCEPT ![Other(running)] = [version |-> worker.version, whole |-> FALSE]]
    /\ UNCHANGED <<mainVars, jobs, fetch, candidate, ota, tested, running, bootNext, pendingVerify>>

\* Size and SHA-256 match and Update.end selects the partition.
Select ==
    /\ worker.at = "download" /\ worker' = [worker EXCEPT !.at = "installed"]
    /\ part' = [part EXCEPT ![Other(running)].whole = TRUE]
    /\ bootNext' = Other(running)
    /\ UNCHANGED <<mainVars, jobs, fetch, candidate, ota, tested, running, pendingVerify>>

InstallFails ==
    /\ worker.at \in {"install", "download"} /\ worker' = [worker EXCEPT !.at = "failed"]
    /\ UNCHANGED <<mainVars, jobs, fetch, candidate, ota, tested, part, running, bootNext, pendingVerify>>

InstallDone ==
    /\ worker.at \in {"installed", "failed"} /\ worker' = IdleWorker
    /\ ota' = [ota EXCEPT !.installing = FALSE, !.resultReady = TRUE,
                          !.success = worker.at = "installed",
                          !.available = @ /\ worker.at # "installed"]
    /\ UNCHANGED <<mainVars, jobs, fetch, candidate, tested, part, running, bootNext, pendingVerify>>

\* The administrator publishes a newer firmware.
Publish ==
    /\ latest < MaxRelease /\ latest' = latest + 1
    /\ UNCHANGED <<ramVars, flashVars, posts, opens, crashes>>

-----------------------------------------------------------------------------
LoopNext ==
    \/ SerialPortal \/ NoCommand \/ NoRequest \/ PostConfig \/ PostInstall
    \/ ClosePortal \/ KeepPortal
    \/ TakeFetch \/ CommitCandidate \/ CommitFails \/ NoCommit \/ TakeOta
    \/ ButtonPortal \/ NoPress \/ QueueFetch \/ NoFetchDue
    \/ SelfTestPasses \/ SelfTestFails \/ NoSelfTest
    \/ RestartConfig \/ RestartOta \/ NoRestart

WorkerNext ==
    \/ TakeJob \/ FetchDone \/ ScanDone \/ TestDone(TRUE) \/ TestDone(FALSE)
    \/ ManifestRead \/ ManifestFails \/ CheckDone
    \/ EraseSlot \/ Select \/ InstallFails \/ InstallDone

DeviceNext == LoopNext \/ WorkerNext \/ FactoryReset \/ Crash \/ Publish

DeviceSpec == DeviceInit /\ [][DeviceNext]_deviceVars

\* The loop and the network task keep running, every job has time-outs, and
\* a deadline that is set passes while the loop runs.
DeviceFairSpec ==
    /\ DeviceSpec
    /\ WF_deviceVars(LoopNext) /\ WF_deviceVars(WorkerNext)
    /\ SF_deviceVars(RestartConfig) /\ SF_deviceVars(RestartOta)

-----------------------------------------------------------------------------
\* Types, and the queue never holds more than it can.
DeviceTypeOK ==
    /\ loopPc \in Loop /\ portal \in BOOLEAN
    /\ jobs \in Seq(Jobs) /\ Len(jobs) <= QueueCap
    /\ worker.at \in Jobs \cup {"idle", "checked", "download", "installed", "failed"}
    /\ candidate.pending \in Configs \cup {NoConfig} /\ config \in Configs \cup {NoConfig}
    /\ part \in [Partitions -> Image]
    /\ running \in Partitions /\ bootNext \in Partitions /\ pendingVerify \in BOOLEAN

\* A partition that has been selected stays whole until it is booted, however
\* often the portal is opened and the install requested meanwhile ("another
\* POST must not erase the newly selected boot partition"), and it is newer
\* than what runs.
SelectedIsIntact ==
    bootNext # running =>
        part[bootNext].whole /\ part[bootNext].version > part[running].version

\* The portal commits exactly the configuration that passed the test: with
\* requests, tests and commits interleaved, never one that replaced it.
CommittedWasTested == [][config' # config /\ config' # NoConfig => config' = tested]_deviceVars

\* Every reservation of the network ends.
ReservationEnds ==
    (candidate.inFlight \/ ota.installing) ~> ~(candidate.inFlight \/ ota.installing)

\* An image that was selected is booted: no reopening of the portal loses the
\* result that makes the loop restart.
SelectedIsBooted == bootNext # running ~> bootNext = running

\* "Before that, a crash or restart rolls back to the previous version"
\* (docs/firmware-ota.md): an image on probation has a version to go back to.
RollbackTargetWhole == pendingVerify => part[Other(running)].whole
=============================================================================
