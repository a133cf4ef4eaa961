----------------------------- MODULE ReportStore -----------------------------
(***************************************************************************)
(* Full-state reports from agents to the central service                   *)
(* (internal/agent/agent.go, internal/server/server.go), the SQLite store  *)
(* that keeps the newest one of each agent and the display snapshot that   *)
(* is computed from it (internal/store/store.go).                          *)
(*                                                                         *)
(* A report may be lost, arrive late or arrive twice.  An agent's clock    *)
(* runs forward but may be ahead of or behind the service's.  One provider *)
(* and at most one task per agent stand for all: providers are read and    *)
(* written independently of each other, and tasks are only counted.        *)
(* ReplaceAgentReport is one SQLite transaction and hence one step; the    *)
(* queries of BuildDisplaySnapshot share no transaction and are separate   *)
(* steps.                                                                  *)
(***************************************************************************)
EXTENDS Integers, FiniteSets

CONSTANTS
    Agents,         \* agent ids; numbers, because rows are ordered by id
    OnlineWindow,   \* AgentOnlineWindow, 45 s
    FreshWindow,    \* ProviderFreshWindow, 5 min
    TaskTTL,        \* TaskTTL, 15 min
    MaxFutureSkew,  \* 5 min
    MaxReportAge,   \* 15 min
    MaxDrift,       \* bound: how far an agent's clock runs ahead
    MaxClock,       \* bound on the service's clock
    MaxChanges,     \* bound on the version each agent's state reaches
    MaxInFlight,    \* bound on the number of undelivered reports
    MaxSnapshots    \* bound on the number of display snapshots

ASSUME ReportStoreAssumption ==
    /\ Agents \subseteq Nat \ {0} /\ IsFiniteSet(Agents)
    /\ OnlineWindow \in Nat /\ FreshWindow \in Nat /\ TaskTTL \in Nat
    /\ MaxFutureSkew \in Nat /\ MaxReportAge \in Nat /\ MaxDrift \in Nat
    /\ MaxClock \in Nat /\ MaxChanges \in [Agents -> Nat] /\ MaxInFlight \in Nat
    /\ MaxSnapshots \in Nat

VARIABLES
    clock,      \* the service's clock
    aclock,     \* each agent's clock
    local,      \* each agent's own state
    inflight,   \* reports sent and still able to arrive
    db,         \* the rows of each agent: agents, provider_reports, active_tasks
    build,      \* the display snapshot being computed
    shown,      \* the last display snapshot delivered
    restarted,  \* the agents that have restarted
    requests    \* number of display snapshots requested so far

vars == <<clock, aclock, local, inflight, db, build, shown, restarted, requests>>

-----------------------------------------------------------------------------
Never == 0      \* a zero time.Time: no observation, no task, no report

\* observedAt and windows of the provider, lastSeenAt of the task.  The
\* version counts the agent's state changes; no code reads it.
AgentState == [version : Nat, observedAt : Nat, windows : BOOLEAN,
               lastSeenAt : Nat]

Report == [agent : Agents, sentAt : Nat, version : Nat, observedAt : Nat,
           windows : BOOLEAN, lastSeenAt : Nat]

Row == [sentAt : Nat, receivedAt : Nat, version : Nat, observedAt : Nat,
        windows : BOOLEAN, lastSeenAt : Nat]

NoRow == [sentAt |-> Never, receivedAt |-> Never, version |-> 0,
          observedAt |-> Never, windows |-> FALSE, lastSeenAt |-> Never]

\* The agent whose sample is shown is recorded for the properties only.
Snapshot == [pc : {"idle", "provider", "tasks"}, generatedAt : Nat,
             online : Nat, observedAt : Nat,
             agent : Agents \cup {Never},
             freshness : {"fresh", "stale", "unavailable"}, tasks : Nat]

EmptySnapshot == [pc |-> "idle", generatedAt |-> Never, online |-> 0,
                  observedAt |-> Never, agent |-> Never,
                  freshness |-> "unavailable", tasks |-> 0]

\* NewAgent: nothing observed, no task.
FirstState == [version |-> 1, observedAt |-> Never, windows |-> FALSE,
               lastSeenAt |-> Never]

Init ==
    /\ clock = 1
    /\ aclock = [a \in Agents |-> 1]
    /\ local = [a \in Agents |-> FirstState]
    /\ inflight = {}
    /\ db = [a \in Agents |-> NoRow]
    /\ build = EmptySnapshot
    /\ shown = EmptySnapshot
    /\ restarted = {}
    /\ requests = 0

-----------------------------------------------------------------------------
(* The environment.                                                        *)

Tick ==
    /\ clock < MaxClock
    /\ clock' = clock + 1
    /\ UNCHANGED <<aclock, local, inflight, db, build, shown, restarted, requests>>

\* An agent's clock advances: it may lag, and lead by MaxDrift.
AgentTick(a) ==
    /\ \E t \in (aclock[a] + 1)..(clock + MaxDrift) :
          aclock' = [aclock EXCEPT ![a] = t]
    /\ UNCHANGED <<clock, local, inflight, db, build, shown, restarted, requests>>

(* The agent.                                                              *)

Change(a, observedAt, windows, lastSeenAt) ==
    /\ local[a].version < MaxChanges[a]
    /\ local' = [local EXCEPT ![a] =
                   [version |-> local[a].version + 1, observedAt |-> observedAt,
                    windows |-> windows, lastSeenAt |-> lastSeenAt]]
    /\ UNCHANGED <<clock, aclock, inflight, db, build, shown, requests>>

\* storeCollectionResult.  A success replaces the observation; a logged-out
\* success has no windows.  A failure keeps an observation with windows and
\* otherwise stores the failed report, which carries the time of the attempt.
CollectOnce(a) ==
    /\ \E windows \in BOOLEAN :
          Change(a, aclock[a], windows, local[a].lastSeenAt)
    /\ UNCHANGED restarted

\* A hook event starts or touches the task, or the task ends.
TaskEvent(a) ==
    /\ \E seen \in {Never, aclock[a]} :
          Change(a, local[a].observedAt, local[a].windows, seen)
    /\ UNCHANGED restarted

\* Provider state and ledger live in memory only.
RestartAgent(a) ==
    /\ Change(a, FirstState.observedAt, FirstState.windows, FirstState.lastSeenAt)
    /\ restarted' = restarted \cup {a}

\* ReportOnce: SnapshotReport stamps the complete state.  A request that
\* timed out may still be under way when the next report is sent.
ReportOnce(a) ==
    /\ Cardinality(inflight) < MaxInFlight
    /\ inflight' = inflight \cup
          {[agent |-> a, sentAt |-> aclock[a], version |-> local[a].version,
            observedAt |-> local[a].observedAt, windows |-> local[a].windows,
            lastSeenAt |-> local[a].lastSeenAt]}
    /\ UNCHANGED <<clock, aclock, local, db, build, shown, restarted, requests>>

LoseReport(m) ==
    /\ inflight' = inflight \ {m}
    /\ UNCHANGED <<clock, aclock, local, db, build, shown, restarted, requests>>

-----------------------------------------------------------------------------
(* The service.                                                            *)

\* The time tests of ValidateAgentReport.
ValidateAgentReport(m) ==
    /\ m.sentAt <= clock + MaxFutureSkew
    /\ m.sentAt >= clock - MaxReportAge
    /\ m.observedAt <= m.sentAt + MaxFutureSkew
    /\ m.observedAt <= clock + MaxFutureSkew
    /\ m.lastSeenAt <= m.sentAt + MaxFutureSkew
    /\ m.lastSeenAt <= clock + MaxFutureSkew

\* Mutant of NewerThanStored: the upsert without its WHERE clause.
AlwaysNewer(m) == TRUE

\* The upsert's WHERE clause; otherwise ErrStaleReport and 409.
NewerThanStored(m) == m.sentAt > db[m.agent].sentAt

\* One transaction replaces the agent's row, its providers and its tasks, or
\* changes nothing.
ReplaceAgentReport(m) ==
    /\ NewerThanStored(m)
    /\ db' = [db EXCEPT ![m.agent] =
                [sentAt |-> m.sentAt, receivedAt |-> clock,
                 version |-> m.version, observedAt |-> m.observedAt,
                 windows |-> m.windows, lastSeenAt |-> m.lastSeenAt]]

\* A report that fails either test changes nothing.  Delivery leaves the
\* report in flight: it may be delivered again.
HandleAgentReport(m) ==
    /\ ValidateAgentReport(m)
    /\ ReplaceAgentReport(m)
    /\ UNCHANGED <<clock, aclock, local, inflight, build, shown, restarted, requests>>

\* loadAgentSummary; an agent without a row is not an agent yet.
Online(a, now) ==
    db[a].sentAt # Never /\ db[a].receivedAt >= now - OnlineWindow

\* loadLatestProvider: newest observation first, then the smallest id, among
\* the rows that carry an observation.
Observed == {a \in Agents : db[a].observedAt > Never}

\* Mutant of LatestProvider: ordered by agent id only.
FirstProvider(a) ==
    /\ a \in Observed
    /\ \A b \in Observed : a <= b

LatestProvider(a) ==
    /\ a \in Observed
    /\ \A b \in Observed : \/ db[b].observedAt < db[a].observedAt
                           \/ db[b].observedAt = db[a].observedAt /\ a <= b

Freshness(row, now) ==
    IF ~row.windows THEN "unavailable"
    ELSE IF now - row.observedAt > FreshWindow THEN "stale" ELSE "fresh"

\* loadTaskSummary counts the join of live tasks and online agents.
Counted(now) ==
    {a \in Agents : Online(a, now) /\ db[a].lastSeenAt # Never
                                   /\ db[a].lastSeenAt >= now - TaskTTL}

\* BuildDisplaySnapshot reads the clock once and runs its queries one after
\* the other.  A report stored between the reading and the first query gives
\* the answer of one stored just before the reading, so the two are one step.
LoadAgentSummary ==
    /\ build.pc = "idle"
    /\ requests < MaxSnapshots
    /\ requests' = requests + 1
    /\ build' = [EmptySnapshot EXCEPT
                    !.pc = "provider", !.generatedAt = clock,
                    !.online = Cardinality({a \in Agents : Online(a, clock)})]
    /\ UNCHANGED <<clock, aclock, local, inflight, db, shown, restarted>>

LoadLatestProvider ==
    /\ build.pc = "provider"
    /\ \/ /\ Observed = {}
          /\ build' = [build EXCEPT !.pc = "tasks"]
       \/ \E a \in Agents :
             /\ LatestProvider(a)
             /\ build' = [build EXCEPT
                             !.pc = "tasks",
                             !.observedAt = db[a].observedAt, !.agent = a,
                             !.freshness = Freshness(db[a], build.generatedAt)]
    /\ UNCHANGED <<clock, aclock, local, inflight, db, shown, restarted, requests>>

LoadTaskSummary ==
    /\ build.pc = "tasks"
    /\ shown' = [build EXCEPT !.pc = "idle",
                    !.tasks = Cardinality(Counted(build.generatedAt))]
    /\ build' = EmptySnapshot
    /\ UNCHANGED <<clock, aclock, local, inflight, db, restarted, requests>>

-----------------------------------------------------------------------------
Next ==
    \/ Tick
    \/ \E a \in Agents : AgentTick(a)
    \/ \E a \in Agents : CollectOnce(a)
    \/ \E a \in Agents : TaskEvent(a)
    \/ \E a \in Agents : RestartAgent(a)
    \/ \E a \in Agents : ReportOnce(a)
    \/ \E m \in inflight : LoseReport(m)
    \/ \E m \in inflight : HandleAgentReport(m)
    \/ LoadAgentSummary
    \/ LoadLatestProvider
    \/ LoadTaskSummary

Spec == Init /\ [][Next]_vars
-----------------------------------------------------------------------------
\* Every variable has the shape of the Go value or row it stands for.
TypeOK ==
    /\ clock \in Nat
    /\ aclock \in [Agents -> Nat]
    /\ local \in [Agents -> AgentState]
    /\ inflight \subseteq Report
    /\ db \in [Agents -> Row]
    /\ build \in Snapshot
    /\ shown \in Snapshot
    /\ restarted \subseteq Agents
    /\ requests \in Nat

\* The service holds a version of the agent's state and never goes back to
\* an older one, although reports overtake each other and arrive twice: the
\* store is the register that LatestState describes.
Register == INSTANCE LatestState WITH
    current <- [a \in Agents |-> local[a].version],
    shown   <- [a \in Agents |-> db[a].version]

StoreIsRegister == Register!Spec

\* The quota sample on the display is never replaced by an older one unless
\* the agent it came from restarted (README: the sample with the newest
\* observedAt is taken): an agent only replaces its sample by a newer one,
\* and the store never goes back to an older report.
ObservationNeverRegresses ==
    [][shown'.observedAt < shown.observedAt => shown.agent \in restarted]_vars

\* A snapshot that counts active tasks names an online agent that runs them
\* (docs/architecture.md: agents with no report for 45 seconds are offline
\* and their tasks are not counted).
SnapshotCoherent == shown.tasks <= shown.online
=============================================================================
