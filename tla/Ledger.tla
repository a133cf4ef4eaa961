------------------------------- MODULE Ledger -------------------------------
(***************************************************************************)
(* The agent's in-memory ledger of active tasks                            *)
(* (internal/agent/ledger.go), the loopback hook endpoint that feeds it    *)
(* (internal/agent/hookserver.go) and the hook forwarders that produce its *)
(* events (internal/hooks/event.go, cmd/quota-monitor/main.go).            *)
(*                                                                         *)
(* Every provider hook runs a process of its own that stamps one event and *)
(* posts it with a one second deadline.  Events therefore reach the ledger *)
(* in any order, late, or not at all.  The ledger orders nothing: it takes *)
(* the stamp of the event it is applying as its own "now".                 *)
(*                                                                         *)
(* One clock is enough: forwarders and agent run on the same host.         *)
(***************************************************************************)
EXTENDS Integers

CONSTANTS
    Providers,      \* "codex" and "claude"
    Sessions,       \* opaque session ids
    TaskIds,        \* opaque subagent ids
    NoId,           \* an event without a subagent id
    TTL,            \* Ledger.ttl, DefaultTaskTTL = 15 min
    Tolerance,      \* stamps at or beyond now + 1 min are not believed
    MaxFutureSkew,  \* the service's MaxFutureSkew = 5 min
    MaxLag,         \* bound: how far a payload timestamp lies in the past
    MaxLead,        \* bound: how far it lies in the future
    MaxClock,       \* bound on time
    MaxEvents,      \* bound on the number of hooks fired
    MaxRestarts     \* bound on the number of agent restarts

ASSUME LedgerAssumption ==
    /\ TTL \in Nat /\ Tolerance \in Nat \ {0} /\ MaxFutureSkew \in Nat
    /\ MaxLag \in Nat /\ MaxLead \in Nat
    /\ MaxClock \in Nat /\ MaxEvents \in Nat /\ MaxRestarts \in Nat
    /\ Tolerance <= MaxFutureSkew

VARIABLES
    clock,      \* wall clock of the host
    inflight,   \* events stamped by a forwarder and not yet handled
    tasks,      \* Ledger.tasks: a function on the keys of active tasks
    emitted,    \* number of hooks fired so far
    restarts,   \* number of agent restarts so far
    heard       \* history: when an event last started or touched a task

vars == <<clock, inflight, tasks, emitted, restarts, heard>>

-----------------------------------------------------------------------------
EventNames == {"UserPromptSubmit", "PostToolUse", "Stop", "StopFailure",
               "SessionEnd", "SubagentStart", "SubagentStop"}

Event == [provider : Providers, name : EventNames, session : Sessions,
          task : TaskIds \cup {NoId}, at : Int]

\* Only hooks about a tool call or a subagent carry a subagent id.
CarriesTaskId == {"PostToolUse", "SubagentStart", "SubagentStop"}

\* ledgerKey: the parent session of a record is part of its key, because a
\* subtask is filed under "session:task".
TaskKey == [provider : Providers, kind : {"main"}, session : Sessions,
            id : {NoId}]
           \cup
           [provider : Providers, kind : {"sub"}, session : Sessions,
            id : TaskIds \cup {NoId}]

Task == [startedAt : Int, lastSeenAt : Int]

MainKey(e) == [provider |-> e.provider, kind |-> "main",
               session |-> e.session, id |-> NoId]

\* subTaskID: a missing id is filed under "unknown" (here NoId).
SubKey(e) == [provider |-> e.provider, kind |-> "sub",
              session |-> e.session, id |-> e.task]

-----------------------------------------------------------------------------
(* The map operations of Apply, as functions from one ledger to the next.  *)

\* Mutant of Prune: main tasks are left to their Stop hook.
PruneSubsOnly(ts, now) ==
    [k \in {j \in DOMAIN ts : j.kind = "main" \/ ts[j].lastSeenAt >= now - TTL}
        |-> ts[k]]

\* pruneLocked: what was last seen before the cutoff is deleted.
Prune(ts, now) ==
    [k \in {j \in DOMAIN ts : ts[j].lastSeenAt >= now - TTL} |-> ts[k]]

\* Mutant of Ended: SubagentStop without an id ends every child there is.
EndedAnyParent(e) ==
    CASE e.name \in {"Stop", "StopFailure"} -> {MainKey(e)}
      [] e.name = "SessionEnd" ->
            {k \in TaskKey : k.provider = e.provider /\ k.session = e.session}
      [] e.name = "SubagentStop" ->
            IF e.task # NoId THEN {SubKey(e)}
            ELSE {k \in TaskKey : k.provider = e.provider /\ k.kind = "sub"}
      [] OTHER -> {}

\* The keys an event removes.
Ended(e) ==
    CASE e.name \in {"Stop", "StopFailure"} -> {MainKey(e)}
      [] e.name = "SessionEnd" ->
            {k \in TaskKey : k.provider = e.provider /\ k.session = e.session}
      [] e.name = "SubagentStop" ->
            IF e.task # NoId THEN {SubKey(e)}
            ELSE {k \in TaskKey : /\ k.provider = e.provider
                                  /\ k.kind = "sub"
                                  /\ k.session = e.session}
      [] OTHER -> {}

\* The task an event starts, or finds already started.
Started(e) ==
    CASE e.name = "UserPromptSubmit" -> {MainKey(e)}
      [] e.name = "SubagentStart"    -> {SubKey(e)}
      [] OTHER                       -> {}

\* The tasks a progress event keeps alive, where they exist.
Touched(e) ==
    IF e.name # "PostToolUse" THEN {}
    ELSE {MainKey(e)} \cup (IF e.task # NoId THEN {SubKey(e)} ELSE {})

Effect(ts, e, now) ==
    [k \in (DOMAIN ts \cup Started(e)) \ Ended(e) |->
        IF k \in Started(e) \cup Touched(e)
        THEN [startedAt  |-> IF k \in DOMAIN ts THEN ts[k].startedAt ELSE now,
              lastSeenAt |-> now]
        ELSE ts[k]]

\* Apply's "now": the event's own stamp unless it lies in the future.
EventTime(e) == IF e.at < clock + Tolerance THEN e.at ELSE clock

\* An event stamped more than a TTL ago is not replayed.
Expired(e) == e.at < clock - TTL

Apply(e) == Effect(Prune(tasks, EventTime(e)), e, EventTime(e))
-----------------------------------------------------------------------------
EmptyLedger == [k \in {} |-> 0]

Init ==
    /\ clock = 0
    /\ inflight = {}
    /\ tasks = EmptyLedger
    /\ emitted = 0
    /\ restarts = 0
    /\ heard = [k \in TaskKey |-> 0]

Tick ==
    /\ clock < MaxClock
    /\ clock' = clock + 1
    /\ UNCHANGED <<inflight, tasks, emitted, restarts, heard>>

\* ParseEvent in a forwarder: the stamp is the payload's timestamp when it
\* has one, else the forwarder's clock.
EmitHook ==
    /\ emitted < MaxEvents
    /\ \E p \in Providers, n \in EventNames, s \in Sessions,
          t \in TaskIds \cup {NoId}, at \in (clock - MaxLag)..(clock + MaxLead) :
          /\ t # NoId => n \in CarriesTaskId
          /\ inflight' = inflight \cup {[provider |-> p, name |-> n,
                                        session |-> s, task |-> t, at |-> at]}
    /\ emitted' = emitted + 1
    /\ UNCHANGED <<clock, tasks, restarts, heard>>

\* The forwarder's deadline passes, no agent is listening, or POST /v1/events
\* answers 400 because the hook came from the collector's own probe.
LoseHook(e) ==
    /\ inflight' = inflight \ {e}
    /\ UNCHANGED <<clock, tasks, emitted, restarts, heard>>

\* Apply returns early on an event stamped more than a TTL ago.
IgnoreEvent(e) ==
    /\ Expired(e)
    /\ inflight' = inflight \ {e}
    /\ UNCHANGED <<clock, tasks, emitted, restarts, heard>>

ApplyEvent(e) ==
    /\ ~Expired(e)
    /\ inflight' = inflight \ {e}
    /\ tasks' = Apply(e)
    /\ heard' = [k \in TaskKey |->
                    IF k \in Started(e) \cup Touched(e) THEN clock
                    ELSE heard[k]]
    /\ UNCHANGED <<clock, emitted, restarts>>

\* Ledger.Snapshot prunes with the real clock and returns what is left: the
\* ActiveTasks of a report sent now.
Reported == Prune(tasks, clock)

Snapshot ==
    /\ tasks' = Reported
    /\ UNCHANGED <<clock, inflight, emitted, restarts, heard>>

\* The ledger is in memory only: a restarted agent starts with none.
Restart ==
    /\ restarts < MaxRestarts
    /\ restarts' = restarts + 1
    /\ tasks' = EmptyLedger
    /\ UNCHANGED <<clock, inflight, emitted, heard>>

Next ==
    \/ Tick
    \/ EmitHook
    \/ \E e \in inflight : LoseHook(e)
    \/ \E e \in inflight : IgnoreEvent(e)
    \/ \E e \in inflight : ApplyEvent(e)
    \/ Snapshot
    \/ Restart

Spec == Init /\ [][Next]_vars
-----------------------------------------------------------------------------
IsLedger(ts) ==
    /\ DOMAIN ts \subseteq TaskKey
    /\ ts = [k \in DOMAIN ts |-> ts[k]]
    /\ \A k \in DOMAIN ts : ts[k] \in Task

\* Every variable has the shape of the Go value it stands for.
TypeOK ==
    /\ clock \in Nat
    /\ inflight \subseteq Event
    /\ IsLedger(tasks)
    /\ emitted \in Nat
    /\ restarts \in Nat
    /\ heard \in [TaskKey -> Nat]

\* A missed Stop hook cannot keep a task active: a reported task was started
\* or touched by an event the agent handled less than a TTL (plus the minute
\* a stamp may run ahead) before the report, whatever hooks were lost, late
\* or reordered (pruneLocked in Snapshot).
PhantomBounded ==
    \A k \in DOMAIN Reported :
        clock < heard[k] + TTL + Tolerance

\* No report is refused as "timestamp is too far in the future" by
\* ValidateAgentReport on an agent whose clock agrees with the service's:
\* stamps from the future are cut off by Apply before they are stored.
NotTooFarInFuture ==
    \A k \in DOMAIN Reported :
        /\ Reported[k].startedAt <= clock + MaxFutureSkew
        /\ Reported[k].lastSeenAt <= clock + MaxFutureSkew

Removed(k) == k \in DOMAIN tasks /\ k \notin DOMAIN tasks'

Changed(k) == \/ k \in DOMAIN tasks' \ DOMAIN tasks
              \/ k \in DOMAIN tasks \cap DOMAIN tasks' /\ tasks'[k] # tasks[k]

\* Between restarts, a task is started, touched or ended only by an event of
\* its own provider and session; any other disappearance is expiry, at most
\* one Tolerance early.  No event ends a task of another session (the
\* provider and Parent tests in Apply's deletion loops).
OnlyOwnEventsOrExpiry ==
    [][restarts' = restarts =>
        \A k \in TaskKey :
            Removed(k) \/ Changed(k) =>
                \/ \E e \in inflight \ inflight' :
                      e.provider = k.provider /\ e.session = k.session
                \/ Removed(k) /\ tasks[k].lastSeenAt < clock + Tolerance - TTL
      ]_vars

\* The task part of ValidateAgentReport that compares the two stamps of a
\* task: "lastSeenAt precedes startedAt" refuses the whole report.
ReportedTasksOrdered ==
    \A k \in DOMAIN Reported :
        Reported[k].startedAt <= Reported[k].lastSeenAt
=============================================================================
