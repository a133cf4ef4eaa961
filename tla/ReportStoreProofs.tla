-------------------------- MODULE ReportStoreProofs --------------------------
(***************************************************************************)
(* The store implements the forward-only register LatestState, for any     *)
(* finite set of agents, any number of reports in flight and any drift of  *)
(* the agents' clocks.                                                     *)
(*                                                                         *)
(* The store compares only sentAt.  That this orders the states the        *)
(* reports carry is the invariant: among the reports of one agent that     *)
(* can still arrive, and against the stored one, a later sentAt never      *)
(* carries an earlier state.                                               *)
(***************************************************************************)
EXTENDS ReportStore, FiniteSetTheorems, TLAPS

\* No report runs ahead of its agent's clock or of its agent's state.
ReportsPast ==
    \A m \in inflight : /\ m.sentAt <= aclock[m.agent]
                        /\ m.version <= local[m.agent].version

RowsPast == \A a \in Agents : db[a].version <= local[a].version

\* sentAt orders the states of the reports still able to arrive ...
ReportsOrdered ==
    \A m, n \in inflight :
        m.agent = n.agent /\ m.sentAt < n.sentAt => m.version <= n.version

\* ... and none that is newer than the stored report carries an older state.
RowsOrdered ==
    \A m \in inflight :
        db[m.agent].sentAt < m.sentAt => db[m.agent].version <= m.version

\* The part of TypeOK the order depends on.
DataTypeOK ==
    /\ clock \in Nat
    /\ aclock \in [Agents -> Nat]
    /\ local \in [Agents -> AgentState]
    /\ inflight \subseteq Report
    /\ db \in [Agents -> Row]

OrderInv ==
    DataTypeOK /\ ReportsPast /\ RowsPast /\ ReportsOrdered /\ RowsOrdered

dataVars == <<clock, aclock, local, inflight, db>>
-----------------------------------------------------------------------------
\* Every change of an agent's state increases its version by one.
LEMMA AgentChange ==
    ASSUME DataTypeOK, NEW a \in Agents,
           CollectOnce(a) \/ TaskEvent(a) \/ RestartAgent(a)
    PROVE  \E s \in AgentState :
              /\ s.version = local[a].version + 1
              /\ local' = [local EXCEPT ![a] = s]
              /\ UNCHANGED <<clock, aclock, inflight, db>>
<1>1. PICK o, w, t : Change(a, o, w, t) /\ o \in Nat /\ w \in BOOLEAN /\ t \in Nat
  <2>1. local[a] \in AgentState /\ aclock[a] \in Nat
    BY DEF DataTypeOK
  <2>2. CASE CollectOnce(a)
    BY <2>1, <2>2 DEF CollectOnce, AgentState
  <2>3. CASE TaskEvent(a)
    BY <2>1, <2>3 DEF TaskEvent, AgentState, Never
  <2>4. CASE RestartAgent(a)
    BY <2>4 DEF RestartAgent, FirstState, Never
  <2> QED
    BY <2>2, <2>3, <2>4
<1> DEFINE s == [version |-> local[a].version + 1, observedAt |-> o,
                 windows |-> w, lastSeenAt |-> t]
<1>2. s \in AgentState /\ s.version = local[a].version + 1
  BY <1>1 DEF DataTypeOK, AgentState
<1> QED
  BY <1>1, <1>2 DEF Change

\* The empty database satisfies the invariant.
LEMMA InitOrderInv == Init => OrderInv
<1> SUFFICES ASSUME Init PROVE OrderInv
  OBVIOUS
<1>1. DataTypeOK
  BY DEF Init, DataTypeOK, FirstState, AgentState, NoRow, Row, Never
<1>2. ReportsPast /\ ReportsOrdered /\ RowsOrdered
  BY DEF Init, ReportsPast, ReportsOrdered, RowsOrdered
<1>3. RowsPast
  BY DEF Init, RowsPast, NoRow, FirstState
<1> QED
  BY <1>1, <1>2, <1>3 DEF OrderInv

\* The display snapshot reads the store and writes nothing the order is about.
LEMMA SnapshotReads ==
    LoadAgentSummary \/ LoadLatestProvider \/ LoadTaskSummary
        => UNCHANGED dataVars
BY DEF LoadAgentSummary, LoadLatestProvider, LoadTaskSummary, dataVars

\* Every step of agents, service and display preserves the invariant.
LEMMA NextOrderInv == OrderInv /\ [Next]_vars => OrderInv'
<1> SUFFICES ASSUME OrderInv, [Next]_vars
             PROVE  OrderInv'
  OBVIOUS
<1> USE DEF OrderInv
<1>1. CASE Tick
  BY <1>1 DEF Tick, DataTypeOK, ReportsPast, RowsPast, ReportsOrdered, RowsOrdered
<1>2. ASSUME NEW a \in Agents, AgentTick(a)
      PROVE  OrderInv'
  <2>1. PICK t \in (aclock[a] + 1)..(clock + MaxDrift) :
           aclock' = [aclock EXCEPT ![a] = t]
    BY <1>2 DEF AgentTick
  <2>2. t \in Nat /\ t >= aclock[a]
    BY <2>1, ReportStoreAssumption DEF DataTypeOK
  <2>3. UNCHANGED <<clock, local, inflight, db>>
    BY <1>2 DEF AgentTick
  <2>4. DataTypeOK'
    BY <2>1, <2>2, <2>3 DEF DataTypeOK
  <2>5. ReportsPast'
    <3> SUFFICES ASSUME NEW m \in inflight
                 PROVE  m.sentAt <= aclock'[m.agent]
      BY <2>3 DEF ReportsPast
    <3>1. m.agent \in Agents /\ m.sentAt \in Nat
      BY DEF DataTypeOK, Report
    <3>2. aclock[m.agent] \in Nat /\ m.sentAt <= aclock[m.agent]
      BY <3>1 DEF DataTypeOK, ReportsPast
    <3> QED
      BY <2>1, <2>2, <3>1, <3>2 DEF DataTypeOK
  <2> QED
    BY <2>3, <2>4, <2>5 DEF RowsPast, ReportsOrdered, RowsOrdered
<1>3. ASSUME NEW a \in Agents, CollectOnce(a) \/ TaskEvent(a) \/ RestartAgent(a)
      PROVE  OrderInv'
  <2>1. PICK s \in AgentState :
           /\ s.version = local[a].version + 1
           /\ local' = [local EXCEPT ![a] = s]
           /\ UNCHANGED <<clock, aclock, inflight, db>>
    BY <1>3, AgentChange
  <2>2. DataTypeOK'
    BY <2>1 DEF DataTypeOK
  <2>3. \A b \in Agents : /\ local[b].version \in Nat
                          /\ local[b].version <= local'[b].version
    BY <2>1 DEF DataTypeOK, AgentState
  <2>4. \A b \in Agents : local'[b].version \in Nat
    BY <2>2 DEF DataTypeOK, AgentState
  <2>5. ReportsPast'
    <3> SUFFICES ASSUME NEW m \in inflight
                 PROVE  m.version <= local'[m.agent].version
      BY <2>1 DEF ReportsPast
    <3>1. m.agent \in Agents /\ m.version \in Nat
      BY DEF DataTypeOK, Report
    <3> QED
      BY <2>3, <2>4, <3>1 DEF ReportsPast
  <2>6. RowsPast'
    <3> SUFFICES ASSUME NEW b \in Agents
                 PROVE  db[b].version <= local'[b].version
      BY <2>1 DEF RowsPast
    <3>1. db[b].version \in Nat
      BY DEF DataTypeOK, Row
    <3> QED
      BY <2>3, <2>4, <3>1 DEF RowsPast
  <2> QED
    BY <2>1, <2>2, <2>5, <2>6 DEF ReportsOrdered, RowsOrdered
<1>4. ASSUME NEW a \in Agents, ReportOnce(a)
      PROVE  OrderInv'
  <2> DEFINE r == [agent |-> a, sentAt |-> aclock[a],
                   version |-> local[a].version,
                   observedAt |-> local[a].observedAt,
                   windows |-> local[a].windows,
                   lastSeenAt |-> local[a].lastSeenAt]
  <2>1. /\ inflight' = inflight \cup {r}
        /\ UNCHANGED <<clock, aclock, local, db>>
    BY <1>4 DEF ReportOnce
  <2>2. r \in Report
    BY DEF DataTypeOK, AgentState, Report
  <2>3. r.agent = a /\ r.sentAt = aclock[a] /\ r.version = local[a].version
    OBVIOUS
  <2> HIDE DEF r
  <2>4. \A m \in inflight' : m.agent \in Agents /\ m.sentAt \in Nat /\ m.version \in Nat
    BY <2>1, <2>2 DEF DataTypeOK, Report
  <2>5. DataTypeOK'
    BY <2>1, <2>2 DEF DataTypeOK
  <2>6. ReportsPast'
    BY <2>1, <2>3, <2>4 DEF ReportsPast, DataTypeOK, AgentState
  <2>7. ReportsOrdered'
    <3> SUFFICES ASSUME NEW m \in inflight', NEW n \in inflight',
                        m.agent = n.agent, m.sentAt < n.sentAt
                 PROVE  m.version <= n.version
      BY DEF ReportsOrdered
    <3>1. CASE m \in inflight /\ n \in inflight
      BY <3>1 DEF ReportsOrdered
    <3>2. CASE n = r
      BY <2>1, <2>3, <2>4, <2>6, <3>2 DEF ReportsPast
    <3>3. CASE m = r /\ n \in inflight
      <4>1. n.sentAt <= aclock[a]
        BY <2>3, <3>3 DEF ReportsPast
      <4>2. m.sentAt = aclock[a] /\ aclock[a] \in Nat /\ n.sentAt \in Nat
        BY <2>3, <2>4, <3>3 DEF DataTypeOK
      <4> QED
        BY <4>1, <4>2
    <3> QED
      BY <2>1, <3>1, <3>2, <3>3
  <2>8. RowsOrdered'
    BY <2>1, <2>3 DEF RowsOrdered, RowsPast
  <2>9. RowsPast'
    BY <2>1 DEF RowsPast
  <2> QED
    BY <2>5, <2>6, <2>7, <2>8, <2>9
<1>5. CASE \E m \in inflight : LoseReport(m)
  BY <1>5 DEF LoseReport, DataTypeOK, ReportsPast, RowsPast, ReportsOrdered, RowsOrdered
<1>6. ASSUME NEW m \in inflight, HandleAgentReport(m)
      PROVE  OrderInv'
  <2> DEFINE row == [sentAt |-> m.sentAt, receivedAt |-> clock,
                     version |-> m.version, observedAt |-> m.observedAt,
                     windows |-> m.windows, lastSeenAt |-> m.lastSeenAt]
  <2>1. /\ db' = [db EXCEPT ![m.agent] = row]
        /\ UNCHANGED <<clock, aclock, local, inflight>>
    BY <1>6 DEF HandleAgentReport, ReplaceAgentReport
  <2>2. m.agent \in Agents /\ row \in Row
    BY DEF DataTypeOK, Report, Row
  <2>3. row.sentAt = m.sentAt /\ row.version = m.version
    OBVIOUS
  <2> HIDE DEF row
  <2>4. DataTypeOK'
    BY <2>1, <2>2 DEF DataTypeOK
  <2>5. \A b \in Agents : db'[b] = IF b = m.agent THEN row ELSE db[b]
    BY <2>1, <2>2 DEF DataTypeOK
  <2>6. RowsPast'
    BY <2>1, <2>3, <2>5 DEF RowsPast, ReportsPast
  <2>7. RowsOrdered'
    <3> SUFFICES ASSUME NEW n \in inflight, db'[n.agent].sentAt < n.sentAt
                 PROVE  db'[n.agent].version <= n.version
      BY <2>1 DEF RowsOrdered
    <3>1. n.agent \in Agents
      BY DEF DataTypeOK, Report
    <3> QED
      BY <2>3, <2>5, <3>1 DEF RowsOrdered, ReportsOrdered
  <2>8. ReportsPast' /\ ReportsOrdered'
    BY <2>1 DEF ReportsPast, ReportsOrdered
  <2> QED
    BY <2>4, <2>6, <2>7, <2>8
<1>7. CASE LoadAgentSummary \/ LoadLatestProvider \/ LoadTaskSummary
           \/ UNCHANGED vars
  <2>1. UNCHANGED dataVars
    BY <1>7, SnapshotReads DEF vars, dataVars
  <2> QED
    BY <2>1 DEF dataVars, DataTypeOK, ReportsPast, RowsPast, ReportsOrdered,
                RowsOrdered
<1> QED
  BY <1>1, <1>2, <1>3, <1>4, <1>5, <1>6, <1>7 DEF Next

\* sentAt orders the states of all reports that can still be stored.
THEOREM ReportsStayOrdered == Spec => []OrderInv
BY InitOrderInv, NextOrderInv, PTL DEF Spec
-----------------------------------------------------------------------------
\* Every step of the reporting pipeline is a step of the register: an agent's
\* state advances, the service catches up, or neither changes.
LEMMA NextRefines == OrderInv /\ [Next]_vars => [Register!Next]_(Register!vars)
<1> SUFFICES ASSUME OrderInv, [Next]_vars
             PROVE  Register!Next \/ UNCHANGED Register!vars
  OBVIOUS
<1> USE DEF OrderInv
<1>1. ASSUME NEW a \in Agents, CollectOnce(a) \/ TaskEvent(a) \/ RestartAgent(a)
      PROVE  Register!Next
  <2>1. PICK s \in AgentState :
           /\ s.version = local[a].version + 1
           /\ local' = [local EXCEPT ![a] = s]
           /\ UNCHANGED <<clock, aclock, inflight, db>>
    BY <1>1, AgentChange
  <2>2. \A b \in Agents : local'[b].version = IF b = a THEN local[a].version + 1
                                              ELSE local[b].version
    BY <2>1 DEF DataTypeOK
  <2>3. Register!Advance(a)
    BY <2>1, <2>2 DEF Register!Advance
  <2> QED
    BY <2>3 DEF Register!Next
<1>2. ASSUME NEW m \in inflight, HandleAgentReport(m)
      PROVE  Register!Next
  <2> DEFINE a == m.agent
  <2>1. /\ a \in Agents /\ m.version \in Nat
        /\ db[a].version \in Nat /\ local[a].version \in Nat
    BY DEF DataTypeOK, Report, Row, AgentState
  <2>2. db[a].version <= m.version /\ m.version <= local[a].version
    BY <1>2, <2>1 DEF HandleAgentReport, ReplaceAgentReport, NewerThanStored, RowsOrdered, ReportsPast
  <2>3. /\ \A b \in Agents : db'[b].version = IF b = a THEN m.version
                                              ELSE db[b].version
        /\ local' = local
    BY <1>2, <2>1 DEF HandleAgentReport, ReplaceAgentReport, DataTypeOK
  <2>4. Register!CatchUp(a)
    <3>1. m.version \in db[a].version..local[a].version
      BY <2>1, <2>2
    <3>2. [b \in Agents |-> db'[b].version] =
             [[b \in Agents |-> db[b].version] EXCEPT ![a] = m.version]
      BY <2>1, <2>3
    <3> QED
      BY <2>1, <2>3, <3>1, <3>2 DEF Register!CatchUp
  <2> QED
    BY <2>1, <2>4 DEF Register!Next
<1>3. CASE UNCHANGED <<local, db>>
  BY <1>3 DEF Register!vars
<1>4. CASE \/ Tick \/ \E a \in Agents : AgentTick(a) \/ ReportOnce(a)
           \/ \E m \in inflight : LoseReport(m)
           \/ LoadAgentSummary \/ LoadLatestProvider \/ LoadTaskSummary
           \/ UNCHANGED vars
  <2>1. UNCHANGED <<local, db>>
    BY <1>4, SnapshotReads
       DEF Tick, AgentTick, ReportOnce, LoseReport, dataVars, vars
  <2> QED
    BY <1>3, <2>1
<1> QED
  BY <1>1, <1>2, <1>4 DEF Next

\* The service never goes back to an older state of an agent, however its
\* reports are delayed, reordered, duplicated or lost, as long as the agent's
\* clock does not run backwards.
THEOREM StoreImplementsRegister == Spec => StoreIsRegister
<1>1. Init => Register!Init
  BY DEF Init, Register!Init, FirstState, NoRow
<1> QED
  BY <1>1, NextRefines, ReportsStayOrdered, PTL
     DEF Spec, StoreIsRegister, Register!Spec

-----------------------------------------------------------------------------
(* The observation on the display.  The store orders reports by sentAt and *)
(* the display picks by observedAt; that the two orders agree, for an      *)
(* agent that has not lost its memory, is the invariant.                   *)

\* An agent has not observed anything after its own clock.
ObservedPast == \A a \in Agents : local[a].observedAt <= aclock[a]

\* An agent that has not restarted only ever observed something newer than
\* what it reported and than what is stored, and sentAt orders observations.
ObservationsOrdered ==
    /\ \A a \in Agents \ restarted : db[a].observedAt <= local[a].observedAt
    /\ \A m \in inflight : m.agent \notin restarted =>
          /\ m.observedAt <= local[m.agent].observedAt
          /\ db[m.agent].sentAt < m.sentAt => db[m.agent].observedAt <= m.observedAt
    /\ \A m, n \in inflight :
          m.agent = n.agent /\ m.agent \notin restarted /\ m.sentAt < n.sentAt =>
             m.observedAt <= n.observedAt

\* A sample that was read from the store is still not newer than the store.
Backed(s) ==
    IF s.agent = Never THEN s.observedAt = Never
    ELSE s.agent \notin restarted => s.observedAt <= db[s.agent].observedAt

\* The sample read for the snapshot under way does not fall behind the one
\* that is shown.
SamplesOrdered ==
    /\ Backed(build) /\ Backed(shown)
    /\ build.pc = "tasks" /\ shown.agent \notin restarted =>
          shown.observedAt <= build.observedAt

ViewTypeOK ==
    /\ build \in Snapshot /\ shown \in Snapshot
    /\ restarted \subseteq Agents /\ requests \in Nat

ObservationInv == ViewTypeOK /\ ObservedPast /\ ObservationsOrdered /\ SamplesOrdered

\* Counting agents gives a number.
LEMMA CountAgents ==
    ASSUME NEW S \in SUBSET Agents
    PROVE  Cardinality(S) \in Nat
BY ReportStoreAssumption, FS_Subset, FS_CardinalityType

\* The display's variables keep their shape.
LEMMA ViewStep ==
    ASSUME DataTypeOK, ViewTypeOK, [Next]_vars
    PROVE  ViewTypeOK'
<1> USE DEF ViewTypeOK
<1>1. CASE LoadAgentSummary
  <2>1. Cardinality({a \in Agents : Online(a, clock)}) \in Nat
    BY CountAgents
  <2>2. build' \in Snapshot
    BY <1>1, <2>1 DEF LoadAgentSummary, EmptySnapshot, Snapshot, Never, DataTypeOK
  <2> QED
    BY <1>1, <2>2 DEF LoadAgentSummary
<1>2. CASE LoadLatestProvider
  <2>1. CASE build' = [build EXCEPT !.pc = "tasks"]
    BY <1>2, <2>1 DEF LoadLatestProvider, Snapshot
  <2>2. ASSUME NEW a \in Agents,
               build' = [build EXCEPT !.pc = "tasks", !.observedAt = db[a].observedAt,
                                      !.agent = a,
                                      !.freshness = Freshness(db[a], build.generatedAt)]
        PROVE  ViewTypeOK'
    <3>1. /\ db[a].observedAt \in Nat
          /\ Freshness(db[a], build.generatedAt) \in {"fresh", "stale", "unavailable"}
      BY DEF DataTypeOK, Row, Freshness
    <3>2. build' \in Snapshot
      BY <2>2, <3>1 DEF Snapshot
    <3> QED
      BY <1>2, <3>2 DEF LoadLatestProvider
  <2> QED
    BY <1>2, <2>1, <2>2 DEF LoadLatestProvider
<1>3. CASE LoadTaskSummary
  <2>1. Cardinality(Counted(build.generatedAt)) \in Nat
    BY CountAgents DEF Counted
  <2>2. shown' \in Snapshot
    BY <1>3, <2>1 DEF LoadTaskSummary, Snapshot
  <2>3. build' \in Snapshot
    BY <1>3 DEF LoadTaskSummary, Snapshot, EmptySnapshot, Never
  <2> QED
    BY <1>3, <2>2, <2>3 DEF LoadTaskSummary
<1>4. ASSUME NEW a \in Agents, AgentTick(a) \/ CollectOnce(a) \/ TaskEvent(a)
                               \/ RestartAgent(a) \/ ReportOnce(a)
      PROVE  ViewTypeOK'
  BY <1>4 DEF AgentTick, CollectOnce, TaskEvent, RestartAgent, Change, ReportOnce
<1>5. ASSUME NEW m \in inflight, LoseReport(m) \/ HandleAgentReport(m)
      PROVE  ViewTypeOK'
  BY <1>5 DEF LoseReport, HandleAgentReport
<1>6. CASE Tick \/ UNCHANGED vars
  BY <1>6 DEF Tick, vars
<1> QED
  BY <1>1, <1>2, <1>3, <1>4, <1>5, <1>6 DEF Next

\* How an agent's own observation moves: forward, to its clock, or to nothing
\* when it restarts.
LEMMA AgentObserves ==
    ASSUME DataTypeOK, ObservedPast, NEW a \in Agents,
           CollectOnce(a) \/ TaskEvent(a) \/ RestartAgent(a)
    PROVE  /\ \A b \in Agents \ {a} : local'[b] = local[b]
           /\ local'[a].observedAt \in Nat /\ local'[a].observedAt <= aclock[a]
           /\ \/ restarted' = restarted /\ local[a].observedAt <= local'[a].observedAt
              \/ restarted' = restarted \cup {a}
           /\ UNCHANGED <<aclock, inflight, db, build, shown>>
<1>1. /\ local \in [Agents -> AgentState] /\ aclock[a] \in Nat
      /\ local[a].observedAt \in Nat /\ local[a].observedAt <= aclock[a]
  BY DEF DataTypeOK, AgentState, ObservedPast
<1>2. ASSUME NEW o, NEW w, NEW t, Change(a, o, w, t)
      PROVE  /\ \A b \in Agents \ {a} : local'[b] = local[b]
             /\ local'[a].observedAt = o
             /\ UNCHANGED <<aclock, inflight, db, build, shown>>
  BY <1>1, <1>2 DEF Change
<1>3. CASE CollectOnce(a)
  BY <1>1, <1>2, <1>3 DEF CollectOnce
<1>4. CASE TaskEvent(a)
  BY <1>1, <1>2, <1>4 DEF TaskEvent
<1>5. CASE RestartAgent(a)
  <2>1. /\ Change(a, FirstState.observedAt, FirstState.windows, FirstState.lastSeenAt)
        /\ restarted' = restarted \cup {a}
    BY <1>5 DEF RestartAgent
  <2>2. local'[a].observedAt = FirstState.observedAt
        /\ (\A b \in Agents \ {a} : local'[b] = local[b])
        /\ UNCHANGED <<aclock, inflight, db, build, shown>>
    BY <1>2, <2>1
  <2>3. FirstState.observedAt = 0
    BY DEF FirstState, Never
  <2> QED
    BY <1>1, <2>1, <2>2, <2>3
<1> QED
  BY <1>3, <1>4, <1>5

\* sentAt keeps ordering the observations.
LEMMA ObservationsStep ==
    ASSUME OrderInv, ViewTypeOK, ObservedPast, ObservationsOrdered, [Next]_vars
    PROVE  ObservedPast' /\ ObservationsOrdered'
<1>0. DataTypeOK /\ ReportsPast
  BY DEF OrderInv
<1>1. /\ \A a \in Agents : /\ aclock[a] \in Nat /\ local[a].observedAt \in Nat
                           /\ db[a].observedAt \in Nat /\ db[a].sentAt \in Nat
      /\ \A m \in inflight : m.agent \in Agents /\ m.sentAt \in Nat /\ m.observedAt \in Nat
  BY <1>0 DEF DataTypeOK, AgentState, Row, Report
<1>2. CASE UNCHANGED <<aclock, local, inflight, db, restarted>>
  BY <1>2 DEF ObservedPast, ObservationsOrdered
<1>3. CASE Tick \/ LoadAgentSummary \/ LoadLatestProvider \/ LoadTaskSummary \/ UNCHANGED vars
  BY <1>2, <1>3 DEF Tick, LoadAgentSummary, LoadLatestProvider, LoadTaskSummary, vars
<1>4. ASSUME NEW a \in Agents, AgentTick(a)
      PROVE  ObservedPast' /\ ObservationsOrdered'
  <2>1. PICK t \in (aclock[a] + 1)..(clock + MaxDrift) :
           aclock' = [aclock EXCEPT ![a] = t]
    BY <1>4 DEF AgentTick
  <2>2. t \in Nat /\ t >= aclock[a]
    BY <1>0, <2>1, ReportStoreAssumption DEF DataTypeOK
  <2>3. UNCHANGED <<local, inflight, db, restarted>>
    BY <1>4 DEF AgentTick
  <2>4. \A b \in Agents : aclock'[b] \in Nat /\ aclock[b] <= aclock'[b]
    BY <1>0, <1>1, <2>1, <2>2 DEF DataTypeOK
  <2>5. ObservedPast'
    BY <1>1, <2>3, <2>4 DEF ObservedPast
  <2> QED
    BY <2>3, <2>5 DEF ObservationsOrdered
<1>5. ASSUME NEW a \in Agents, CollectOnce(a) \/ TaskEvent(a) \/ RestartAgent(a)
      PROVE  ObservedPast' /\ ObservationsOrdered'
  <2>1. /\ \A b \in Agents \ {a} : local'[b] = local[b]
        /\ local'[a].observedAt \in Nat /\ local'[a].observedAt <= aclock[a]
        /\ \/ restarted' = restarted /\ local[a].observedAt <= local'[a].observedAt
           \/ restarted' = restarted \cup {a}
        /\ UNCHANGED <<aclock, inflight, db>>
    BY <1>0, <1>5, AgentObserves
  <2>2. ObservedPast'
    BY <2>1 DEF ObservedPast
  <2>3. \A b \in Agents \ restarted' :
           /\ b \notin restarted /\ local'[b].observedAt \in Nat
           /\ local[b].observedAt <= local'[b].observedAt
    BY <1>1, <2>1
  <2>4. \A b \in Agents \ restarted' : db[b].observedAt <= local'[b].observedAt
    BY <1>1, <2>3 DEF ObservationsOrdered
  <2>5. \A m \in inflight : m.agent \notin restarted' =>
           /\ m.observedAt <= local'[m.agent].observedAt
           /\ db[m.agent].sentAt < m.sentAt => db[m.agent].observedAt <= m.observedAt
    BY <1>1, <2>3 DEF ObservationsOrdered
  <2>6. \A m, n \in inflight :
           m.agent = n.agent /\ m.agent \notin restarted' /\ m.sentAt < n.sentAt =>
              m.observedAt <= n.observedAt
    BY <2>1 DEF ObservationsOrdered
  <2> QED
    BY <2>1, <2>2, <2>4, <2>5, <2>6 DEF ObservationsOrdered
<1>6. ASSUME NEW a \in Agents, ReportOnce(a)
      PROVE  ObservedPast' /\ ObservationsOrdered'
  <2> DEFINE r == [agent |-> a, sentAt |-> aclock[a],
                   version |-> local[a].version,
                   observedAt |-> local[a].observedAt,
                   windows |-> local[a].windows,
                   lastSeenAt |-> local[a].lastSeenAt]
  <2>1. /\ inflight' = inflight \cup {r}
        /\ UNCHANGED <<aclock, local, db, restarted>>
    BY <1>6 DEF ReportOnce
  <2>2. r.agent = a /\ r.sentAt = aclock[a] /\ r.observedAt = local[a].observedAt
    OBVIOUS
  <2> HIDE DEF r
  <2>3. \A m \in inflight : m.agent = a => m.sentAt <= r.sentAt
    BY <1>0, <2>2 DEF ReportsPast
  <2>4. \A m \in inflight' : m.agent \notin restarted =>
           /\ m.observedAt <= local[m.agent].observedAt
           /\ db[m.agent].sentAt < m.sentAt => db[m.agent].observedAt <= m.observedAt
    BY <1>1, <2>1, <2>2 DEF ObservationsOrdered
  <2>5. ASSUME NEW m \in inflight', NEW n \in inflight', m.agent = n.agent,
               m.agent \notin restarted, m.sentAt < n.sentAt
        PROVE  m.observedAt <= n.observedAt
    <3>1. CASE m \in inflight /\ n \in inflight
      BY <2>5, <3>1 DEF ObservationsOrdered
    <3>2. CASE n = r
      BY <2>2, <2>4, <2>5, <3>2
    <3>3. CASE m = r /\ n \in inflight
      BY <1>1, <2>2, <2>3, <2>5, <3>3
    <3> QED
      BY <2>1, <3>1, <3>2, <3>3
  <2> QED
    BY <2>1, <2>4, <2>5 DEF ObservedPast, ObservationsOrdered
<1>7. ASSUME NEW m \in inflight, LoseReport(m)
      PROVE  ObservedPast' /\ ObservationsOrdered'
  BY <1>7 DEF LoseReport, ObservedPast, ObservationsOrdered
<1>8. ASSUME NEW m \in inflight, HandleAgentReport(m)
      PROVE  ObservedPast' /\ ObservationsOrdered'
  <2>1. /\ UNCHANGED <<aclock, local, inflight, restarted>>
        /\ db'[m.agent].sentAt = m.sentAt /\ db'[m.agent].observedAt = m.observedAt
        /\ \A b \in Agents \ {m.agent} : db'[b] = db[b]
    BY <1>0, <1>1, <1>8 DEF HandleAgentReport, ReplaceAgentReport, DataTypeOK
  <2>2. \A a \in Agents \ restarted : db'[a].observedAt <= local[a].observedAt
    BY <1>1, <2>1 DEF ObservationsOrdered
  <2>3. \A n \in inflight : n.agent \notin restarted =>
           (db'[n.agent].sentAt < n.sentAt => db'[n.agent].observedAt <= n.observedAt)
    BY <1>1, <2>1 DEF ObservationsOrdered
  <2> QED
    BY <2>1, <2>2, <2>3 DEF ObservedPast, ObservationsOrdered
<1> QED
  BY <1>3, <1>4, <1>5, <1>6, <1>7, <1>8 DEF Next

\* What was read from the store stays behind the store, and what is about to
\* be shown does not stay behind what is shown.
LEMMA SamplesStep ==
    ASSUME OrderInv, ViewTypeOK, ObservedPast, ObservationsOrdered, SamplesOrdered,
           [Next]_vars
    PROVE  SamplesOrdered'
<1>0. DataTypeOK
  BY DEF OrderInv
<1>1. /\ \A a \in Agents : db[a].observedAt \in Nat
      /\ build.observedAt \in Nat /\ shown.observedAt \in Nat
      /\ build.agent \in Agents \cup {Never} /\ shown.agent \in Agents \cup {Never}
      /\ Never \notin Agents /\ restarted \subseteq Agents
  BY <1>0, ReportStoreAssumption DEF DataTypeOK, Row, ViewTypeOK, Snapshot, Never
<1>2. ASSUME UNCHANGED <<db, build, shown>>, restarted \subseteq restarted'
      PROVE  SamplesOrdered'
  BY <1>2 DEF SamplesOrdered, Backed
<1>3. CASE Tick \/ UNCHANGED vars
  BY <1>2, <1>3 DEF Tick, vars
<1>4. ASSUME NEW a \in Agents, AgentTick(a) \/ ReportOnce(a)
      PROVE  SamplesOrdered'
  BY <1>2, <1>4 DEF AgentTick, ReportOnce
<1>5. ASSUME NEW a \in Agents, CollectOnce(a) \/ TaskEvent(a) \/ RestartAgent(a)
      PROVE  SamplesOrdered'
  BY <1>0, <1>2, <1>5, AgentObserves
<1>6. ASSUME NEW m \in inflight, LoseReport(m)
      PROVE  SamplesOrdered'
  BY <1>2, <1>6 DEF LoseReport
<1>7. ASSUME NEW m \in inflight, HandleAgentReport(m)
      PROVE  SamplesOrdered'
  <2>1. /\ m.agent \in Agents /\ m.observedAt \in Nat
        /\ db[m.agent].sentAt < m.sentAt /\ m.sentAt \in Nat
    BY <1>0, <1>7 DEF DataTypeOK, Report, Row, HandleAgentReport, ReplaceAgentReport,
       NewerThanStored
  <2>2. /\ UNCHANGED <<build, shown, restarted>>
        /\ db'[m.agent].observedAt = m.observedAt
        /\ \A b \in Agents \ {m.agent} : db'[b] = db[b]
    BY <1>0, <1>7, <2>1 DEF HandleAgentReport, ReplaceAgentReport, DataTypeOK
  <2>3. m.agent \notin restarted => db[m.agent].observedAt <= m.observedAt
    BY <2>1 DEF ObservationsOrdered
  <2>4. \A b \in Agents \ restarted :
           db'[b].observedAt \in Nat /\ db[b].observedAt <= db'[b].observedAt
    BY <1>1, <2>1, <2>2, <2>3
  <2>5. Backed(build)'
    BY <1>1, <2>2, <2>4 DEF SamplesOrdered, Backed
  <2>6. Backed(shown)'
    BY <1>1, <2>2, <2>4 DEF SamplesOrdered, Backed
  <2> QED
    BY <2>2, <2>5, <2>6 DEF SamplesOrdered
<1>8. CASE LoadAgentSummary
  <2>1. /\ UNCHANGED <<db, shown, restarted>> /\ build'.pc = "provider"
        /\ build'.agent = Never /\ build'.observedAt = Never
    BY <1>8 DEF LoadAgentSummary, EmptySnapshot
  <2> QED
    BY <2>1 DEF SamplesOrdered, Backed
<1>9. CASE LoadLatestProvider
  <2>1. build \in Snapshot /\ UNCHANGED <<db, shown, restarted>>
    BY <1>9 DEF LoadLatestProvider, ViewTypeOK
  <2>2. ASSUME shown.agent \notin restarted, shown.agent # Never
        PROVE  /\ shown.agent \in Agents
               /\ shown.observedAt <= db[shown.agent].observedAt
    BY <1>1, <2>2 DEF SamplesOrdered, Backed
  <2>3. shown.agent = Never => shown.observedAt = 0
    BY DEF SamplesOrdered, Backed, Never
  <2>4. CASE Observed = {} /\ build' = [build EXCEPT !.pc = "tasks"]
    <3>1. build'.agent = build.agent /\ build'.observedAt = build.observedAt
      BY <2>1, <2>4 DEF Snapshot
    <3>2. \A b \in Agents : db[b].observedAt = 0
      BY <1>1, <2>4 DEF Observed, Never
    <3>3. shown.agent \notin restarted => shown.observedAt = 0
      BY <1>1, <2>2, <2>3, <3>2
    <3> QED
      BY <1>1, <2>1, <3>1, <3>3 DEF SamplesOrdered, Backed
  <2>5. ASSUME NEW a \in Agents, LatestProvider(a),
               build' = [build EXCEPT !.pc = "tasks", !.observedAt = db[a].observedAt,
                                      !.agent = a,
                                      !.freshness = Freshness(db[a], build.generatedAt)]
        PROVE  SamplesOrdered'
    <3>1. build'.agent = a /\ build'.observedAt = db[a].observedAt
      BY <2>1, <2>5 DEF Snapshot
    <3>2. \A b \in Agents : db[b].observedAt <= db[a].observedAt
      BY <1>1, <2>5 DEF LatestProvider, Observed, Never
    <3>3. shown.agent \notin restarted => shown.observedAt <= db[a].observedAt
      BY <1>1, <2>2, <2>3, <3>2
    <3> QED
      BY <1>1, <2>1, <3>1, <3>3 DEF SamplesOrdered, Backed
  <2> QED
    BY <1>9, <2>4, <2>5 DEF LoadLatestProvider
<1>10. CASE LoadTaskSummary
  <2>1. /\ UNCHANGED <<db, restarted>>
        /\ build'.pc = "idle" /\ build'.agent = Never /\ build'.observedAt = Never
    BY <1>10 DEF LoadTaskSummary, EmptySnapshot
  <2>2. shown'.agent = build.agent /\ shown'.observedAt = build.observedAt
    BY <1>10 DEF LoadTaskSummary, ViewTypeOK, Snapshot
  <2> QED
    BY <2>1, <2>2 DEF SamplesOrdered, Backed
<1> QED
  BY <1>3, <1>4, <1>5, <1>6, <1>7, <1>8, <1>9, <1>10 DEF Next

\* Reports, rows and samples of an agent stay in the order of its observations.
THEOREM ObservationsStayOrdered == Spec => [](OrderInv /\ ObservationInv)
<1>1. Init => ObservationInv
  <2> SUFFICES ASSUME Init PROVE ObservationInv
    OBVIOUS
  <2>1. ViewTypeOK
    BY DEF Init, ViewTypeOK, Snapshot, EmptySnapshot, Never
  <2>2. ObservedPast /\ ObservationsOrdered
    BY DEF Init, ObservedPast, ObservationsOrdered, FirstState, NoRow, Never
  <2>3. SamplesOrdered
    BY DEF Init, SamplesOrdered, Backed, EmptySnapshot
  <2> QED
    BY <2>1, <2>2, <2>3 DEF ObservationInv
<1>2. OrderInv /\ ObservationInv /\ [Next]_vars => ObservationInv'
  <2> SUFFICES ASSUME OrderInv, ObservationInv, [Next]_vars PROVE ObservationInv'
    OBVIOUS
  <2>1. ViewTypeOK'
    BY ViewStep DEF ObservationInv, OrderInv
  <2>2. ObservedPast' /\ ObservationsOrdered'
    BY ObservationsStep DEF ObservationInv
  <2>3. SamplesOrdered'
    BY SamplesStep DEF ObservationInv
  <2> QED
    BY <2>1, <2>2, <2>3 DEF ObservationInv
<1> QED
  BY <1>1, <1>2, ReportsStayOrdered, PTL DEF Spec

\* Every variable always has the shape of the Go value or row it stands for.
THEOREM ReportTypeCorrect == Spec => []TypeOK
<1>1. OrderInv /\ ObservationInv => TypeOK
  BY DEF OrderInv, DataTypeOK, ObservationInv, ViewTypeOK, TypeOK
<1> QED
  BY <1>1, ObservationsStayOrdered, PTL

\* The display never goes back to an older quota sample unless the agent it
\* came from restarted, although the snapshot's queries share no transaction
\* and reports are stored between them.
THEOREM DisplayNeverRegresses == Spec => ObservationNeverRegresses
<1> DEFINE Forward == shown'.observedAt < shown.observedAt => shown.agent \in restarted
<1>1. OrderInv /\ ObservationInv /\ [Next]_vars => [Forward]_vars
  <2> SUFFICES ASSUME OrderInv, ObservationInv, Next, shown'.observedAt < shown.observedAt,
                      shown.agent \notin restarted
               PROVE  FALSE
    BY DEF vars
  <2>1. /\ build \in Snapshot /\ shown \in Snapshot
        /\ build.observedAt \in Nat /\ shown.observedAt \in Nat /\ SamplesOrdered
    BY DEF ObservationInv, ViewTypeOK, Snapshot
  <2>2. shown' # shown
    BY <2>1
  <2>3. CASE LoadTaskSummary
    <3>1. build.pc = "tasks" /\ shown'.observedAt = build.observedAt
      BY <2>1, <2>3 DEF LoadTaskSummary, Snapshot
    <3>2. shown.observedAt <= build.observedAt
      BY <2>1, <3>1 DEF SamplesOrdered
    <3> QED
      BY <2>1, <3>1, <3>2
  <2>4. CASE ~LoadTaskSummary
    BY <2>2, <2>4 DEF Next, Tick, AgentTick, CollectOnce, TaskEvent, RestartAgent, Change,
       ReportOnce, LoseReport, HandleAgentReport, LoadAgentSummary, LoadLatestProvider
  <2> QED
    BY <2>3, <2>4
<1> QED
  BY <1>1, ObservationsStayOrdered, PTL DEF Spec, ObservationNeverRegresses
=============================================================================
