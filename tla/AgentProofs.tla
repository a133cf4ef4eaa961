----------------------------- MODULE AgentProofs -----------------------------
(***************************************************************************)
(* Theorems about what the agent keeps in memory: the task ledger, for     *)
(* every set of providers, sessions and tasks, every TTL and every         *)
(* tolerance, and, in the second part, what it believes about the Claude   *)
(* account, for every number of confirmations, horizon and length of an    *)
(* answer.                                                                 *)
(*                                                                         *)
(* What the ledger reports depends on stamps it did not take itself, so    *)
(* PhantomBounded is not inductive: the invariant that carries it bounds   *)
(* every stored stamp by the moment the agent handled the event it came    *)
(* from.                                                                   *)
(***************************************************************************)
EXTENDS Ledger, ClaudeState, WellFoundedInduction, SequenceTheorems, TLAPS

\* Every stored stamp is less than a Tolerance ahead of the clock, and a
\* task's last sighting less than a Tolerance ahead of the moment the agent
\* heard of it (the one-minute test in Apply).
StampsBounded ==
    \A k \in DOMAIN tasks :
        /\ tasks[k].startedAt < clock + Tolerance
        /\ tasks[k].lastSeenAt < clock + Tolerance
        /\ tasks[k].lastSeenAt < heard[k] + Tolerance

LedgerInv == TypeOK /\ StampsBounded
-----------------------------------------------------------------------------
\* Pruning a ledger leaves a ledger with a subset of its tasks, unchanged.
LEMMA PruneLemma ==
    ASSUME NEW ts, IsLedger(ts), NEW now \in Int
    PROVE  /\ IsLedger(Prune(ts, now))
           /\ DOMAIN Prune(ts, now) =
                 {k \in DOMAIN ts : ts[k].lastSeenAt >= now - TTL}
           /\ \A k \in DOMAIN Prune(ts, now) : Prune(ts, now)[k] = ts[k]
<1>1. DOMAIN Prune(ts, now) = {k \in DOMAIN ts : ts[k].lastSeenAt >= now - TTL}
  BY DEF Prune
<1>2. \A k \in DOMAIN Prune(ts, now) : Prune(ts, now)[k] = ts[k]
  BY DEF Prune
<1>3. Prune(ts, now) = [k \in DOMAIN Prune(ts, now) |-> Prune(ts, now)[k]]
  BY DEF Prune
<1> QED
  BY <1>1, <1>2, <1>3 DEF IsLedger

\* An event only starts or touches tasks that have a proper key.
LEMMA EventKeys ==
    ASSUME NEW e \in Event
    PROVE  Started(e) \subseteq TaskKey /\ Touched(e) \subseteq TaskKey
<1>1. MainKey(e) \in TaskKey
  BY DEF MainKey, TaskKey, Event
<1>2. SubKey(e) \in TaskKey
  BY DEF SubKey, TaskKey, Event
<1> QED
  BY <1>1, <1>2 DEF Started, Touched

\* Each task of the ledger new is stamped by the event e or is as in old.
StampedBy(new, old, e, now) ==
    \A k \in DOMAIN new :
        \/ /\ k \in Started(e) \cup Touched(e)
           /\ new[k].lastSeenAt = now
           /\ \/ new[k].startedAt = now
              \/ k \in DOMAIN old /\ new[k].startedAt = old[k].startedAt
        \/ /\ k \notin Started(e) \cup Touched(e)
           /\ k \in DOMAIN old
           /\ new[k] = old[k]

\* The effect of an event on a ledger.
LEMMA EffectLemma ==
    ASSUME NEW ts, IsLedger(ts), NEW e \in Event, NEW now \in Int
    PROVE  /\ IsLedger(Effect(ts, e, now))
           /\ StampedBy(Effect(ts, e, now), ts, e, now)
<1> DEFINE E == Effect(ts, e, now)
           D == (DOMAIN ts \cup Started(e)) \ Ended(e)
<1>1. DOMAIN E = D /\ E = [k \in DOMAIN E |-> E[k]]
  BY DEF Effect
<1>2. ASSUME NEW k \in D, k \in Started(e) \cup Touched(e)
      PROVE  E[k] = [startedAt  |-> IF k \in DOMAIN ts THEN ts[k].startedAt ELSE now,
                     lastSeenAt |-> now]
  BY <1>2 DEF Effect
<1>3. ASSUME NEW k \in D, k \notin Started(e) \cup Touched(e)
      PROVE  k \in DOMAIN ts /\ E[k] = ts[k]
  BY <1>3 DEF Effect
<1>4. D \subseteq TaskKey
  BY EventKeys DEF IsLedger
<1> HIDE DEF E, D
<1>5. ASSUME NEW k \in D
      PROVE  /\ E[k] \in Task
             /\ \/ /\ k \in Started(e) \cup Touched(e)
                   /\ E[k].lastSeenAt = now
                   /\ \/ E[k].startedAt = now
                      \/ k \in DOMAIN ts /\ E[k].startedAt = ts[k].startedAt
                \/ /\ k \notin Started(e) \cup Touched(e)
                   /\ k \in DOMAIN ts
                   /\ E[k] = ts[k]
  <2>1. CASE k \in Started(e) \cup Touched(e)
    <3>1. E[k] = [startedAt  |-> IF k \in DOMAIN ts THEN ts[k].startedAt ELSE now,
                  lastSeenAt |-> now]
      BY <1>2, <2>1
    <3>2. k \in DOMAIN ts => ts[k].startedAt \in Int
      BY DEF IsLedger, Task
    <3> QED
      BY <2>1, <3>1, <3>2 DEF Task
  <2>2. CASE k \notin Started(e) \cup Touched(e)
    <3>1. k \in DOMAIN ts /\ E[k] = ts[k]
      BY <1>3, <2>2
    <3> QED
      BY <2>2, <3>1 DEF IsLedger
  <2> QED
    BY <2>1, <2>2
<1>6. IsLedger(E)
  BY <1>1, <1>4, <1>5 DEF IsLedger
<1> QED
  BY <1>1, <1>5, <1>6 DEF E, D, StampedBy
-----------------------------------------------------------------------------
\* A new agent's ledger satisfies the invariant.
LEMMA InitLedgerInv == Init => LedgerInv
BY DEF Init, LedgerInv, TypeOK, StampsBounded, IsLedger, EmptyLedger

\* Applying an event keeps the invariant: the stamp it stores was cut off at
\* the clock plus the tolerance, and heard is set to the clock.
LEMMA ApplyLedgerInv ==
    ASSUME LedgerInv, NEW e \in inflight, ApplyEvent(e)
    PROVE  LedgerInv'
<1> USE LedgerAssumption
<1> DEFINE now == EventTime(e)
           P == Prune(tasks, now)
<1>1. e \in Event /\ e.at \in Int
  BY DEF LedgerInv, TypeOK, Event
<1>2. now \in Int /\ now < clock + Tolerance
  BY <1>1 DEF EventTime, LedgerInv, TypeOK
<1>3. IsLedger(tasks)
  BY DEF LedgerInv, TypeOK
<1>4. /\ IsLedger(P)
      /\ DOMAIN P \subseteq DOMAIN tasks
      /\ \A k \in DOMAIN P : P[k] = tasks[k]
  BY <1>2, <1>3, PruneLemma
<1>5. tasks' = Effect(P, e, now)
  BY DEF ApplyEvent, Apply
<1> HIDE DEF now, P
<1>6. IsLedger(tasks') /\ StampedBy(tasks', P, e, now)
  <2>1. IsLedger(P) /\ now \in Int
    BY <1>2, <1>4
  <2>2. IsLedger(Effect(P, e, now)) /\ StampedBy(Effect(P, e, now), P, e, now)
    BY <1>1, <2>1, EffectLemma
  <2> QED
    BY <1>5, <2>2
<1>7. TypeOK'
  BY <1>6 DEF ApplyEvent, LedgerInv, TypeOK
<1>8. ASSUME NEW k \in DOMAIN tasks'
      PROVE  /\ tasks'[k].startedAt < clock + Tolerance
             /\ tasks'[k].lastSeenAt < clock + Tolerance
             /\ tasks'[k].lastSeenAt < heard'[k] + Tolerance
  <2>1. k \in TaskKey
    BY <1>6 DEF IsLedger
  <2>2. CASE k \in Started(e) \cup Touched(e)
    <3>1. heard'[k] = clock
      BY <2>1, <2>2 DEF ApplyEvent
    <3>2. tasks'[k].lastSeenAt = now
      BY <1>6, <2>2 DEF StampedBy
    <3>3. tasks'[k].startedAt < clock + Tolerance
      BY <1>2, <1>4, <1>6, <2>2 DEF StampedBy, LedgerInv, StampsBounded
    <3> QED
      BY <1>2, <3>1, <3>2, <3>3
  <2>3. CASE k \notin Started(e) \cup Touched(e)
    <3>1. heard'[k] = heard[k]
      BY <2>1, <2>3 DEF ApplyEvent
    <3>2. k \in DOMAIN tasks /\ tasks'[k] = tasks[k]
      BY <1>4, <1>6, <2>3 DEF StampedBy
    <3> QED
      BY <3>1, <3>2 DEF LedgerInv, StampsBounded
  <2> QED
    BY <2>2, <2>3
<1>9. clock' = clock
  BY DEF ApplyEvent
<1> QED
  BY <1>7, <1>8, <1>9 DEF LedgerInv, StampsBounded

\* Every hook, tick, snapshot and restart preserves the invariant.
LEMMA NextLedgerInv == LedgerInv /\ [Next]_vars => LedgerInv'
<1> SUFFICES ASSUME LedgerInv, [Next]_vars
             PROVE  LedgerInv'
  OBVIOUS
<1> USE LedgerAssumption DEF LedgerInv
<1>1. CASE Tick
  <2>1. TypeOK'
    BY <1>1 DEF Tick, TypeOK
  <2>2. StampsBounded'
    BY <1>1 DEF Tick, TypeOK, StampsBounded, IsLedger, Task
  <2> QED
    BY <2>1, <2>2
<1>2. CASE EmitHook
  <2>1. inflight' \subseteq Event
    BY <1>2 DEF EmitHook, TypeOK, Event
  <2> QED
    BY <1>2, <2>1 DEF EmitHook, TypeOK, StampsBounded
<1>3. CASE \E e \in inflight : LoseHook(e)
  BY <1>3 DEF LoseHook, TypeOK, StampsBounded
<1>4. CASE \E e \in inflight : IgnoreEvent(e)
  BY <1>4 DEF IgnoreEvent, TypeOK, StampsBounded
<1>5. CASE \E e \in inflight : ApplyEvent(e)
  BY <1>5, ApplyLedgerInv
<1>6. CASE Snapshot
  <2>1. IsLedger(tasks) /\ clock \in Int
    BY DEF TypeOK
  <2>2. /\ IsLedger(tasks')
        /\ DOMAIN tasks' \subseteq DOMAIN tasks
        /\ \A k \in DOMAIN tasks' : tasks'[k] = tasks[k]
    BY <1>6, <2>1, PruneLemma DEF Snapshot, Reported
  <2> QED
    BY <1>6, <2>2 DEF Snapshot, TypeOK, StampsBounded
<1>7. CASE Restart
  <2>1. DOMAIN tasks' = {} /\ IsLedger(tasks')
    BY <1>7 DEF Restart, EmptyLedger, IsLedger
  <2> QED
    BY <1>7, <2>1 DEF Restart, TypeOK, StampsBounded
<1>8. CASE UNCHANGED vars
  BY <1>8 DEF vars, TypeOK, StampsBounded
<1> QED
  BY <1>1, <1>2, <1>3, <1>4, <1>5, <1>6, <1>7, <1>8 DEF Next

\* The variables keep the shape of the Go values they stand for.
THEOREM LedgerTypeCorrect == Spec => []TypeOK
<1>1. LedgerInv => TypeOK
  BY DEF LedgerInv
<1> QED
  BY <1>1, InitLedgerInv, NextLedgerInv, PTL DEF Spec

\* The inductive invariant holds in every reachable state.
THEOREM LedgerInvariant == Spec => []LedgerInv
BY InitLedgerInv, NextLedgerInv, PTL DEF Spec
-----------------------------------------------------------------------------
\* However hooks are lost, delayed or reordered, a task the agent no longer
\* hears of is reported for less than TTL + Tolerance.
THEOREM LedgerPhantomBounded == Spec => []PhantomBounded
<1>1. LedgerInv => PhantomBounded
  <2> SUFFICES ASSUME LedgerInv, NEW k \in DOMAIN Reported
               PROVE  clock < heard[k] + TTL + Tolerance
    BY DEF PhantomBounded
  <2> USE LedgerAssumption
  <2>1. IsLedger(tasks) /\ clock \in Int
    BY DEF LedgerInv, TypeOK
  <2>2. k \in DOMAIN tasks /\ tasks[k].lastSeenAt >= clock - TTL
    BY <2>1, PruneLemma DEF Reported
  <2>3. k \in TaskKey /\ tasks[k].lastSeenAt \in Int
    BY <2>1, <2>2 DEF IsLedger, Task
  <2>4. heard[k] \in Nat
    BY <2>3 DEF LedgerInv, TypeOK
  <2>5. tasks[k].lastSeenAt < heard[k] + Tolerance
    BY <2>2 DEF LedgerInv, StampsBounded
  <2> QED
    BY <2>1, <2>2, <2>3, <2>4, <2>5
<1> QED
  BY <1>1, LedgerInvariant, PTL

\* No stamp in a report is one the service would refuse as too far ahead.
THEOREM LedgerNotTooFarInFuture == Spec => []NotTooFarInFuture
<1>1. LedgerInv => NotTooFarInFuture
  <2> SUFFICES ASSUME LedgerInv, NEW k \in DOMAIN Reported
               PROVE  /\ Reported[k].startedAt <= clock + MaxFutureSkew
                      /\ Reported[k].lastSeenAt <= clock + MaxFutureSkew
    BY DEF NotTooFarInFuture
  <2> USE LedgerAssumption
  <2>1. IsLedger(tasks) /\ clock \in Int
    BY DEF LedgerInv, TypeOK
  <2>2. k \in DOMAIN tasks /\ Reported[k] = tasks[k]
    BY <2>1, PruneLemma DEF Reported
  <2>3. tasks[k].lastSeenAt \in Int /\ tasks[k].startedAt \in Int
    BY <2>1, <2>2 DEF IsLedger, Task
  <2> QED
    BY <2>1, <2>2, <2>3 DEF LedgerInv, StampsBounded
<1> QED
  BY <1>1, LedgerInvariant, PTL

-----------------------------------------------------------------------------
\* What an event starts, touches or ends belongs to its provider and session.
LEMMA OwnKeys ==
    ASSUME NEW e \in Event, NEW k \in Started(e) \cup Touched(e) \cup Ended(e)
    PROVE  k.provider = e.provider /\ k.session = e.session
<1>1. MainKey(e).provider = e.provider /\ MainKey(e).session = e.session
  BY DEF MainKey
<1>2. SubKey(e).provider = e.provider /\ SubKey(e).session = e.session
  BY DEF SubKey
<1> QED
  BY <1>1, <1>2 DEF Started, Touched, Ended

\* No event touches or ends a task of another provider or session, and a task
\* that disappears by itself had not been heard of for a TTL, give or take the
\* Tolerance by which a believed stamp may run ahead.
THEOREM LedgerOnlyOwnEventsOrExpiry == Spec => OnlyOwnEventsOrExpiry
<1> DEFINE Owned(k) == \E e \in inflight \ inflight' :
                          e.provider = k.provider /\ e.session = k.session
           Lapsed(k) == Removed(k) /\ tasks[k].lastSeenAt < clock + Tolerance - TTL
           Fair == restarts' = restarts =>
                      \A k \in TaskKey :
                         Removed(k) \/ Changed(k) =>
                            \/ \E e \in inflight \ inflight' :
                                  e.provider = k.provider /\ e.session = k.session
                            \/ Removed(k) /\ tasks[k].lastSeenAt < clock + Tolerance - TTL
<1>1. LedgerInv /\ [Next]_vars => [Fair]_vars
  <2> SUFFICES ASSUME LedgerInv, Next, restarts' = restarts, NEW k \in TaskKey,
                      Removed(k) \/ Changed(k)
               PROVE  Owned(k) \/ Lapsed(k)
    BY DEF vars
  <2> USE LedgerAssumption
  <2>0. IsLedger(tasks) /\ clock \in Int /\ inflight \subseteq Event /\ restarts \in Nat
        /\ \A j \in DOMAIN tasks : tasks[j].lastSeenAt \in Int
    BY DEF LedgerInv, TypeOK, IsLedger, Task
  <2>1. tasks' # tasks
    BY DEF Removed, Changed
  <2>2. ASSUME NEW now \in Int, now < clock + Tolerance, k \in DOMAIN tasks,
               k \notin DOMAIN Prune(tasks, now)
        PROVE  tasks[k].lastSeenAt < clock + Tolerance - TTL
    <3>1. ~(tasks[k].lastSeenAt >= now - TTL)
      BY <2>0, <2>2, PruneLemma
    <3> QED
      BY <2>0, <2>2, <3>1
  <2>3. ASSUME NEW e \in inflight, ApplyEvent(e)
        PROVE  Owned(k) \/ Lapsed(k)
    <3> DEFINE now == EventTime(e)
               P == Prune(tasks, now)
    <3>1. e \in Event /\ e.at \in Int /\ e \in inflight \ inflight'
      BY <2>0, <2>3 DEF ApplyEvent, Event
    <3>2. now \in Int /\ now < clock + Tolerance
      BY <2>0, <3>1 DEF EventTime
    <3>3. DOMAIN P \subseteq DOMAIN tasks /\ \A j \in DOMAIN P : P[j] = tasks[j]
      BY <2>0, <3>2, PruneLemma
    <3>4. tasks' = Effect(P, e, now)
      BY <2>3 DEF ApplyEvent, Apply
    <3> HIDE DEF now, P
    <3>5. /\ DOMAIN tasks' = (DOMAIN P \cup Started(e)) \ Ended(e)
          /\ \A j \in DOMAIN tasks' : j \notin Started(e) \cup Touched(e) => tasks'[j] = P[j]
      BY <3>4 DEF Effect
    <3>6. CASE k \in Started(e) \cup Touched(e) \cup Ended(e)
      BY <3>1, <3>6, OwnKeys
    <3>7. CASE k \notin Started(e) \cup Touched(e) \cup Ended(e)
      <4>1. k \notin DOMAIN P
        BY <3>3, <3>5, <3>7 DEF Removed, Changed
      <4>2. k \in DOMAIN tasks /\ k \notin DOMAIN tasks'
        BY <3>5, <3>7, <4>1 DEF Removed, Changed
      <4>3. k \notin DOMAIN Prune(tasks, now)
        BY <4>1 DEF P
      <4> QED
        BY <2>2, <3>2, <4>2, <4>3 DEF Removed
    <3> QED
      BY <3>6, <3>7
  <2>4. CASE Snapshot
    <3>1. tasks' = Prune(tasks, clock)
      BY <2>4 DEF Snapshot, Reported
    <3>2. DOMAIN tasks' \subseteq DOMAIN tasks /\ \A j \in DOMAIN tasks' : tasks'[j] = tasks[j]
      BY <2>0, <3>1, PruneLemma
    <3>3. k \in DOMAIN tasks /\ k \notin DOMAIN tasks'
      BY <3>2 DEF Removed, Changed
    <3> QED
      BY <2>0, <2>2, <3>1, <3>3 DEF Removed
  <2>5. CASE Restart
    BY <2>0, <2>5 DEF Restart
  <2>6. CASE Tick \/ EmitHook \/ \E e \in inflight : LoseHook(e) \/ IgnoreEvent(e)
    BY <2>1, <2>6 DEF Tick, EmitHook, LoseHook, IgnoreEvent
  <2> QED
    BY <2>3, <2>4, <2>5, <2>6 DEF Next
<1> QED
  BY <1>1, LedgerInvariant, PTL DEF Spec, OnlyOwnEventsOrExpiry

-----------------------------------------------------------------------------
(***************************************************************************)
(* The parser of Claude's /usage text.                                     *)
(*                                                                         *)
(* parseClaudeUsageText is a loop, so what it returns for every text needs *)
(* an induction over the lines.  It is made with the least-number          *)
(* principle, a consequence of the well-foundedness of < on Nat: of the    *)
(* lines after which the loop's invariant fails there is a first, and the  *)
(* line before it contradicts that.                                        *)
(***************************************************************************)

\* A set of natural numbers has a least element: what stands in for induction
\* below.
LEMMA LeastNumber ==
    ASSUME NEW T \in SUBSET Nat, T # {}
    PROVE  \E x \in T : \A y \in T : x <= y
<1> DEFINE R == {p \in Nat \X Nat : p[1] < p[2]}
<1>1. IsWellFoundedOn(R, Nat)
  BY NatLessThanWellFounded DEF OpToRel
<1>2. PICK x \in T : \A y \in T : ~ (<<y, x>> \in R)
  <2> HIDE DEF R
  <2> QED
    BY <1>1, WFMin
<1>3. ASSUME NEW y \in T PROVE x <= y
  <2>1. x \in Nat /\ y \in Nat /\ ~ (<<y, x>> \in R)
    BY <1>2
  <2>2. ~(y < x)
    BY <2>1
  <2> QED
    BY <2>1, <2>2
<1> QED
  BY <1>3

\* What the loop starts with.
Unread == [pending |-> NoPending, windows |-> NoLines]

\* f is the loop's state after each of the first n lines.
LoopTo(text, n, f) ==
    f = [i \in 0..n |-> IF i = 0 THEN Unread ELSE ParseLine(text, f[i - 1], i)]

\* The loop over the first n lines has such a function, for every n.
LEMMA LoopExists ==
    ASSUME NEW text, NEW n \in Nat
    PROVE  \E f : LoopTo(text, n, f)
<1> DEFINE T == {m \in Nat : ~ \E f : LoopTo(text, m, f)}
<1> SUFFICES ASSUME T # {} PROVE FALSE
  OBVIOUS
<1>1. PICK x \in T : \A y \in T : x <= y
  <2> HIDE DEF T
  <2>1. T \in SUBSET Nat
    BY DEF T
  <2> QED
    BY <2>1, LeastNumber
<1>2. x \in Nat /\ ~ \E f : LoopTo(text, x, f)
  BY <1>1
<1>3. CASE x = 0
  <2> DEFINE f == [i \in 0..0 |-> Unread]
  <2>1. LoopTo(text, 0, f)
    BY DEF LoopTo
  <2> QED
    BY <1>2, <1>3, <2>1
<1>4. CASE x # 0
  <2>1. x - 1 \in Nat /\ x - 1 \notin T
    BY <1>1, <1>2, <1>4
  <2>2. PICK g : LoopTo(text, x - 1, g)
    BY <2>1
  <2> DEFINE f == [i \in 0..x |-> IF i < x THEN g[i] ELSE ParseLine(text, g[x - 1], x)]
  <2>3. \A i \in 0..x - 1 :
           g[i] = IF i = 0 THEN Unread ELSE ParseLine(text, g[i - 1], i)
    BY <2>2 DEF LoopTo
  <2>4. ASSUME NEW i \in 0..x
        PROVE  f[i] = IF i = 0 THEN Unread ELSE ParseLine(text, f[i - 1], i)
    <3>1. CASE i = x
      BY <1>2, <1>4, <3>1
    <3>2. CASE i < x
      <4>1. f[i] = g[i] /\ (i # 0 => i - 1 \in 0..x /\ f[i - 1] = g[i - 1])
        BY <1>2, <3>2
      <4> QED
        BY <1>2, <2>3, <3>2, <4>1
    <3> QED
      BY <1>2, <3>1, <3>2
  <2>5. LoopTo(text, x, f)
    BY <2>4 DEF LoopTo
  <2> QED
    BY <1>2, <2>5
<1> QED
  BY <1>3, <1>4

\* Parsed is that function.
LEMMA ParsedFacts ==
    ASSUME NEW text, Len(text) \in Nat
    PROVE  /\ Parsed(text)[0] = Unread
           /\ \A i \in 1..Len(text) :
                 Parsed(text)[i] = ParseLine(text, Parsed(text)[i - 1], i)
<1>1. Parsed(text) = CHOOSE f : LoopTo(text, Len(text), f)
  BY DEF Parsed, LoopTo, Unread
<1>2. LoopTo(text, Len(text), Parsed(text))
  BY <1>1, LoopExists
<1> DEFINE f == Parsed(text)
<1>3. f = [i \in 0..Len(text) |-> IF i = 0 THEN Unread ELSE ParseLine(text, f[i - 1], i)]
  BY <1>2 DEF LoopTo
<1> HIDE DEF f
<1>4. f[0] = Unread
  BY <1>3
<1>5. \A i \in 1..Len(text) : f[i] = ParseLine(text, f[i - 1], i)
  BY <1>3
<1> QED
  BY <1>4, <1>5 DEF f

\* A heading is the heading of its own line; another line has the one above.
LEMMA HeadingFacts ==
    ASSUME NEW text, NEW i \in Nat \ {0}
    PROVE  /\ text[i].head # "none" => HeadingAt(text, i) = i
           /\ text[i].head = "none" => HeadingAt(text, i) = HeadingAt(text, i - 1)
<1> DEFINE Above(n) == {j \in 1..n : text[j].head # "none"}
<1>1. ASSUME text[i].head # "none" PROVE HeadingAt(text, i) = i
  <2>1. i \in Above(i) /\ \A m \in Above(i) : m <= i
    BY <1>1
  <2>2. \A j \in Above(i) : (\A m \in Above(i) : m <= j) => j = i
    BY <2>1
  <2>3. (CHOOSE j \in Above(i) : \A m \in Above(i) : m <= j) = i
    <3> HIDE DEF Above
    <3> QED
      BY <2>1, <2>2
  <2> QED
    BY <2>1, <2>3 DEF HeadingAt
<1>2. ASSUME text[i].head = "none" PROVE HeadingAt(text, i) = HeadingAt(text, i - 1)
  <2> DEFINE Last(A) == IF A = {} THEN 0 ELSE CHOOSE j \in A : \A m \in A : m <= j
  <2>1. Above(i) = Above(i - 1)
    BY <1>2
  <2>2. HeadingAt(text, i) = Last(Above(i)) /\ HeadingAt(text, i - 1) = Last(Above(i - 1))
    BY DEF HeadingAt
  <2> HIDE DEF Above, Last
  <2> QED
    BY <2>1, <2>2
<1> QED
  BY <1>1, <1>2

\* The numbers of the first n lines in the windows of the report and in a
\* pending window.
Positions(n) == [used : 0..n, reset : 0..n]

Pendings(n) == [kind : Kinds \cup {""}, allowInactiveWithoutReset : BOOLEAN,
                used : 0..n, reset : 0..n]

\* After line i the pending window is about the section that line i is in, and
\* what it holds stands in that section.
PendingInSection(text, i, pending) ==
    /\ pending.kind # "" => SameSection(text, i, pending.kind)
    /\ pending.used # 0 => HeadingAt(text, pending.used) = HeadingAt(text, i)
    /\ pending.reset # 0 => HeadingAt(text, pending.reset) = HeadingAt(text, i)

WindowsOwn(text, windows) ==
    \A k \in Kinds : windows[k].used # 0 => OwnSection(text, k, windows[k])

\* The invariant of the loop.
LoopInv(text, i, state) ==
    /\ state.pending \in Pendings(i) /\ state.windows \in [Kinds -> Positions(i)]
    /\ PendingInSection(text, i, state.pending) /\ WindowsOwn(text, state.windows)

\* Committing a pending window makes it the answer's own.
LEMMA CommitOwn ==
    ASSUME NEW text, NEW i \in Nat, NEW pending \in Pendings(i),
           NEW windows \in [Kinds -> Positions(i)],
           PendingInSection(text, i, pending), WindowsOwn(text, windows)
    PROVE  /\ Commit(text, pending, windows) \in [Kinds -> Positions(i)]
           /\ WindowsOwn(text, Commit(text, pending, windows))
<1> DEFINE new == Commit(text, pending, windows)
           w == [used |-> pending.used, reset |-> pending.reset]
<1>1. CASE new = windows
  BY <1>1
<1>2. CASE /\ pending.kind # "" /\ pending.used # 0
           /\ new = [windows EXCEPT ![pending.kind] = w]
  <2>1. pending.kind \in Kinds /\ w \in Positions(i)
    BY <1>2 DEF Pendings, Positions
  <2>2. OwnSection(text, pending.kind, w)
    BY <1>2 DEF PendingInSection, OwnSection, SameSection
  <2>3. new \in [Kinds -> Positions(i)]
    BY <1>2, <2>1
  <2>4. \A k \in Kinds : new[k] = IF k = pending.kind THEN w ELSE windows[k]
    BY <1>2, <2>1
  <2> HIDE DEF new, w
  <2>5. WindowsOwn(text, new)
    BY <2>2, <2>4 DEF WindowsOwn
  <2> QED
    BY <2>3, <2>5 DEF new
<1> QED
  BY <1>1, <1>2 DEF Commit

\* One line keeps the invariant.
LEMMA LineOwn ==
    ASSUME NEW text, NEW i \in Nat \ {0}, NEW state, LoopInv(text, i - 1, state)
    PROVE  LoopInv(text, i, ParseLine(text, state, i))
<1> DEFINE line == text[i]
           heading == line.head # "none"
           windows == IF heading THEN Commit(text, state.pending, state.windows)
                      ELSE state.windows
           opened == IF heading THEN OpenSection(state.pending, line) ELSE state.pending
           pending == IF opened.kind = "" THEN opened
                      ELSE [opened EXCEPT
                              !.used = IF line.used # Missing THEN i ELSE @,
                              !.reset = IF line.reset # Missing THEN i ELSE @]
<1>1. ParseLine(text, state, i) = [pending |-> pending, windows |-> windows]
  BY DEF ParseLine
<1>2. windows \in [Kinds -> Positions(i)] /\ WindowsOwn(text, windows)
  <2>1. windows \in [Kinds -> Positions(i - 1)] /\ WindowsOwn(text, windows)
    <3>1. /\ state.pending \in Pendings(i - 1)
          /\ state.windows \in [Kinds -> Positions(i - 1)]
          /\ PendingInSection(text, i - 1, state.pending)
          /\ WindowsOwn(text, state.windows) /\ i - 1 \in Nat
      BY DEF LoopInv
    <3>2. CASE heading
      BY <3>1, <3>2, CommitOwn
    <3>3. CASE ~heading
      BY <3>1, <3>3
    <3> QED
      BY <3>2, <3>3
  <2>2. Positions(i - 1) \subseteq Positions(i)
    BY DEF Positions
  <2> HIDE DEF windows
  <2> QED
    BY <2>1, <2>2
<1>3. opened \in Pendings(i) /\ PendingInSection(text, i, opened)
  <2>1. CASE heading
    <3>1. HeadingAt(text, i) = i /\ i # 0
      BY <2>1, HeadingFacts
    <3>2. /\ opened.kind = KindOf(line.head) /\ opened.used = 0 /\ opened.reset = 0
          /\ opened \in Pendings(i)
      BY <2>1 DEF OpenSection, Pendings, KindOf, Kinds
    <3> QED
      BY <3>1, <3>2 DEF PendingInSection, SameSection
  <2>2. CASE ~heading
    <3>1. opened \in Pendings(i - 1) /\ PendingInSection(text, i - 1, opened)
      BY <2>2 DEF LoopInv
    <3>2. HeadingAt(text, i) = HeadingAt(text, i - 1)
      BY <2>2, HeadingFacts
    <3>3. Pendings(i - 1) \subseteq Pendings(i)
      <4>1. 0..i - 1 \subseteq 0..i
        OBVIOUS
      <4> QED
        BY <4>1, Zenon DEF Pendings
    <3> HIDE DEF opened
    <3>4. PendingInSection(text, i, opened)
      BY <3>1, <3>2 DEF PendingInSection, SameSection
    <3> QED
      BY <3>1, <3>3, <3>4
  <2> QED
    BY <2>1, <2>2
<1>4. pending \in Pendings(i) /\ PendingInSection(text, i, pending)
  <2> HIDE DEF opened
  <2>1. CASE opened.kind = ""
    BY <1>3, <2>1
  <2>2. CASE opened.kind # ""
    <3> DEFINE u == IF line.used # Missing THEN i ELSE opened.used
               r == IF line.reset # Missing THEN i ELSE opened.reset
    <3>1. pending = [opened EXCEPT !.used = u, !.reset = r]
      BY <2>2
    <3>2. opened.used \in 0..i /\ opened.reset \in 0..i /\ i \in 0..i
      <4>1. i \in 0..i
        OBVIOUS
      <4> QED
        BY <1>3, <4>1, Zenon DEF Pendings
    <3>3. u \in 0..i /\ r \in 0..i /\ u \in {i, opened.used} /\ r \in {i, opened.reset}
      BY <3>2
    <3> HIDE DEF u, r, pending
    <3>4. /\ pending.kind = opened.kind /\ pending.used = u /\ pending.reset = r
          /\ pending \in Pendings(i)
      BY <1>3, <3>1, <3>3 DEF Pendings
    <3> QED
      BY <1>3, <3>3, <3>4 DEF PendingInSection
  <2> QED
    BY <2>1, <2>2
<1> HIDE DEF pending, windows
<1> QED
  BY <1>1, <1>2, <1>4 DEF LoopInv

\* Whatever the lines are and however many there are, a window that the parser
\* finds is the answer's own.
LEMMA ParsedOwn ==
    ASSUME NEW text, Len(text) \in Nat
    PROVE  \A n \in 0..Len(text) : LoopInv(text, n, Parsed(text)[n])
<1> DEFINE T == {n \in 0..Len(text) : ~LoopInv(text, n, Parsed(text)[n])}
<1> SUFFICES ASSUME T # {} PROVE FALSE
  OBVIOUS
<1>1. PICK x \in T : \A y \in T : x <= y
  <2>1. T \in SUBSET Nat
    OBVIOUS
  <2> HIDE DEF T
  <2> QED
    BY <2>1, LeastNumber
<1>2. x \in 0..Len(text) /\ ~LoopInv(text, x, Parsed(text)[x])
  BY <1>1
<1>3. CASE x = 0
  <2>1. Parsed(text)[0] = Unread
    BY ParsedFacts
  <2>2. Unread.pending \in Pendings(0) /\ Unread.windows \in [Kinds -> Positions(0)]
    BY DEF Unread, NoPending, NoLines, Pendings, Positions
  <2>3. LoopInv(text, 0, Unread)
    BY <2>2 DEF LoopInv, Unread, NoPending, NoLines, PendingInSection, WindowsOwn
  <2> QED
    BY <1>2, <1>3, <2>1, <2>3
<1>4. CASE x # 0
  <2>1. x - 1 \in 0..Len(text) /\ x \in 1..Len(text) /\ x - 1 \notin T
    BY <1>1, <1>2, <1>4
  <2>2. LoopInv(text, x - 1, Parsed(text)[x - 1])
    BY <2>1
  <2>3. Parsed(text)[x] = ParseLine(text, Parsed(text)[x - 1], x)
    BY <2>1, ParsedFacts
  <2>4. LoopInv(text, x, ParseLine(text, Parsed(text)[x - 1], x))
    BY <2>1, <2>2, LineOwn
  <2> QED
    BY <1>2, <2>3, <2>4
<1> QED
  BY <1>3, <1>4

\* The windows of an answer are the answer's own.
LEMMA UsageOwn ==
    \A usage \in UsageResults : \A k \in Kinds :
       usage[k] \in [span : Extents, own : BOOLEAN] /\ usage[k].own
<1> SUFFICES ASSUME NEW text \in Texts, NEW k \in Kinds
             PROVE  UsageOf(text)[k] \in [span : Extents, own : BOOLEAN] /\ UsageOf(text)[k].own
  <2>1. \A usage \in UsageResults : \E text \in Texts : usage = UsageOf(text)
    BY DEF UsageResults
  <2> QED
    BY <2>1
<1>1. PICK n \in 0..MaxLines : text \in [1..n -> Lines]
  BY DEF Texts
<1>2. n \in Nat
  BY <1>1, ClaudeUsageAssumption DEF ClaudeUsageAssumption
<1>3. text \in Seq(Lines) /\ Len(text) = n
  BY <1>1, <1>2, SeqDef, LenProperties
<1>4. \A i \in 1..n : text[i].reset \in Extents
  <2>1. \A c \in Contents : c.reset \in Extents
    <3>1. \A c \in Contents : c.reset \in {Missing} \cup Spans
      BY Zenon DEF Contents
    <3>2. {Missing} \cup Spans \subseteq Extents
      BY ClaudeUsageAssumption DEF Extents, NoReset, Missing, ClaudeUsageAssumption
    <3> QED
      BY <3>1, <3>2
  <2>2. \A line \in Lines : line.reset \in Extents
    BY <2>1 DEF Lines
  <2> QED
    BY <1>1, <2>2
<1> DEFINE end == Parsed(text)[n]
           parsed == ParseText(text)
<1>5. LoopInv(text, n, end)
  BY <1>2, <1>3, ParsedOwn
<1>6. parsed = Commit(text, end.pending, end.windows)
  BY <1>3 DEF ParseText
<1>7. parsed \in [Kinds -> Positions(n)] /\ WindowsOwn(text, parsed)
  <2> HIDE DEF end, parsed
  <2> QED
    BY <1>2, <1>5, <1>6, CommitOwn DEF LoopInv
<1>8. UsageOf(text)[k] =
        IF parsed[k].used = 0 THEN [span |-> Missing, own |-> TRUE]
        ELSE [span |-> IF parsed[k].reset = 0 THEN NoReset ELSE text[parsed[k].reset].reset,
              own |-> OwnSection(text, k, parsed[k])]
  BY DEF UsageOf
<1> HIDE DEF parsed
<1>9. parsed[k].reset \in 0..n /\ (parsed[k].used # 0 => OwnSection(text, k, parsed[k]))
  BY <1>7 DEF Positions, WindowsOwn
<1>10. NoReset \in Extents /\ Missing \in Extents
  BY ClaudeUsageAssumption DEF Extents, NoReset, Missing, ClaudeUsageAssumption
<1>11. CASE parsed[k].used = 0
  BY <1>8, <1>10, <1>11
<1>12. CASE parsed[k].used # 0
  <2>1. OwnSection(text, k, parsed[k]) = TRUE
    BY <1>9, <1>12 DEF OwnSection, SameSection
  <2>2. (IF parsed[k].reset = 0 THEN NoReset ELSE text[parsed[k].reset].reset) \in Extents
    <3>1. CASE parsed[k].reset = 0
      BY <1>10, <3>1
    <3>2. CASE parsed[k].reset # 0
      <4>1. parsed[k].reset \in 1..n
        BY <1>2, <1>9, <3>2
      <4> QED
        BY <1>4, <3>2, <4>1
    <3> QED
      BY <3>1, <3>2
  <2> DEFINE s == IF parsed[k].reset = 0 THEN NoReset ELSE text[parsed[k].reset].reset
  <2>3. UsageOf(text)[k] = [span |-> s, own |-> TRUE]
    BY <1>8, <1>12, <2>1
  <2> HIDE DEF s
  <2>4. s \in Extents
    BY <2>2 DEF s
  <2> QED
    BY <2>3, <2>4
<1> QED
  BY <1>11, <1>12

-----------------------------------------------------------------------------
(***************************************************************************)
(* What the agent believes about the Claude account.                       *)
(*                                                                         *)
(* The properties look at the agent's state alone; the invariant also says *)
(* what the poll under way and the status lines on their way may hold, as  *)
(* they are merged into it later.  Only LogoutForgets needs the pace at    *)
(* which status lines are delivered.                                       *)
(***************************************************************************)

\* Reports and status lines, whatever their age.
Reports == [auth : {"none", "authenticated", "unauthenticated", "unknown"},
            age : Int, windows : [Kinds -> Window]]

StatusLines == [stamped : BOOLEAN, old : BOOLEAN, report : Reports]

\* The tags that an event may move on.
Movable == 0..(Confirmations + 1)

\* The windows of a report are of its own sections, and none that is carried
\* has been reset.
Good(r) ==
    \A k \in Kinds : /\ r.windows[k].own
                     /\ r.windows[k].carried => r.windows[k].span > 0

\* No quota of the report is further on than the tag n.
TagsUpTo(r, n) == \A k \in Kinds : r.windows[k].tag <= n

\* What the variables of the proofs range over.
ClaudeTypes ==
    /\ result \in Reports /\ providers \in Reports
    /\ consecutiveLoggedOut \in 0..Confirmations /\ outs \in 0..Confirmations
    /\ pc \in {"idle", "auth", "usage", "store"}
    /\ reading \in 0..1

\* Quota in the poll under way and in the agent's state.
QuotaInv == Good(result) /\ Good(providers)

\* The count of answers is the number of polls answered "logged out" in a
\* row, up to the answer that has not been looked at.
CountInv ==
    /\ pc # "auth" => consecutiveLoggedOut = outs
    /\ pc = "auth" /\ answer # "out" => outs = 0
    /\ pc = "auth" /\ answer = "out" =>
          outs = IF consecutiveLoggedOut < Confirmations
                 THEN consecutiveLoggedOut + 1 ELSE Confirmations

\* A logout is reported without quota, and only when it is confirmed.
LogoutInv ==
    /\ result.auth = "unauthenticated" =>
          pc = "store" /\ outs = Confirmations /\ result.windows = NoWindows
    /\ providers.auth = "unauthenticated" => providers.windows = NoWindows

\* How far the quota of a status line may have come.
LineTag(l) == IF l.old THEN 2 ELSE 1

\* How far the end of a login has been noticed, where its quota still is.
TagInv ==
    /\ TagsUpTo(result, 1) /\ TagsUpTo(providers, Confirmations + 1)
    /\ \A l \in lines : TagsUpTo(l.report, LineTag(l))

\* A status line reports a login, with quota of its own.
LineOk(l) ==
    l \in StatusLines /\ Good(l.report) /\ l.report.auth = "authenticated"

LinesInv == \A l \in lines : LineOk(l)

ClaudeInv == ClaudeTypes /\ QuotaInv /\ CountInv /\ LogoutInv /\ LinesInv

\* What windows and tags are made of.
LEMMA WindowFacts ==
    /\ Extents \subseteq Int /\ Tags \subseteq Int /\ 0 \in Tags /\ 1 \in Tags
    /\ Missing \in Extents /\ Spans \subseteq Extents /\ 1..NoReset \subseteq Extents
    /\ NoWindow \in Window /\ NoWindow.own /\ ~NoWindow.carried /\ NoWindow.tag = 0
    /\ Movable \subseteq Int /\ \A t \in Movable : t + 1 \in Tags
    /\ {0} \in SUBSET Movable /\ {Confirmations + 1} \in SUBSET Movable
<1>1. Confirmations \in Nat \ {0} /\ Horizon \in Nat /\ Spans \subseteq 0..Horizon
  BY ClaudeStateAssumption, ClaudeUsageAssumption
  DEF ClaudeStateAssumption, ClaudeUsageAssumption
<1>2. /\ Extents \subseteq Int /\ Missing \in Extents /\ Spans \subseteq Extents
      /\ 1..NoReset \subseteq Extents
  BY <1>1 DEF Extents, Missing, NoReset
<1>3. /\ Tags \subseteq Int /\ 0 \in Tags /\ 1 \in Tags
      /\ Movable \subseteq Int /\ \A t \in Movable : t + 1 \in Tags
      /\ {0} \in SUBSET Movable /\ {Confirmations + 1} \in SUBSET Movable
  BY <1>1 DEF Tags, Gone, Movable
<1>4. NoWindow \in Window /\ NoWindow.own /\ ~NoWindow.carried /\ NoWindow.tag = 0
  BY <1>2, <1>3 DEF NoWindow, Window
<1> QED
  BY <1>2, <1>3, <1>4

\* What the windows of a report hold.
LEMMA ReportFacts ==
    \A r \in Reports : \A k \in Kinds :
       r.windows[k] \in Window /\ r.windows[k].tag \in Int /\ r.windows[k].span \in Int
  BY WindowFacts DEF Reports, Window

\* An event moves tags on and leaves everything else of a report.
LEMMA RetagFacts ==
    ASSUME NEW r \in Reports, NEW tags \in SUBSET Movable
    PROVE  /\ Retag(r, tags) \in Reports
           /\ Retag(r, tags).auth = r.auth
           /\ Good(r) => Good(Retag(r, tags))
           /\ r.windows = NoWindows => Retag(r, tags) = r
           /\ \A k \in Kinds : \/ Retag(r, tags).windows[k] = r.windows[k]
                               \/ /\ r.windows[k].tag \in tags
                                  /\ Retag(r, tags).windows[k].tag = r.windows[k].tag + 1
<1> DEFINE w(k) == MoveOn(r.windows[k], tags)
           ws == [k \in Kinds |-> w(k)]
<1>1. Retag(r, tags) = [r EXCEPT !.windows = ws]
  BY DEF Retag
<1>2. \A k \in Kinds : r.windows[k] \in Window
  BY DEF Reports
<1>3. ASSUME NEW k \in Kinds
      PROVE  /\ w(k) \in Window
             /\ w(k).own = r.windows[k].own /\ w(k).carried = r.windows[k].carried
             /\ w(k).span = r.windows[k].span
             /\ \/ w(k) = r.windows[k]
                \/ r.windows[k].tag \in tags /\ w(k).tag = r.windows[k].tag + 1
  <2>1. CASE w(k) = r.windows[k]
    BY <1>2, <2>1
  <2>2. CASE r.windows[k].tag \in tags /\ w(k) = [r.windows[k] EXCEPT !.tag = @ + 1]
    <3>1. r.windows[k].tag + 1 \in Tags
      BY <2>2, WindowFacts
    <3> HIDE DEF w
    <3> QED
      BY <1>2, <2>2, <3>1 DEF Window
  <2> QED
    BY <2>1, <2>2 DEF MoveOn
<1>4. r.windows = NoWindows => ws = r.windows
  BY DEF NoWindows, MoveOn
<1> HIDE DEF w
<1>5. ws \in [Kinds -> Window] /\ \A k \in Kinds : ws[k] = w(k)
  BY <1>3
<1> HIDE DEF ws
<1>6. /\ Retag(r, tags) \in Reports /\ Retag(r, tags).auth = r.auth
      /\ Retag(r, tags).windows = ws
  BY <1>1, <1>5 DEF Reports
<1>7. r.windows = NoWindows => Retag(r, tags) = r
  BY <1>1, <1>4 DEF Reports
<1>8. Good(r) => Good(Retag(r, tags))
  BY <1>3, <1>5, <1>6 DEF Good
<1> QED
  BY <1>3, <1>5, <1>6, <1>7, <1>8

\* So does the passing of time with their ages.
LEMMA AgeFacts ==
    ASSUME NEW r \in Reports
    PROVE  /\ Aged(r) \in Reports /\ Younger(r) \in Reports
           /\ Aged(r).auth = r.auth /\ Younger(r).auth = r.auth
           /\ Aged(r).windows = r.windows /\ Younger(r).windows = r.windows
<1>1. r.age \in Int /\ MaxAge \in Int
  BY ClaudeStateAssumption DEF ClaudeStateAssumption, Reports
<1> DEFINE a == IF r.age < MaxAge THEN r.age + 1 ELSE r.age
           y == IF r.age < MaxAge THEN r.age - 1 ELSE r.age
<1>2. a \in Int /\ y \in Int
  BY <1>1
<1>3. Aged(r) = [r EXCEPT !.age = a] /\ Younger(r) = [r EXCEPT !.age = y]
  BY DEF Aged, Younger
<1> HIDE DEF a, y
<1> QED
  BY <1>2, <1>3 DEF Reports

\* What a merge makes of two reports: it takes quota from either, drops what
\* has been reset between the two observations, and drops all at a logout.
LEMMA MergeFacts ==
    ASSUME NEW a \in Reports, NEW b \in Reports, Good(a), Good(b)
    PROVE  LET m == MergeProviderReports(a, b)
           IN  /\ m \in Reports /\ Good(m)
               /\ m.auth \in {a.auth, b.auth}
               /\ m.auth = "unauthenticated" => m.windows = NoWindows
               /\ \A k \in Kinds :
                     m.windows[k].tag \in {0, a.windows[k].tag, b.windows[k].tag}
<1> DEFINE newer == IF b.age < a.age THEN b ELSE a
           older == IF b.age < a.age THEN a ELSE b
           later == older.age - newer.age
           Fill(k) == IF /\ newer.windows[k] = NoWindow
                         /\ reusableWindow(older.windows[k], later)
                      THEN Carry(older.windows[k], later)
                      ELSE newer.windows[k]
           ws == IF Forgets(newer) THEN NoWindows ELSE [k \in Kinds |-> Fill(k)]
           m == MergeProviderReports(a, b)
<1>1. m = [newer EXCEPT !.windows = ws]
  BY DEF MergeProviderReports
<1>2. /\ newer \in Reports /\ older \in Reports /\ Good(newer) /\ Good(older)
      /\ newer.auth \in {a.auth, b.auth}
      /\ \A k \in Kinds : /\ newer.windows[k].tag \in {a.windows[k].tag, b.windows[k].tag}
                          /\ older.windows[k].tag \in {a.windows[k].tag, b.windows[k].tag}
  OBVIOUS
<1>3. later \in Nat
  BY DEF Reports
<1> HIDE DEF newer, older, later
<1>4. ASSUME NEW w \in Window, reusableWindow(w, later), w.own
      PROVE  /\ Carry(w, later) \in Window /\ Carry(w, later).own
             /\ Carry(w, later).span > 0 /\ Carry(w, later).tag = w.tag
  <2> DEFINE s == IF w.span = NoReset THEN NoReset ELSE w.span - later
  <2>1. NoReset \in Nat /\ NoReset > 0 /\ w.span \in Int
    <3>1. NoReset \in Nat /\ NoReset > 0
      BY ClaudeUsageAssumption DEF ClaudeUsageAssumption, NoReset
    <3>2. w.span \in Extents
      BY DEF Window
    <3> QED
      BY <3>1, <3>2, WindowFacts
  <2>2. s \in 1..NoReset
    <3>1. w.span <= NoReset
      BY DEF Window, Extents
    <3> QED
      BY <1>3, <1>4, <2>1, <3>1 DEF reusableWindow
  <2>4. s \in Extents /\ s > 0
    BY <2>1, <2>2, WindowFacts
  <2>3. Carry(w, later) = [w EXCEPT !.span = s, !.carried = TRUE]
    BY DEF Carry
  <2> HIDE DEF s
  <2> QED
    BY <1>4, <2>3, <2>4 DEF Window
<1>5. NoWindow \in Window /\ NoWindow.own /\ ~NoWindow.carried /\ NoWindow.tag = 0
  BY WindowFacts
<1>6. ASSUME NEW k \in Kinds
      PROVE  /\ Fill(k) \in Window /\ Fill(k).own
             /\ Fill(k).carried => Fill(k).span > 0
             /\ Fill(k).tag \in {a.windows[k].tag, b.windows[k].tag}
  <2>1. /\ newer.windows[k] \in Window /\ older.windows[k] \in Window
        /\ newer.windows[k].own /\ older.windows[k].own
        /\ newer.windows[k].carried => newer.windows[k].span > 0
    BY <1>2 DEF Reports, Good
  <2>2. CASE /\ newer.windows[k] = NoWindow
             /\ reusableWindow(older.windows[k], later)
    BY <1>2, <1>4, <2>1, <2>2
  <2>3. CASE ~(/\ newer.windows[k] = NoWindow
               /\ reusableWindow(older.windows[k], later))
    BY <1>2, <2>1, <2>3
  <2> QED
    BY <2>2, <2>3
<1> HIDE DEF Fill
<1>7. /\ ws \in [Kinds -> Window]
      /\ \A k \in Kinds : /\ ws[k].own /\ (ws[k].carried => ws[k].span > 0)
                          /\ ws[k].tag \in {0, a.windows[k].tag, b.windows[k].tag}
  <2>1. CASE Forgets(newer)
    BY <1>5, <2>1 DEF NoWindows
  <2>2. CASE ~Forgets(newer)
    BY <1>6, <2>2
  <2> QED
    BY <2>1, <2>2
<1>8. newer.auth = "unauthenticated" => ws = NoWindows
  BY DEF Forgets
<1> HIDE DEF ws
<1>9. m \in Reports /\ m.auth = newer.auth /\ m.windows = ws
  BY <1>1, <1>2, <1>7 DEF Reports
<1>10. Good(m)
  BY <1>7, <1>9 DEF Good
<1> HIDE DEF m
<1> QED
  BY <1>2, <1>7, <1>8, <1>9, <1>10 DEF m

\* What happens to a status line on its way.
LEMMA LineFacts ==
    ASSUME NEW l, LineOk(l)
    PROVE  /\ \A r \in Reports :
                 LET n == [l EXCEPT !.report = r]
                 IN  /\ n.report = r /\ n.old = l.old
                     /\ Good(r) /\ r.auth = "authenticated" => LineOk(n)
           /\ LET n == [l EXCEPT !.old = TRUE]
              IN  LineOk(n) /\ n.old /\ n.report = l.report
           /\ LET n == [l EXCEPT !.stamped = TRUE, !.report.age = 0]
              IN  LineOk(n) /\ n.old = l.old /\ n.report.windows = l.report.windows
<1>1. /\ l \in StatusLines /\ l.report \in Reports /\ Good(l.report)
      /\ l.report.auth = "authenticated"
  BY DEF LineOk, StatusLines
<1>2. ASSUME NEW r \in Reports
      PROVE  LET n == [l EXCEPT !.report = r]
             IN  n.report = r /\ n.old = l.old /\ n \in StatusLines
  BY <1>1 DEF StatusLines
<1>3. LET n == [l EXCEPT !.old = TRUE]
      IN  n \in StatusLines /\ n.old /\ n.report = l.report
  BY <1>1 DEF StatusLines
<1> DEFINE r == [l.report EXCEPT !.age = 0]
<1>4. r \in Reports /\ r.windows = l.report.windows /\ r.auth = l.report.auth
  BY <1>1 DEF Reports
<1>5. [l EXCEPT !.stamped = TRUE, !.report.age = 0]
         = [l EXCEPT !.stamped = TRUE, !.report = r]
  BY <1>1 DEF StatusLines
<1> HIDE DEF r
<1>6. LET n == [l EXCEPT !.stamped = TRUE, !.report = r]
      IN  n \in StatusLines /\ n.old = l.old /\ n.report = r
  BY <1>1, <1>4 DEF StatusLines
<1>7. Good(r)
  BY <1>1, <1>4 DEF Good
<1> QED
  BY <1>1, <1>2, <1>3, <1>4, <1>5, <1>6, <1>7 DEF LineOk

\* Reports with no quota, and reports as they are read.
LEMMA FreshFacts ==
    /\ NoReport \in Reports /\ Good(NoReport) /\ NoReport.windows = NoWindows
    /\ \A auth \in {"authenticated", "unauthenticated", "unknown"} :
          /\ Observed(auth, NoWindows) \in Reports /\ Good(Observed(auth, NoWindows))
          /\ Observed(auth, NoWindows).auth = auth
          /\ Observed(auth, NoWindows).windows = NoWindows
    /\ NoWindows \in [Kinds -> Window]
    /\ \A k \in Kinds : NoWindows[k].tag = 0
<1>1. NoWindow \in Window /\ NoWindow.own /\ ~NoWindow.carried /\ NoWindow.tag = 0
  BY WindowFacts
<1>2. NoWindows \in [Kinds -> Window] /\ \A k \in Kinds : NoWindows[k] = NoWindow
  BY <1>1 DEF NoWindows
<1>3. MaxAge \in Int
  BY ClaudeStateAssumption DEF ClaudeStateAssumption
<1> QED
  BY <1>1, <1>2, <1>3 DEF NoReport, Observed, Reports, Good

\* The readings that polls and status lines come with.
Readings == RateLimits \cup UsageResults

\* Quota that was just read is its own, is not carried, and has the tag of
\* the login it was read under.
LEMMA TaggedFacts ==
    ASSUME NEW usage \in Readings, NEW tag \in 0..1
    PROVE  /\ Tagged(usage, tag) \in [Kinds -> Window]
           /\ \A k \in Kinds : /\ Tagged(usage, tag)[k].own /\ ~Tagged(usage, tag)[k].carried
                               /\ Tagged(usage, tag)[k].tag \in {0, tag}
<1>1. ASSUME NEW k \in Kinds
      PROVE  usage[k].span \in Extents /\ usage[k].own = TRUE
  <2>1. CASE usage \in UsageResults
    BY <2>1, UsageOwn
  <2>2. CASE usage \in RateLimits
    <3>1. usage[k] \in [span : {Missing} \cup Spans, own : {TRUE}]
      BY <2>2 DEF RateLimits
    <3>2. usage[k].span \in {Missing} \cup Spans /\ usage[k].own = TRUE
      BY <3>1, Zenon
    <3>3. {Missing} \cup Spans \subseteq Extents
      BY WindowFacts
    <3> QED
      BY <3>2, <3>3
  <2> QED
    BY <2>1, <2>2 DEF Readings
<1> DEFINE W(k) == IF usage[k].span = Missing THEN NoWindow
                   ELSE [span |-> usage[k].span, tag |-> tag, carried |-> FALSE,
                         own |-> usage[k].own]
<1>2. Tagged(usage, tag) = [k \in Kinds |-> W(k)]
  BY DEF Tagged
<1>3. ASSUME NEW k \in Kinds
      PROVE  W(k) \in Window /\ W(k).own /\ ~W(k).carried /\ W(k).tag \in {0, tag}
  <2>1. CASE usage[k].span = Missing
    BY <2>1, WindowFacts
  <2>2. CASE usage[k].span # Missing
    <3> DEFINE s == usage[k].span
    <3>1. s \in Extents /\ tag \in Tags /\ usage[k].own = TRUE
      <4>1. s \in Extents /\ usage[k].own = TRUE
        BY <1>1, Zenon
      <4>2. tag \in Tags
        BY WindowFacts
      <4> QED
        BY <4>1, <4>2
    <3>2. W(k) = [span |-> s, tag |-> tag, carried |-> FALSE, own |-> TRUE]
      BY <2>2, <3>1
    <3> HIDE DEF W, s
    <3> QED
      BY <3>1, <3>2 DEF Window
  <2> QED
    BY <2>1, <2>2
<1> HIDE DEF W
<1> QED
  BY <1>2, <1>3

\* What storing the result of a poll leaves.
LEMMA StoredFacts ==
    ASSUME ClaudeTypes, QuotaInv, LogoutInv
    PROVE  /\ Stored \in Reports /\ Good(Stored)
           /\ Stored.auth \in {providers.auth, result.auth}
           /\ Stored.auth = "unauthenticated" => Stored.windows = NoWindows
           /\ \A k \in Kinds : Stored.windows[k].tag \in
                                 {0, providers.windows[k].tag, result.windows[k].tag}
<1>1. /\ providers \in Reports /\ result \in Reports /\ Good(providers) /\ Good(result)
      /\ providers.auth = "unauthenticated" => providers.windows = NoWindows
      /\ result.auth = "unauthenticated" => result.windows = NoWindows
  BY DEF ClaudeTypes, QuotaInv, LogoutInv
<1>2. CASE Stored = providers
  BY <1>1, <1>2
<1>3. CASE Stored = result
  BY <1>1, <1>3
<1>4. CASE Stored = MergeProviderReports(providers, result)
  BY <1>1, <1>4, MergeFacts
<1> QED
  BY <1>2, <1>3, <1>4 DEF Stored

\* The tags that the answer of a poll moves on.
AnswerTags(said) == IF said = "out" /\ account = "out" THEN 1..Confirmations ELSE {}

\* Those are tags that an event may move on.
LEMMA AnswerTagsFacts == \A said : AnswerTags(said) \in SUBSET Movable
  BY ClaudeStateAssumption DEF AnswerTags, Movable, ClaudeStateAssumption

\* The status lines under way stay so.
LEMMA LinesStep ==
    ASSUME LinesInv, [ClaudeNext]_claudeVars
    PROVE  LinesInv'
<1> USE DEF LinesInv
<1>1. ASSUME NEW l, LineOk(l), NEW r \in Reports, r.auth = l.report.auth, Good(r)
      PROVE  LineOk([l EXCEPT !.report = r])
  BY <1>1, LineFacts DEF LineOk
<1>2. ASSUME NEW l, LineOk(l), NEW tags \in SUBSET Movable
      PROVE  LineOk([l EXCEPT !.report = Retag(@, tags)])
  <2>1. l.report \in Reports /\ Good(l.report)
    BY <1>2 DEF LineOk, StatusLines
  <2> QED
    BY <1>1, <1>2, <2>1, RetagFacts
<1>3. ASSUME NEW l, LineOk(l)
      PROVE  /\ LineOk([l EXCEPT !.report = Aged(@)])
             /\ LineOk([l EXCEPT !.report = Younger(@)])
  <2>1. l.report \in Reports /\ Good(l.report)
    BY <1>3 DEF LineOk, StatusLines
  <2>2. Good(Aged(l.report)) /\ Good(Younger(l.report))
    BY <2>1, AgeFacts DEF Good
  <2> QED
    BY <1>1, <1>3, <2>1, <2>2, AgeFacts
<1>4. ASSUME lines' = {[l EXCEPT !.report = Aged(@)] : l \in lines}
      PROVE  LinesInv'
  BY <1>3, <1>4
<1>5. CASE LogOut
  <2>1. lines' = RetagLines({0})
    BY <1>5 DEF LogOut
  <2> QED
    BY <1>2, <2>1, WindowFacts DEF RetagLines
<1>6. CASE ClockSetBack
  BY <1>3, <1>6 DEF ClockSetBack
<1>7. CASE AgentRestarts
  BY <1>7 DEF AgentRestarts
<1>8. CASE StartCollect
  <2>1. PICK said : lines' = {[l EXCEPT !.old = TRUE] : l \in RetagLines(AnswerTags(said))}
    BY <1>8 DEF StartCollect, AnswerTags
  <2>2. \A l \in RetagLines(AnswerTags(said)) : LineOk(l)
    BY <1>2, AnswerTagsFacts DEF RetagLines
  <2> QED
    BY <2>1, <2>2, LineFacts
<1>9. CASE AuthFailed \/ AuthLoggedOut \/ AuthLoggedIn \/ UsageParsed
  BY <1>4, <1>9 DEF AuthFailed, AuthLoggedOut, AuthLoggedIn, UsageParsed, Observe
<1>10. CASE StoreCollectionResult
  <2>1. CASE UNCHANGED lines
    BY <2>1
  <2>2. CASE lines' = RetagLines({Confirmations + 1})
    <3>1. {Confirmations + 1} \in SUBSET Movable
      BY WindowFacts
    <3> QED
      BY <1>2, <2>2, <3>1 DEF RetagLines
  <2> QED
    BY <1>10, <2>1, <2>2 DEF StoreCollectionResult
<1>11. CASE StatusLine
  <2>1. PICK usage \in RateLimits :
          lines' = {[stamped |-> FALSE, old |-> FALSE,
                     report |-> [auth |-> "authenticated", age |-> MaxAge,
                                 windows |-> Tagged(usage, 0)]]}
    BY <1>11 DEF StatusLine
  <2>2. /\ Tagged(usage, 0) \in [Kinds -> Window]
        /\ \A k \in Kinds : Tagged(usage, 0)[k].own /\ ~Tagged(usage, 0)[k].carried
    BY TaggedFacts DEF Readings
  <2>3. MaxAge \in Int
    BY ClaudeStateAssumption DEF ClaudeStateAssumption
  <2> DEFINE r == [auth |-> "authenticated", age |-> MaxAge, windows |-> Tagged(usage, 0)]
             n == [stamped |-> FALSE, old |-> FALSE, report |-> r]
  <2>4. r \in Reports /\ r.auth = "authenticated" /\ r.windows = Tagged(usage, 0)
    BY <2>2, <2>3 DEF Reports
  <2>5. Good(r)
    BY <2>2, <2>4 DEF Good
  <2> HIDE DEF r
  <2>6. n \in StatusLines /\ n.report = r
    BY <2>4 DEF StatusLines
  <2>7. lines' = {n}
    BY <2>1 DEF r
  <2> HIDE DEF n
  <2> QED
    BY <2>4, <2>5, <2>6, <2>7 DEF LineOk
<1>12. ASSUME NEW l \in lines, DropStatusLine(l) \/ IngestStatusLine(l)
       PROVE  LinesInv'
  BY <1>12 DEF DropStatusLine, IngestStatusLine
<1>13. ASSUME NEW l \in lines, ReceiveStatusLine(l)
       PROVE  LinesInv'
  <2>1. LineOk([l EXCEPT !.stamped = TRUE, !.report.age = 0])
    BY LineFacts
  <2> QED
    BY <1>3, <1>13, <2>1 DEF ReceiveStatusLine
<1>14. CASE UNCHANGED lines
  BY <1>14
<1> QED
  BY <1>5, <1>6, <1>7, <1>8, <1>9, <1>10, <1>11, <1>12, <1>13, <1>14
  DEF ClaudeNext, Collect, LogIn, CollectTick, UsageFailed, claudeVars

\* The count of answers keeps up with the polls.
LEMMA CountStep ==
    ASSUME ClaudeTypes, CountInv, [ClaudeNext]_claudeVars
    PROVE  /\ CountInv'
           /\ consecutiveLoggedOut' \in 0..Confirmations /\ outs' \in 0..Confirmations
<1>1. /\ consecutiveLoggedOut \in 0..Confirmations /\ outs \in 0..Confirmations
      /\ Confirmations \in Nat \ {0}
  BY ClaudeStateAssumption DEF ClaudeTypes, ClaudeStateAssumption
<1> USE DEF CountInv
<1>2. CASE LogOut \/ LogIn \/ ClockSetBack \/ CollectTick \/ StatusLine \/ UNCHANGED claudeVars
  BY <1>1, <1>2 DEF LogOut, LogIn, ClockSetBack, CollectTick, StatusLine, claudeVars, polls
<1>3. CASE AgentRestarts
  BY <1>1, <1>3 DEF AgentRestarts
<1>4. CASE StartCollect
  BY <1>1, <1>4 DEF StartCollect
<1>5. CASE AuthFailed \/ AuthLoggedIn
  BY <1>1, <1>5 DEF AuthFailed, AuthLoggedIn, resetLogoutConfirmation
<1>6. CASE AuthLoggedOut
  BY <1>1, <1>6 DEF AuthLoggedOut, confirmLoggedOut
<1>7. CASE UsageParsed \/ UsageFailed \/ StoreCollectionResult
  BY <1>1, <1>7 DEF UsageParsed, UsageFailed, StoreCollectionResult
<1>8. ASSUME NEW l \in lines, DropStatusLine(l) \/ ReceiveStatusLine(l) \/ IngestStatusLine(l)
      PROVE  UNCHANGED <<pc, answer, consecutiveLoggedOut, outs>>
  BY <1>8 DEF DropStatusLine, ReceiveStatusLine, IngestStatusLine, polls
<1> QED
  BY <1>1, <1>2, <1>3, <1>4, <1>5, <1>6, <1>7, <1>8 DEF ClaudeNext, Collect

\* The result of the poll and the agent's state stay as they should be.
LEMMA ReportsStep ==
    ASSUME ClaudeInv, [ClaudeNext]_claudeVars
    PROVE  /\ result' \in Reports /\ Good(result')
           /\ result'.auth = "unauthenticated" =>
                 pc' = "store" /\ outs' = Confirmations /\ result'.windows = NoWindows
           /\ providers' \in Reports /\ Good(providers')
           /\ providers'.auth = "unauthenticated" => providers'.windows = NoWindows
           /\ pc' \in {"idle", "auth", "usage", "store"} /\ reading' \in 0..1
<1>1. /\ result \in Reports /\ Good(result) /\ providers \in Reports /\ Good(providers)
      /\ result.auth = "unauthenticated" =>
            pc = "store" /\ outs = Confirmations /\ result.windows = NoWindows
      /\ providers.auth = "unauthenticated" => providers.windows = NoWindows
      /\ pc \in {"idle", "auth", "usage", "store"} /\ reading \in 0..1
      /\ \A l \in lines : LineOk(l)
  BY DEF ClaudeInv, ClaudeTypes, QuotaInv, LogoutInv, LinesInv
<1>2. ASSUME NEW r \in Reports, Good(r)
      PROVE  /\ Aged(r) \in Reports /\ Good(Aged(r)) /\ Aged(r).auth = r.auth
             /\ Aged(r).windows = r.windows
             /\ Younger(r) \in Reports /\ Good(Younger(r)) /\ Younger(r).auth = r.auth
             /\ Younger(r).windows = r.windows
  BY <1>2, AgeFacts DEF Good
<1>3. CASE LogOut
  <2>1. /\ result' = Retag(result, {0}) /\ providers' = Retag(providers, {0})
        /\ reading' = IF reading = 0 THEN 1 ELSE reading
        /\ UNCHANGED <<pc, outs>>
    BY <1>3 DEF LogOut
  <2> QED
    BY <1>1, <2>1, RetagFacts, WindowFacts
<1>4. CASE ClockSetBack
  BY <1>1, <1>2, <1>4 DEF ClockSetBack
<1>5. CASE AgentRestarts
  <2>1. NoReport.auth = "none"
    BY DEF NoReport
  <2> QED
    BY <1>5, <2>1, FreshFacts DEF AgentRestarts
<1>6. CASE StartCollect
  <2>1. PICK said : providers' = Retag(providers, AnswerTags(said))
    BY <1>6 DEF StartCollect, AnswerTags
  <2>2. pc = "idle" /\ pc' = "auth" /\ UNCHANGED <<result, reading>>
    BY <1>6 DEF StartCollect
  <2> QED
    BY <1>1, <2>1, <2>2, AnswerTagsFacts, RetagFacts
<1>7. CASE AuthFailed
  <2>1. /\ result' = Observed("unknown", NoWindows) /\ providers' = Aged(providers)
        /\ pc' = "store" /\ UNCHANGED reading
    BY <1>7 DEF AuthFailed, Observe, Unavailable
  <2> QED
    BY <1>1, <1>2, <2>1, FreshFacts
<1>8. CASE AuthLoggedOut
  <2>1. /\ \/ result' = Observed("unknown", NoWindows)
           \/ /\ result' = Observed("unauthenticated", NoWindows)
              /\ consecutiveLoggedOut' >= Confirmations
        /\ providers' = Aged(providers) /\ pc' = "store" /\ UNCHANGED reading
    BY <1>8 DEF AuthLoggedOut, Observe, Unavailable
  <2>2. /\ CountInv' /\ consecutiveLoggedOut' \in 0..Confirmations
        /\ outs' \in 0..Confirmations /\ Confirmations \in Nat
    BY CountStep, ClaudeStateAssumption DEF ClaudeInv, ClaudeStateAssumption
  <2>3. consecutiveLoggedOut' >= Confirmations => outs' = Confirmations
    BY <2>1, <2>2 DEF CountInv
  <2> QED
    BY <1>1, <1>2, <2>1, <2>3, FreshFacts
<1>9. CASE AuthLoggedIn
  <2>1. /\ result' = Observed("authenticated", NoWindows) /\ providers' = Aged(providers)
        /\ pc' = "usage" /\ reading' \in 0..1
    BY <1>9 DEF AuthLoggedIn, Observe
  <2> QED
    BY <1>1, <1>2, <2>1, FreshFacts
<1>10. CASE UsageParsed
  <2>1. PICK usage \in Readings :
           result' = Observed("authenticated", Tagged(usage, reading))
    BY <1>10 DEF UsageParsed, Observe, Readings
  <2>2. providers' = Aged(providers) /\ pc' = "store" /\ UNCHANGED reading
    BY <1>10 DEF UsageParsed, Observe
  <2> DEFINE ws == Tagged(usage, reading)
  <2>3. ws \in [Kinds -> Window] /\ \A k \in Kinds : ws[k].own /\ ~ws[k].carried
    BY <1>1, TaggedFacts
  <2> HIDE DEF ws
  <2>4. /\ Observed("authenticated", ws) \in Reports /\ Good(Observed("authenticated", ws))
        /\ Observed("authenticated", ws).auth = "authenticated"
    BY <2>3 DEF Observed, Reports, Good
  <2> QED
    BY <1>1, <1>2, <2>1, <2>2, <2>4 DEF ws
<1>11. CASE UsageFailed
  BY <1>1, <1>11 DEF UsageFailed
<1>12. CASE StoreCollectionResult
  <2>1. /\ result' = NoReport /\ pc' = "idle" /\ reading' = 0
        /\ providers' = Stored \/ providers' = Retag(Stored, {Confirmations + 1})
    BY <1>12 DEF StoreCollectionResult
  <2>2. NoReport.auth = "none"
    BY DEF NoReport
  <2>3. {Confirmations + 1} \in SUBSET Movable
    BY WindowFacts
  <2>4. /\ Stored \in Reports /\ Good(Stored)
        /\ Stored.auth = "unauthenticated" => Stored.windows = NoWindows
    BY StoredFacts DEF ClaudeInv
  <2> QED
    BY <2>1, <2>2, <2>3, <2>4, FreshFacts, RetagFacts
<1>13. ASSUME NEW l \in lines, ReceiveStatusLine(l)
       PROVE  /\ result' = Aged(result) /\ providers' = Aged(providers)
              /\ UNCHANGED <<pc, outs, reading>>
  BY <1>13 DEF ReceiveStatusLine
<1>14. ASSUME NEW l \in lines, IngestStatusLine(l)
       PROVE  /\ UNCHANGED <<result, pc, outs, reading>>
              /\ providers' \in Reports /\ Good(providers')
              /\ providers'.auth = "unauthenticated" => providers'.windows = NoWindows
  <2>1. l.report \in Reports /\ Good(l.report) /\ l.report.auth = "authenticated"
    BY <1>1 DEF LineOk, StatusLines
  <2>2. providers' = l.report \/ providers' = MergeProviderReports(providers, l.report)
    BY <1>14 DEF IngestStatusLine
  <2>3. UNCHANGED <<result, pc, outs, reading>>
    BY <1>14 DEF IngestStatusLine, polls
  <2> QED
    BY <1>1, <2>1, <2>2, <2>3, MergeFacts
<1>15. ASSUME NEW l \in lines, DropStatusLine(l)
       PROVE  UNCHANGED <<result, providers, pc, outs, reading>>
  BY <1>15 DEF DropStatusLine, polls
<1>16. CASE LogIn \/ CollectTick \/ StatusLine \/ UNCHANGED claudeVars
  BY <1>1, <1>16 DEF LogIn, CollectTick, StatusLine, claudeVars, polls
<1>17. CASE \E l \in lines : ReceiveStatusLine(l)
  BY <1>1, <1>2, <1>13, <1>17
<1>18. CASE \E l \in lines : IngestStatusLine(l) \/ DropStatusLine(l)
  BY <1>1, <1>14, <1>15, <1>18
<1> QED
  BY <1>3, <1>4, <1>5, <1>6, <1>7, <1>8, <1>9, <1>10, <1>11, <1>12, <1>16, <1>17, <1>18
  DEF ClaudeNext, Collect

\* The invariant is inductive.
LEMMA NextClaudeInv == ClaudeInv /\ [ClaudeNext]_claudeVars => ClaudeInv'
<1> SUFFICES ASSUME ClaudeInv, [ClaudeNext]_claudeVars PROVE ClaudeInv'
  OBVIOUS
<1>1. LinesInv'
  BY LinesStep DEF ClaudeInv
<1>2. /\ CountInv'
      /\ consecutiveLoggedOut' \in 0..Confirmations /\ outs' \in 0..Confirmations
  BY CountStep DEF ClaudeInv
<1>3. ClaudeTypes' /\ QuotaInv' /\ LogoutInv'
  BY <1>2, ReportsStep DEF ClaudeTypes, QuotaInv, LogoutInv
<1> QED
  BY <1>1, <1>2, <1>3 DEF ClaudeInv

\* The agent starts with nothing.
LEMMA InitClaudeInv == ClaudeInit => ClaudeInv
<1> SUFFICES ASSUME ClaudeInit PROVE ClaudeInv
  OBVIOUS
<1>1. NoReport.auth = "none"
  BY DEF NoReport
<1>2. Confirmations \in Nat \ {0}
  BY ClaudeStateAssumption DEF ClaudeStateAssumption
<1>3. ClaudeTypes /\ QuotaInv /\ LogoutInv
  BY <1>1, <1>2, FreshFacts DEF ClaudeInit, ClaudeTypes, QuotaInv, LogoutInv
<1>4. CountInv /\ LinesInv
  BY <1>2 DEF ClaudeInit, CountInv, LinesInv
<1> QED
  BY <1>3, <1>4 DEF ClaudeInv

\* The agent counts the polls answered "logged out" in a row, reports a logout
\* only when there were enough of them and without quota, and holds quota only
\* from its own section of an answer and not yet reset: in the poll under way,
\* in its state, and in the status lines that sessions are posting.
THEOREM ClaudeInvariant == ClaudeSpec => []ClaudeInv
BY InitClaudeInv, NextClaudeInv, PTL DEF ClaudeSpec

\* Quota that MergeProviderReports fills in from an older observation had not
\* been reset when the newer one was made, however the clock is set back and
\* whichever of a poll and a status line is stored first.
THEOREM ClaudeNoExpiredCarried == ClaudeSpec => []NoExpiredCarried
<1>1. ClaudeInv => NoExpiredCarried
  BY DEF ClaudeInv, QuotaInv, Good, NoExpiredCarried
<1> QED
  BY <1>1, ClaudeInvariant, PTL

\* For an answer of any number of lines, with headings, percentages and resets
\* in any order, what parseClaudeUsageText takes for a window stands in that
\* window's own section, and no merge mixes windows up afterwards.
THEOREM ClaudeShownFromOwnSection == ClaudeSpec => []ShownFromOwnSection
<1>1. ClaudeInv => ShownFromOwnSection
  BY DEF ClaudeInv, QuotaInv, Good, ShownFromOwnSection
<1> QED
  BY <1>1, ClaudeInvariant, PTL

\* The state turns to logged out only at the end of Confirmations polls in a row
\* that were answered so (confirmLoggedOut, resetLogoutConfirmation), whatever
\* status lines, restarts and failing calls came in between.
THEOREM ClaudeLogoutIsConfirmed == ClaudeSpec => LogoutIsConfirmed
<1> DEFINE Confirmed ==
             (providers'.auth = "unauthenticated" /\ providers.auth # "unauthenticated")
               => outs = Confirmations
<1>1. ClaudeInv /\ [ClaudeNext]_claudeVars => [Confirmed]_claudeVars
  <2> SUFFICES ASSUME ClaudeInv, ClaudeNext, providers'.auth = "unauthenticated",
                      providers.auth # "unauthenticated"
               PROVE  outs = Confirmations
    OBVIOUS
  <2>1. providers \in Reports
    BY DEF ClaudeInv, ClaudeTypes
  <2>2. /\ Aged(providers).auth = providers.auth
        /\ Younger(providers).auth = providers.auth
        /\ \A tags \in SUBSET Movable : Retag(providers, tags).auth = providers.auth
    BY <2>1, AgeFacts, RetagFacts
  <2>3. CASE StoreCollectionResult
    <3>1. Stored \in Reports /\ Stored.auth \in {providers.auth, result.auth}
      BY StoredFacts DEF ClaudeInv
    <3>2. {Confirmations + 1} \in SUBSET Movable
      BY WindowFacts
    <3>3. providers'.auth = Stored.auth
      BY <2>3, <3>1, <3>2, RetagFacts DEF StoreCollectionResult
    <3> QED
      BY <3>1, <3>3 DEF ClaudeInv, LogoutInv
  <2>4. ASSUME NEW l \in lines, IngestStatusLine(l) PROVE FALSE
    <3>1. l.report \in Reports /\ Good(l.report) /\ l.report.auth = "authenticated"
      BY DEF ClaudeInv, LinesInv, LineOk, StatusLines
    <3>2. providers' = l.report \/ providers' = MergeProviderReports(providers, l.report)
      BY <2>4 DEF IngestStatusLine
    <3>3. Good(providers)
      BY DEF ClaudeInv, QuotaInv
    <3>4. CASE providers' = l.report
      BY <3>1, <3>4
    <3>5. CASE providers' = MergeProviderReports(providers, l.report)
      BY <2>1, <3>1, <3>3, <3>5, MergeFacts
    <3> QED
      BY <3>2, <3>4, <3>5
  <2>5. ~StartCollect
    <3> SUFFICES ASSUME StartCollect PROVE FALSE
      OBVIOUS
    <3>1. PICK said : providers' = Retag(providers, AnswerTags(said))
      BY DEF StartCollect, AnswerTags
    <3> QED
      BY <2>2, <3>1, AnswerTagsFacts
  <2>6. ~LogOut
    BY <2>2, WindowFacts DEF LogOut
  <2>7. ~AgentRestarts
    <3>1. NoReport.auth = "none"
      BY DEF NoReport
    <3> QED
      BY <3>1 DEF AgentRestarts
  <2>8. ~ClockSetBack /\ ~LogIn /\ ~CollectTick /\ ~StatusLine
    BY <2>2 DEF ClockSetBack, LogIn, CollectTick, StatusLine
  <2>9. ~Collect
    BY <2>2
    DEF Collect, AuthFailed, AuthLoggedOut, AuthLoggedIn, UsageParsed, UsageFailed, Observe
  <2>10. \A l \in lines : ~DropStatusLine(l) /\ ~ReceiveStatusLine(l)
    BY <2>2 DEF DropStatusLine, ReceiveStatusLine
  <2> QED
    BY <2>3, <2>4, <2>5, <2>6, <2>7, <2>8, <2>9, <2>10 DEF ClaudeNext
<1> QED
  BY <1>1, ClaudeInvariant, PTL DEF ClaudeSpec, LogoutIsConfirmed

\* An event takes quota at most one tag further, and only the tags it names.
LEMMA RetagUpTo ==
    ASSUME NEW r \in Reports, NEW tags \in SUBSET Movable, NEW n \in Int, NEW m \in Int,
           TagsUpTo(r, n), n <= m, \A t \in tags : t <= n => t + 1 <= m
    PROVE  TagsUpTo(Retag(r, tags), m)
<1> SUFFICES ASSUME NEW k \in Kinds PROVE Retag(r, tags).windows[k].tag <= m
  BY DEF TagsUpTo
<1>1. r.windows[k].tag \in Int /\ r.windows[k].tag <= n
  BY ReportFacts DEF TagsUpTo
<1>2. \/ Retag(r, tags).windows[k] = r.windows[k]
      \/ /\ r.windows[k].tag \in tags
         /\ Retag(r, tags).windows[k].tag = r.windows[k].tag + 1
  BY RetagFacts
<1> QED
  BY <1>1, <1>2

\* When status lines are delivered in time and one answer does not confirm a
\* logout, no quota outlives the logout it has been told of.
LEMMA TagStep ==
    ASSUME Paced, Confirmations > 1, ClaudeInv, TagInv, [ClaudeNext]_claudeVars
    PROVE  TagInv'
<1>1. Confirmations \in Nat /\ Confirmations + 1 \in Int /\ Confirmations + 1 > 2
  BY ClaudeStateAssumption DEF ClaudeStateAssumption
<1>2. /\ result \in Reports /\ providers \in Reports /\ Good(providers)
      /\ pc \in {"idle", "auth", "usage", "store"} /\ reading \in 0..1
  BY DEF ClaudeInv, ClaudeTypes, QuotaInv
<1>3. ASSUME NEW l \in lines
      PROVE  /\ LineOk(l) /\ l.report \in Reports /\ l.old \in BOOLEAN
             /\ LineTag(l) \in Int /\ LineTag(l) \in {1, 2}
             /\ TagsUpTo(l.report, LineTag(l))
  BY DEF ClaudeInv, LinesInv, LineOk, StatusLines, TagInv, LineTag
<1>4. TagsUpTo(result, 1) /\ TagsUpTo(providers, Confirmations + 1)
  BY DEF TagInv
<1>5. ASSUME NEW r \in Reports, r.windows = NoWindows, NEW n \in Nat
      PROVE  TagsUpTo(r, n)
  BY <1>5, FreshFacts DEF TagsUpTo
<1>6. ASSUME NEW r \in Reports, NEW n \in Int, TagsUpTo(r, n)
      PROVE  TagsUpTo(Aged(r), n) /\ TagsUpTo(Younger(r), n)
  BY <1>6, AgeFacts DEF TagsUpTo
<1>7. NoReport \in Reports /\ NoReport.windows = NoWindows
  BY FreshFacts
<1> DEFINE LinesTags == \A l \in lines : TagsUpTo(l.report, LineTag(l))
<1>8. ASSUME TagsUpTo(result', 1), TagsUpTo(providers', Confirmations + 1), LinesTags'
      PROVE  TagInv'
  BY <1>8 DEF TagInv, LineTag
<1>9. ASSUME lines' \subseteq lines PROVE LinesTags'
  BY <1>3, <1>9 DEF LineTag
<1>10. ASSUME NEW l \in lines, NEW r \in Reports, TagsUpTo(r, LineTag(l))
       PROVE  LET n == [l EXCEPT !.report = r] IN TagsUpTo(n.report, LineTag(n))
  <2> DEFINE n == [l EXCEPT !.report = r]
  <2>1. LineOk(l)
    BY <1>3
  <2>2. n.report = r /\ n.old = l.old
    BY <2>1 DEF LineOk, StatusLines
  <2> HIDE DEF n
  <2>3. TagsUpTo(n.report, LineTag(n))
    BY <1>10, <2>2 DEF LineTag
  <2> QED
    BY <2>3 DEF n
<1>11. ASSUME NEW l \in lines
       PROVE  /\ LET n == [l EXCEPT !.report = Aged(@)] IN TagsUpTo(n.report, LineTag(n))
              /\ LET n == [l EXCEPT !.report = Younger(@)] IN TagsUpTo(n.report, LineTag(n))
  <2>1. Aged(l.report) \in Reports /\ Younger(l.report) \in Reports
    BY <1>3, AgeFacts
  <2> QED
    BY <1>3, <1>6, <1>10, <2>1
<1>12. ASSUME lines' = {[l EXCEPT !.report = Aged(@)] : l \in lines} PROVE LinesTags'
  BY <1>11, <1>12
<1>13. ASSUME NEW l \in lines, NEW tags \in SUBSET Movable,
              \A t \in tags : t <= LineTag(l) => t + 1 <= LineTag(l)
       PROVE  LET n == [l EXCEPT !.report = Retag(@, tags)] IN TagsUpTo(n.report, LineTag(n))
  <2>1. Retag(l.report, tags) \in Reports
    BY <1>3, RetagFacts
  <2>2. LineTag(l) <= LineTag(l)
    BY <1>3
  <2>3. TagsUpTo(Retag(l.report, tags), LineTag(l))
    BY <1>3, <1>13, <2>2, RetagUpTo
  <2> QED
    BY <1>10, <2>1, <2>3
<1>14. CASE LogOut
  <2>1. /\ result' = Retag(result, {0}) /\ providers' = Retag(providers, {0})
        /\ lines' = {[l EXCEPT !.report = Retag(@, {0})] : l \in lines}
    BY <1>14 DEF LogOut, RetagLines
  <2>2. {0} \in SUBSET Movable /\ 1 \in Int
    BY WindowFacts
  <2>3. /\ \A t \in {0} : t <= 1 => t + 1 <= 1
        /\ \A t \in {0} : t <= Confirmations + 1 => t + 1 <= Confirmations + 1
        /\ \A l \in lines : \A t \in {0} : t <= LineTag(l) => t + 1 <= LineTag(l)
        /\ Confirmations + 1 <= Confirmations + 1 /\ 1 <= 1
    BY <1>1, <1>3
  <2>4. TagsUpTo(result', 1)
    BY <1>2, <1>4, <2>1, <2>2, <2>3, RetagUpTo
  <2>5. TagsUpTo(providers', Confirmations + 1)
    BY <1>1, <1>2, <1>4, <2>1, <2>2, <2>3, RetagUpTo
  <2>6. LinesTags'
    BY <1>13, <2>1, <2>2, <2>3
  <2> QED
    BY <1>8, <2>4, <2>5, <2>6
<1>15. CASE ClockSetBack
  <2>1. LinesTags'
    BY <1>11, <1>15 DEF ClockSetBack
  <2>2. TagsUpTo(result', 1) /\ TagsUpTo(providers', Confirmations + 1)
    BY <1>1, <1>2, <1>4, <1>6, <1>15 DEF ClockSetBack
  <2> QED
    BY <1>8, <2>1, <2>2
<1>16. CASE AgentRestarts
  BY <1>1, <1>5, <1>7, <1>8, <1>16 DEF AgentRestarts
<1>17. CASE StartCollect
  <2>1. PICK said :
          /\ providers' = Retag(providers, AnswerTags(said))
          /\ lines' = {[l EXCEPT !.old = TRUE] : l \in RetagLines(AnswerTags(said))}
    BY <1>17 DEF StartCollect, AnswerTags
  <2>2. UNCHANGED result /\ \A l \in lines : ~l.old
    BY <1>17 DEF StartCollect, Pace
  <2>3. /\ AnswerTags(said) \in SUBSET Movable
        /\ \A t \in AnswerTags(said) : t \in Int /\ t <= Confirmations
    BY <1>1, AnswerTagsFacts DEF AnswerTags
  <2>4. TagsUpTo(providers', Confirmations + 1)
    <3>1. \A t \in AnswerTags(said) : t <= Confirmations + 1 => t + 1 <= Confirmations + 1
      BY <1>1, <2>3
    <3>2. Confirmations + 1 <= Confirmations + 1
      BY <1>1
    <3> QED
      BY <1>1, <1>2, <1>4, <2>1, <2>3, <3>1, <3>2, RetagUpTo
  <2>5. ASSUME NEW l \in lines
        PROVE  LET n == [[l EXCEPT !.report = Retag(@, AnswerTags(said))] EXCEPT !.old = TRUE]
               IN  TagsUpTo(n.report, LineTag(n))
    <3> DEFINE r == Retag(l.report, AnswerTags(said))
               p == [l EXCEPT !.report = r]
               n == [p EXCEPT !.old = TRUE]
    <3>1. LineTag(l) = 1
      BY <2>2 DEF LineTag
    <3>2. r \in Reports /\ Good(r) /\ r.auth = "authenticated"
      BY <1>3, <2>3, RetagFacts DEF LineOk
    <3>3. \A t \in AnswerTags(said) : t <= 1 => t + 1 <= 2
      BY <2>3
    <3>4. TagsUpTo(r, 2)
      BY <1>3, <2>3, <3>1, <3>3, RetagUpTo
    <3> HIDE DEF r
    <3>5. LineOk(p) /\ p.report = r
      <4>1. LineOk(l) /\ l \in StatusLines
        BY <1>3 DEF LineOk
      <4>2. p \in StatusLines /\ p.report = r
        BY <3>2, <4>1 DEF StatusLines
      <4> QED
        BY <3>2, <4>2 DEF LineOk
    <3> HIDE DEF p
    <3>6. n.old /\ n.report = r
      BY <3>5, LineFacts
    <3>7. TagsUpTo(n.report, LineTag(n))
      BY <3>4, <3>6 DEF LineTag
    <3> QED
      BY <3>7 DEF p, r
  <2>6. LinesTags'
    BY <2>1, <2>5 DEF RetagLines
  <2> QED
    BY <1>4, <1>8, <2>2, <2>4, <2>6
<1>18. CASE AuthFailed \/ AuthLoggedOut \/ AuthLoggedIn
  <2>1. /\ \E auth \in {"authenticated", "unauthenticated", "unknown"} :
              result' = Observed(auth, NoWindows)
        /\ providers' = Aged(providers)
        /\ lines' = {[l EXCEPT !.report = Aged(@)] : l \in lines}
    BY <1>18 DEF AuthFailed, AuthLoggedOut, AuthLoggedIn, Observe, Unavailable
  <2>2. result' \in Reports /\ result'.windows = NoWindows
    BY <2>1, FreshFacts
  <2>3. TagsUpTo(result', 1)
    BY <1>5, <2>2
  <2>4. TagsUpTo(providers', Confirmations + 1)
    BY <1>1, <1>2, <1>4, <1>6, <2>1
  <2> QED
    BY <1>8, <1>12, <2>1, <2>3, <2>4
<1>19. CASE UsageParsed
  <2>1. PICK usage \in Readings :
           result' = Observed("authenticated", Tagged(usage, reading))
    BY <1>19 DEF UsageParsed, Observe, Readings
  <2>2. /\ providers' = Aged(providers)
        /\ lines' = {[l EXCEPT !.report = Aged(@)] : l \in lines}
    BY <1>19 DEF UsageParsed, Observe
  <2>3. \A k \in Kinds : Tagged(usage, reading)[k].tag \in {0, reading}
    BY <1>2, TaggedFacts
  <2>4. result'.windows = Tagged(usage, reading)
    BY <2>1 DEF Observed
  <2>5. TagsUpTo(result', 1)
    BY <1>2, <2>3, <2>4 DEF TagsUpTo
  <2>6. TagsUpTo(providers', Confirmations + 1)
    BY <1>1, <1>2, <1>4, <1>6, <2>2
  <2> QED
    BY <1>8, <1>12, <2>2, <2>5, <2>6
<1>20. CASE StoreCollectionResult
  <2>1. /\ Stored \in Reports
        /\ Stored.auth = "unauthenticated" => Stored.windows = NoWindows
        /\ \A k \in Kinds : Stored.windows[k].tag \in
                              {0, providers.windows[k].tag, result.windows[k].tag}
    BY StoredFacts DEF ClaudeInv
  <2>2. {Confirmations + 1} \in SUBSET Movable
    BY WindowFacts
  <2>3. TagsUpTo(Stored, Confirmations + 1)
    <3> SUFFICES ASSUME NEW k \in Kinds PROVE Stored.windows[k].tag <= Confirmations + 1
      BY DEF TagsUpTo
    <3>1. /\ providers.windows[k].tag <= Confirmations + 1
          /\ result.windows[k].tag \in Int /\ result.windows[k].tag <= 1
      BY <1>2, <1>4, ReportFacts DEF TagsUpTo
    <3> QED
      BY <1>1, <2>1, <3>1
  <2>4. TagsUpTo(result', 1)
    BY <1>5, <1>7, <1>20 DEF StoreCollectionResult
  <2>5. CASE providers' = Stored /\ UNCHANGED lines
    BY <1>8, <1>9, <2>3, <2>4, <2>5
  <2>6. CASE /\ Stored.auth = "unauthenticated"
             /\ providers' = Retag(Stored, {Confirmations + 1})
             /\ lines' = RetagLines({Confirmations + 1})
    <3>1. providers' = Stored
      BY <2>1, <2>2, <2>6, RetagFacts
    <3>2. \A l \in lines : \A t \in {Confirmations + 1} :
             t <= LineTag(l) => t + 1 <= LineTag(l)
      BY <1>1, <1>3
    <3>3. LinesTags'
      BY <1>13, <2>2, <2>6, <3>2 DEF RetagLines
    <3> QED
      BY <1>8, <2>3, <2>4, <3>1, <3>3
  <2> QED
    BY <1>20, <2>5, <2>6 DEF StoreCollectionResult
<1>21. CASE StatusLine
  <2>1. UNCHANGED <<result, providers>>
    BY <1>21 DEF StatusLine, polls
  <2>2. PICK usage \in RateLimits :
          lines' = {[stamped |-> FALSE, old |-> FALSE,
                     report |-> [auth |-> "authenticated", age |-> MaxAge,
                                 windows |-> Tagged(usage, 0)]]}
    BY <1>21 DEF StatusLine
  <2> DEFINE ws == Tagged(usage, 0)
  <2>3. \A k \in Kinds : ws[k].tag = 0
    BY TaggedFacts DEF Readings
  <2> HIDE DEF ws
  <2>4. \A l \in lines' : ~l.old /\ l.report.windows = ws
    BY <2>2 DEF ws
  <2>5. LinesTags'
    BY <2>3, <2>4 DEF TagsUpTo, LineTag
  <2> QED
    BY <1>4, <1>8, <2>1, <2>5
<1>22. ASSUME NEW l \in lines, ReceiveStatusLine(l) PROVE TagInv'
  <2>1. TagsUpTo(result', 1) /\ TagsUpTo(providers', Confirmations + 1)
    BY <1>1, <1>2, <1>4, <1>6, <1>22 DEF ReceiveStatusLine
  <2> DEFINE n == [l EXCEPT !.stamped = TRUE, !.report.age = 0]
  <2>2. n.old = l.old /\ n.report.windows = l.report.windows
    BY <1>3, LineFacts
  <2>3. lines' = {n} \cup {[m EXCEPT !.report = Aged(@)] : m \in lines \ {l}}
    BY <1>22 DEF ReceiveStatusLine
  <2> HIDE DEF n
  <2>4. TagsUpTo(n.report, LineTag(n))
    BY <1>3, <2>2 DEF TagsUpTo, LineTag
  <2>5. LinesTags'
    BY <1>11, <2>3, <2>4
  <2> QED
    BY <1>8, <2>1, <2>5
<1>23. ASSUME NEW l \in lines, IngestStatusLine(l) PROVE TagInv'
  <2>1. l.report \in Reports /\ Good(l.report) /\ TagsUpTo(l.report, 2)
    <3>1. l.report \in Reports /\ Good(l.report)
      BY <1>3 DEF LineOk
    <3> QED
      BY <1>3, <3>1, ReportFacts DEF TagsUpTo
  <2>2. /\ providers' = l.report \/ providers' = MergeProviderReports(providers, l.report)
        /\ UNCHANGED result /\ lines' \subseteq lines
    BY <1>23 DEF IngestStatusLine, polls
  <2>3. TagsUpTo(providers', Confirmations + 1)
    <3> SUFFICES ASSUME NEW k \in Kinds PROVE providers'.windows[k].tag <= Confirmations + 1
      BY DEF TagsUpTo
    <3>1. /\ providers.windows[k].tag <= Confirmations + 1
          /\ l.report.windows[k].tag \in Int /\ l.report.windows[k].tag <= 2
      BY <1>4, <2>1, ReportFacts DEF TagsUpTo
    <3>2. providers'.windows[k].tag \in
             {0, providers.windows[k].tag, l.report.windows[k].tag}
      BY <1>2, <2>1, <2>2, MergeFacts
    <3> QED
      BY <1>1, <3>1, <3>2
  <2> QED
    BY <1>4, <1>8, <1>9, <2>2, <2>3
<1>24. ASSUME UNCHANGED <<result, providers>>, lines' \subseteq lines PROVE TagInv'
  BY <1>4, <1>8, <1>9, <1>24
<1>25. CASE LogIn \/ CollectTick \/ UsageFailed \/ UNCHANGED claudeVars
  BY <1>24, <1>25 DEF LogIn, CollectTick, UsageFailed, claudeVars, polls
<1>26. ASSUME NEW l \in lines, DropStatusLine(l) PROVE TagInv'
  BY <1>24, <1>26 DEF DropStatusLine, polls
<1> QED
  BY <1>14, <1>15, <1>16, <1>17, <1>18, <1>19, <1>20, <1>21, <1>22, <1>23, <1>25, <1>26
  DEF ClaudeNext, Collect

\* Once a logout has been confirmed and stored, no quota read under that login
\* comes back (LogoutForgets), for every number of confirmations above one (the
\* code asks for two) and when a status line does not live through two polls;
\* MCClaudeTransit.cfg shows that one which does brings the quota back.
THEOREM ClaudeLogoutForgets ==
    ASSUME Paced, Confirmations > 1
    PROVE  ClaudeSpec => []LogoutForgets
<1>1. Confirmations \in Nat
  BY ClaudeStateAssumption DEF ClaudeStateAssumption
<1>2. ClaudeInit => TagInv
  <2> SUFFICES ASSUME ClaudeInit PROVE TagInv
    OBVIOUS
  <2>1. result = NoReport /\ providers = NoReport /\ lines = {}
    BY DEF ClaudeInit
  <2> QED
    BY <1>1, <2>1, FreshFacts DEF TagInv, TagsUpTo
<1>3. ClaudeInv /\ TagInv /\ [ClaudeNext]_claudeVars => TagInv'
  BY TagStep
<1>4. ClaudeInv /\ TagInv => LogoutForgets
  <2> SUFFICES ASSUME ClaudeInv, TagInv, NEW k \in Kinds
               PROVE  providers.windows[k].tag # Gone
    BY DEF LogoutForgets
  <2>1. providers.windows[k].tag \in Int /\ providers.windows[k].tag <= Confirmations + 1
    BY ReportFacts DEF ClaudeInv, ClaudeTypes, TagInv, TagsUpTo
  <2> QED
    BY <1>1, <2>1 DEF Gone
<1> QED
  BY <1>2, <1>3, <1>4, ClaudeInvariant, PTL DEF ClaudeSpec

\* The age of a report is negative at most by the n steps the clock was set back.
Dated(r, n) == -n <= r.age /\ r.age <= MaxAge

DatesInv ==
    /\ failures \in 0..MaxFailures
    /\ Dated(result, failures) /\ Dated(providers, failures)
    /\ \A l \in lines : Dated(l.report, failures)

\* An observation and a step of the clock keep ages in range, a step back at
\* the price of a failure; a merge has the age of one of the two reports.
LEMMA DatedFacts ==
    ASSUME NEW r \in Reports, NEW n \in Nat, Dated(r, n)
    PROVE  /\ Dated(Aged(r), n) /\ Dated(Younger(r), n + 1) /\ Dated(r, n + 1)
           /\ \A tags : Dated(Retag(r, tags), n)
           /\ \A b \in Reports : Dated(b, n) => Dated(MergeProviderReports(r, b), n)
<1>1. r.age \in Int /\ MaxAge \in Int /\ -n <= r.age /\ r.age <= MaxAge
  BY ClaudeStateAssumption DEF ClaudeStateAssumption, Reports, Dated
<1> DEFINE a == IF r.age < MaxAge THEN r.age + 1 ELSE r.age
           y == IF r.age < MaxAge THEN r.age - 1 ELSE r.age
<1>2. /\ -n <= a /\ a <= MaxAge /\ -(n + 1) <= y /\ y <= MaxAge
      /\ -(n + 1) <= r.age
  BY <1>1
<1>3. Aged(r) = [r EXCEPT !.age = a] /\ Younger(r) = [r EXCEPT !.age = y]
  BY DEF Aged, Younger
<1> HIDE DEF a, y
<1>4. Aged(r).age = a /\ Younger(r).age = y
  BY <1>3 DEF Reports
<1>5. \A tags : Retag(r, tags).age = r.age
  BY DEF Retag, Reports
<1>6. ASSUME NEW b \in Reports, Dated(b, n)
      PROVE  Dated(MergeProviderReports(r, b), n)
  <2>1. MergeProviderReports(r, b).age \in {r.age, b.age}
    BY DEF MergeProviderReports, Reports
  <2> QED
    BY <1>1, <1>6, <2>1 DEF Dated
<1> QED
  BY <1>1, <1>2, <1>4, <1>5, <1>6 DEF Dated

\* A new observation has the age zero, no report the greatest.
LEMMA NewDates ==
    ASSUME NEW n \in Nat
    PROVE  /\ Dated(NoReport, n)
           /\ \A auth, windows : Dated(Observed(auth, windows), n)
<1>1. MaxAge \in Nat
  BY ClaudeStateAssumption DEF ClaudeStateAssumption
<1>2. NoReport.age = MaxAge /\ \A auth, windows : Observed(auth, windows).age = 0
  BY DEF NoReport, Observed
<1> QED
  BY <1>1, <1>2 DEF Dated

\* Observations stay in range.
LEMMA DatesStep ==
    ASSUME ClaudeInv, DatesInv, [ClaudeNext]_claudeVars
    PROVE  DatesInv'
<1>1. /\ MaxFailures \in Nat /\ failures \in Nat /\ failures <= MaxFailures
      /\ result \in Reports /\ providers \in Reports
      /\ Dated(result, failures) /\ Dated(providers, failures)
  BY ClaudeStateAssumption DEF ClaudeStateAssumption, DatesInv, ClaudeInv, ClaudeTypes
<1>2. ASSUME NEW l \in lines
      PROVE  /\ LineOk(l) /\ l \in StatusLines /\ l.report \in Reports
             /\ Dated(l.report, failures)
  BY DEF ClaudeInv, LinesInv, LineOk, StatusLines, DatesInv
<1>3. failures' \in {failures, failures + 1} /\ failures' \in 0..MaxFailures
  <2>1. ASSUME NEW wrong, Charge(wrong)
        PROVE  failures' \in {failures, failures + 1} /\ failures' \in 0..MaxFailures
    BY <1>1, <2>1 DEF Charge
  <2>2. CASE LogOut \/ LogIn \/ CollectTick \/ StoreCollectionResult \/ StatusLine
    BY <1>1, <2>2 DEF LogOut, LogIn, CollectTick, StoreCollectionResult, StatusLine
  <2>3. CASE AuthFailed \/ AuthLoggedOut \/ AuthLoggedIn \/ UsageParsed \/ UNCHANGED claudeVars
    BY <1>1, <2>3 DEF AuthFailed, AuthLoggedOut, AuthLoggedIn, UsageParsed, claudeVars
  <2>4. CASE ClockSetBack \/ AgentRestarts \/ StartCollect \/ UsageFailed
    BY <2>1, <2>4 DEF ClockSetBack, AgentRestarts, StartCollect, UsageFailed
  <2>5. ASSUME NEW l \in lines, DropStatusLine(l) \/ ReceiveStatusLine(l) \/ IngestStatusLine(l)
        PROVE  UNCHANGED failures
    BY <2>5 DEF DropStatusLine, ReceiveStatusLine, IngestStatusLine
  <2> QED
    BY <1>1, <2>2, <2>3, <2>4, <2>5 DEF ClaudeNext, Collect
<1>4. ASSUME NEW r \in Reports, Dated(r, failures) PROVE Dated(r, failures')
  BY <1>1, <1>3, <1>4, DatedFacts
<1> DEFINE LinesDated == \A l \in lines : Dated(l.report, failures)
<1>5. ASSUME Dated(result', failures'), Dated(providers', failures'), LinesDated'
      PROVE  DatesInv'
  BY <1>3, <1>5 DEF DatesInv
<1>6. ASSUME lines' \subseteq lines PROVE LinesDated'
  BY <1>2, <1>4, <1>6
<1>7. ASSUME NEW l \in lines, NEW r, Dated(r, failures')
      PROVE  Dated([l EXCEPT !.report = r].report, failures')
  BY <1>2, <1>7 DEF StatusLines
<1>8. Dated(Aged(result), failures) /\ Dated(Aged(providers), failures)
  BY <1>1, DatedFacts
<1>9. ASSUME NEW l \in lines
      PROVE  /\ Dated(Aged(l.report), failures) /\ Dated(Younger(l.report), failures + 1)
             /\ \A tags : Dated(Retag(l.report, tags), failures)
  BY <1>1, <1>2, DatedFacts
<1>10. CASE LogOut
  <2>1. /\ result' = Retag(result, {0}) /\ providers' = Retag(providers, {0})
        /\ lines' = {[l EXCEPT !.report = Retag(@, {0})] : l \in lines}
        /\ failures' = failures
    BY <1>10 DEF LogOut, RetagLines
  <2>2. Dated(result', failures') /\ Dated(providers', failures')
    BY <1>1, <2>1, DatedFacts
  <2>3. LinesDated'
    BY <1>7, <1>9, <2>1
  <2> QED
    BY <1>5, <2>2, <2>3
<1>11. CASE ClockSetBack
  <2>1. /\ failures' = failures + 1
        /\ result' = Younger(result) /\ providers' = Younger(providers)
        /\ lines' = {[l EXCEPT !.report = Younger(@)] : l \in lines}
    BY <1>11 DEF ClockSetBack, Charge
  <2>2. Dated(result', failures') /\ Dated(providers', failures')
    BY <1>1, <2>1, DatedFacts
  <2>3. LinesDated'
    BY <1>7, <1>9, <2>1
  <2> QED
    BY <1>5, <2>2, <2>3
<1>12. CASE AgentRestarts
  <2>1. Dated(NoReport, failures')
    BY <1>1, <1>3, NewDates
  <2> QED
    BY <1>5, <1>12, <2>1 DEF AgentRestarts
<1>13. CASE StartCollect
  <2>1. PICK said :
          /\ providers' = Retag(providers, AnswerTags(said))
          /\ lines' = {[l EXCEPT !.old = TRUE] : l \in RetagLines(AnswerTags(said))}
    BY <1>13 DEF StartCollect, AnswerTags
  <2>2. result' = result
    BY <1>13 DEF StartCollect
  <2>3. providers' \in Reports /\ Dated(providers', failures)
    BY <1>1, <2>1, DatedFacts, RetagFacts, AnswerTagsFacts
  <2>4. ASSUME NEW l \in lines
        PROVE  LET n == [[l EXCEPT !.report = Retag(@, AnswerTags(said))] EXCEPT !.old = TRUE]
               IN  Dated(n.report, failures')
    <3> DEFINE r == Retag(l.report, AnswerTags(said))
               p == [l EXCEPT !.report = r]
               n == [p EXCEPT !.old = TRUE]
    <3>1. r \in Reports /\ Dated(r, failures')
      BY <1>2, <1>4, <1>9, AnswerTagsFacts, RetagFacts
    <3> HIDE DEF r
    <3>2. p \in StatusLines /\ p.report = r
      BY <1>2, <3>1 DEF StatusLines
    <3> HIDE DEF p
    <3>3. n.report = r
      BY <3>2 DEF StatusLines
    <3>4. Dated(n.report, failures')
      BY <3>1, <3>3
    <3> QED
      BY <3>4 DEF p, r
  <2>5. LinesDated'
    BY <2>1, <2>4 DEF RetagLines
  <2> QED
    BY <1>1, <1>4, <1>5, <2>2, <2>3, <2>5
<1>14. CASE AuthFailed \/ AuthLoggedOut \/ AuthLoggedIn \/ UsageParsed
  <2>1. /\ \E auth, windows : result' = Observed(auth, windows)
        /\ providers' = Aged(providers)
        /\ lines' = {[l EXCEPT !.report = Aged(@)] : l \in lines}
        /\ failures' = failures
    BY <1>14
    DEF AuthFailed, AuthLoggedOut, AuthLoggedIn, UsageParsed, Observe, Unavailable
  <2>2. Dated(result', failures')
    BY <1>1, <2>1, NewDates
  <2>3. LinesDated'
    BY <1>7, <1>9, <2>1
  <2> QED
    BY <1>5, <1>8, <2>1, <2>2, <2>3
<1>15. CASE StoreCollectionResult
  <2>1. /\ result' = NoReport /\ failures' = failures
        /\ \/ providers' = Stored /\ UNCHANGED lines
           \/ /\ providers' = Retag(Stored, {Confirmations + 1})
              /\ lines' = {[l EXCEPT !.report = Retag(@, {Confirmations + 1})] : l \in lines}
    BY <1>15 DEF StoreCollectionResult, RetagLines
  <2>2. Stored \in Reports /\ Dated(Stored, failures)
    <3>1. Stored \in {providers, result, MergeProviderReports(providers, result)}
      BY DEF Stored
    <3>2. Stored \in Reports
      BY StoredFacts DEF ClaudeInv
    <3> QED
      BY <1>1, <3>1, <3>2, DatedFacts
  <2>3. Dated(providers', failures')
    BY <1>1, <2>1, <2>2, DatedFacts
  <2>4. LinesDated'
    <3>1. CASE UNCHANGED lines
      BY <1>6, <3>1
    <3>2. CASE lines' = {[l EXCEPT !.report = Retag(@, {Confirmations + 1})] : l \in lines}
      BY <1>7, <1>9, <2>1, <3>2
    <3> QED
      BY <2>1, <3>1, <3>2
  <2>5. Dated(result', failures')
    BY <1>1, <2>1, NewDates
  <2> QED
    BY <1>5, <2>3, <2>4, <2>5
<1>16. CASE StatusLine
  <2>1. UNCHANGED <<failures, result, providers>> /\ \A l \in lines' : l.report.age = MaxAge
    BY <1>16 DEF StatusLine, polls
  <2>2. LinesDated'
    BY <1>1, <2>1, ClaudeStateAssumption DEF Dated, ClaudeStateAssumption
  <2> QED
    BY <1>1, <1>4, <1>5, <2>1, <2>2
<1>17. ASSUME NEW l \in lines, ReceiveStatusLine(l) PROVE DatesInv'
  <2> DEFINE n == [l EXCEPT !.stamped = TRUE, !.report.age = 0]
  <2>1. /\ result' = Aged(result) /\ providers' = Aged(providers) /\ failures' = failures
        /\ lines' = {n} \cup {[m EXCEPT !.report = Aged(@)] : m \in lines \ {l}}
    BY <1>17 DEF ReceiveStatusLine
  <2>2. n.report.age = 0
    <3>1. l \in StatusLines /\ l.report \in Reports
      BY <1>2
    <3> QED
      BY <3>1 DEF StatusLines, Reports
  <2> HIDE DEF n
  <2>3. Dated(n.report, failures')
    BY <1>1, <2>1, <2>2, ClaudeStateAssumption DEF Dated, ClaudeStateAssumption
  <2>4. LinesDated'
    BY <1>7, <1>9, <2>1, <2>3
  <2> QED
    BY <1>5, <1>8, <2>1, <2>4
<1>18. ASSUME NEW l \in lines, IngestStatusLine(l) PROVE DatesInv'
  <2>1. /\ providers' = l.report \/ providers' = MergeProviderReports(providers, l.report)
        /\ UNCHANGED <<failures, result>> /\ lines' \subseteq lines
    BY <1>18 DEF IngestStatusLine, polls
  <2>2. Dated(providers', failures')
    BY <1>1, <1>2, <2>1, DatedFacts
  <2> QED
    BY <1>1, <1>5, <1>6, <2>1, <2>2
<1>19. ASSUME UNCHANGED <<result, providers>>, lines' \subseteq lines PROVE DatesInv'
  BY <1>1, <1>4, <1>5, <1>6, <1>19
<1>20. CASE LogIn \/ CollectTick \/ UsageFailed \/ UNCHANGED claudeVars
  BY <1>19, <1>20 DEF LogIn, CollectTick, UsageFailed, claudeVars, polls
<1>21. ASSUME NEW l \in lines, DropStatusLine(l) PROVE DatesInv'
  BY <1>19, <1>21 DEF DropStatusLine, polls
<1> QED
  BY <1>10, <1>11, <1>12, <1>13, <1>14, <1>15, <1>16, <1>17, <1>18, <1>20, <1>21
  DEF ClaudeNext, Collect

\* The variables that are only ever assigned members of small sets.
Flags ==
    /\ account \in {"in", "out"} /\ requests \in 0..1
    /\ answer \in {"in", "out", "garbled", "failed"} /\ err \in BOOLEAN

\* They stay so.
LEMMA FlagsStep == Flags /\ [ClaudeNext]_claudeVars => Flags'
<1> SUFFICES ASSUME Flags, [ClaudeNext]_claudeVars PROVE Flags'
  OBVIOUS
<1>1. CASE LogOut \/ LogIn \/ ClockSetBack \/ CollectTick
  <2>1. account' \in {account, "in", "out"} /\ requests' \in {requests, 1} /\ UNCHANGED answer
    BY <1>1, Zenon DEF LogOut, LogIn, ClockSetBack, CollectTick, polls
  <2>2. UNCHANGED err
    BY <1>1, Zenon DEF LogOut, LogIn, ClockSetBack, CollectTick, polls
  <2> QED
    BY <2>1, <2>2 DEF Flags
<1>2. CASE AgentRestarts \/ StoreCollectionResult
  <2>1. UNCHANGED account /\ requests' \in {requests, 1} /\ answer' = "garbled"
    BY <1>2, Zenon DEF AgentRestarts, StoreCollectionResult
  <2>2. err' = FALSE
    BY <1>2, Zenon DEF AgentRestarts, StoreCollectionResult
  <2>3. requests' \in 0..1
    BY <2>1 DEF Flags
  <2> QED
    BY <2>1, <2>2, <2>3, Zenon DEF Flags
<1>3. CASE StartCollect \/ StatusLine \/ UNCHANGED claudeVars
  <2>1. /\ UNCHANGED <<account, err>> /\ requests' \in {requests, 0}
        /\ answer' \in {"in", "out", "garbled", "failed"}
    BY <1>3 DEF Flags, StartCollect, StatusLine, claudeVars, polls
  <2> QED
    BY <2>1 DEF Flags
<1>4. CASE Collect
  BY <1>4
  DEF Flags, Collect, AuthFailed, AuthLoggedOut, AuthLoggedIn, UsageParsed, UsageFailed
<1>5. ASSUME NEW l \in lines, DropStatusLine(l) \/ ReceiveStatusLine(l) \/ IngestStatusLine(l)
      PROVE  Flags'
  BY <1>5 DEF Flags, DropStatusLine, ReceiveStatusLine, IngestStatusLine, polls
<1> QED
  BY <1>1, <1>2, <1>3, <1>4, <1>5 DEF ClaudeNext

\* Every variable keeps its type: ages stay in range however the clock is set
\* back, and a reset carried over stays within the horizon.
THEOREM ClaudeTypeCorrect == ClaudeSpec => []ClaudeTypeOK
<1>1. Confirmations \in Nat \ {0} /\ MaxFailures \in Nat /\ MaxAge \in Nat
  BY ClaudeStateAssumption DEF ClaudeStateAssumption
<1>2. ClaudeInit => DatesInv /\ Flags
  <2> SUFFICES ASSUME ClaudeInit PROVE DatesInv /\ Flags
    OBVIOUS
  <2>1. Flags
    <3>1. /\ account \in {"in", "out"} /\ requests \in 0..1
          /\ answer \in {"in", "out", "garbled", "failed"}
      BY DEF ClaudeInit
    <3>2. err = FALSE
      BY DEF ClaudeInit
    <3> QED
      BY <3>1, <3>2 DEF Flags
  <2>2. failures = 0 /\ result = NoReport /\ providers = NoReport /\ lines = {}
    BY DEF ClaudeInit
  <2>3. Dated(NoReport, 0)
    BY NewDates
  <2> QED
    BY <1>1, <2>1, <2>2, <2>3 DEF DatesInv
<1>3. ClaudeInv /\ DatesInv /\ [ClaudeNext]_claudeVars => DatesInv'
  BY DatesStep
<1>4. ClaudeInv /\ DatesInv /\ Flags => ClaudeTypeOK
  <2> SUFFICES ASSUME ClaudeInv, DatesInv, Flags PROVE ClaudeTypeOK
    OBVIOUS
  <2>1. ASSUME NEW r \in Reports, Dated(r, failures) PROVE r \in Report
    <3>1. r.age \in (-MaxFailures)..MaxAge
      BY <1>1, <2>1 DEF Reports, Dated, DatesInv
    <3> QED
      BY <3>1 DEF Reports, Report
  <2>2. result \in Report /\ providers \in Report
    BY <2>1 DEF ClaudeInv, ClaudeTypes, DatesInv
  <2>3. \A l \in lines : l.report \in Report
    BY <2>1 DEF ClaudeInv, LinesInv, LineOk, StatusLines, DatesInv
  <2>4. reading \in Tags
    BY WindowFacts DEF ClaudeInv, ClaudeTypes
  <2> QED
    BY <2>2, <2>3, <2>4 DEF ClaudeTypeOK, ClaudeInv, ClaudeTypes, Flags, DatesInv
<1> QED
  BY <1>2, <1>3, <1>4, FlagsStep, ClaudeInvariant, PTL DEF ClaudeSpec
=============================================================================
