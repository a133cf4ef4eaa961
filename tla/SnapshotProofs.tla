--------------------------- MODULE SnapshotProofs ---------------------------
(***************************************************************************)
(* Theorems about the display's snapshot and its copy in flash, for any    *)
(* endpoints, any number of staged changes, commits and power losses, and  *)
(* every interleaving of the main loop with the network worker.            *)
(***************************************************************************)
EXTENDS SnapshotCache, TLAPS

\* The main loop: config is an endpoint in use, a device that is off has no
\* worker, and only sleep_soft_off writes from the main loop.
LoopInv ==
    /\ pc # "off" => config \in used
    /\ pc = "off" => worker = "idle" /\ writer = "none"
    /\ writer = "main" => pc = "sleep"
    /\ pc \in {"install", "clear"} => generation < MaxGeneration

\* The worker: a fetch of the current generation asked an endpoint in use,
\* and nobody has moved the replay bound since it started.  A later
\* generation is always a larger one.
FetchInv ==
    /\ request.gen <= generation
    /\ worker = "fetching" /\ request.gen = generation /\ ~resetting =>
          request.server \in used /\ request.replay = accepted

IInv == TypeOK /\ LoopInv /\ FetchInv /\ ShownFromUsedServer /\ CachedFromUsedServer

-----------------------------------------------------------------------------
(* Types.                                                                  *)

\* Snapshots, and what a worker copies.
LEMMA RecordFacts ==
    /\ NoSnapshot \in Snapshot /\ NoSnapshot.server = NoServer /\ NoSnapshot.epoch = 0
    /\ \A s \in Snapshot : s.server \in Endpoints /\ s.epoch \in 0..MaxEpoch
    /\ NoRequest \in [server : Endpoints, replay : 0..MaxEpoch, gen : 0..MaxGeneration]
    /\ NoRequest.gen = 0
BY SnapshotAssumption DEF NoSnapshot, Snapshot, NoRequest, Endpoints, Epochs

\* The type invariant, a variable at a time.
Types ==
    /\ stored \in Endpoints /\ cache \in Snapshot /\ lastEpoch \in 0..MaxEpoch
    /\ pc \in {"off", "run", "install", "clear", "remove_cache", "remove_epoch",
               "erase_slots", "restart", "sleep"}
    /\ config \in Endpoints /\ committed \in Endpoints /\ candidate \in Endpoints
    /\ snapshot \in Snapshot /\ accepted \in 0..MaxEpoch /\ persisted \in 0..MaxEpoch
    /\ generation \in 1..MaxGeneration
    /\ worker \in {"idle", "queued", "fetching", "persist", "done"}
    /\ request \in [server : Endpoints, replay : 0..MaxEpoch, gen : 0..MaxGeneration]
    /\ writer \in {"none", "main", "worker"} /\ put \in {"cache", "epoch"}
    /\ used \subseteq Endpoints

Flags ==
    /\ changed \in BOOLEAN /\ dirty \in BOOLEAN /\ inFlight \in BOOLEAN
    /\ cached \in BOOLEAN /\ resetting \in BOOLEAN

\* The type invariant, the Boolean variables apart.
LEMMA TypeParts == TypeOK <=> Types /\ Flags
BY DEF TypeOK, Types, Flags

\* The Boolean variables.
LEMMA FlagsStep ==
    ASSUME Flags, [Next]_vars
    PROVE  Flags'
<1> USE DEF Flags, vars, flash, configVars, snapshotVars, workerVars, putVars, bounds
<1>1. CASE Boot
  BY <1>1, Zenon DEF Boot
<1>2. ASSUME NEW s \in Servers, Stage(s) \/ Commit(s) PROVE Flags'
  BY <1>2, Zenon DEF Stage, Commit
<1>3. CASE Install \/ ClearCache \/ RemoveCache \/ RemoveEpoch \/ QueueFetch \/ TakeResult
  BY <1>3, Zenon DEF Install, ClearCache, RemoveCache, RemoveEpoch, QueueFetch, TakeResult
<1>4. CASE FactoryReset \/ EraseSlots \/ SoftOff \/ StartFetch \/ FetchFails
  BY <1>4, Zenon DEF FactoryReset, EraseSlots, SoftOff, StartFetch, FetchFails
<1>5. CASE BeginPersist \/ PutCache \/ PutEpoch \/ PowerOff
  BY <1>5, Zenon DEF BeginPersist, PutCache, PutEpoch, PowerOff
<1>6. ASSUME NEW epoch \in Epochs, Answer(epoch) PROVE Flags'
  BY <1>6, Zenon DEF Answer
<1>7. CASE UNCHANGED vars
  BY <1>7, Zenon
<1> QED
  BY <1>1, <1>2, <1>3, <1>4, <1>5, <1>6, <1>7, Zenon DEF Next

\* The others.
LEMMA TypesStep ==
    ASSUME Types, LoopInv, [Next]_vars
    PROVE  Types'
<1> USE SnapshotAssumption
<1> USE DEF Types, vars, flash, configVars, snapshotVars, workerVars, putVars, bounds
<1>1. CASE Boot
  <2>1. /\ stored \in Endpoints /\ cache.server \in Endpoints
        /\ Larger(lastEpoch, cache.epoch) \in 0..MaxEpoch
    BY RecordFacts DEF Larger
  <2> QED
    BY <1>1, <2>1 DEF Boot
<1>2. ASSUME NEW s \in Servers, Stage(s) \/ Commit(s) PROVE Types'
  BY <1>2 DEF Stage, Commit, Endpoints
<1>3. CASE Install
  BY <1>3 DEF Install
<1>4. CASE ClearCache
  <2>1. generation + 1 \in 1..MaxGeneration
    BY <1>4 DEF ClearCache, LoopInv
  <2> QED
    BY <1>4, <2>1, RecordFacts DEF ClearCache
<1>5. CASE RemoveCache \/ RemoveEpoch \/ QueueFetch
  BY <1>5, RecordFacts DEF RemoveCache, RemoveEpoch, QueueFetch
<1>6. CASE TakeResult
  BY <1>6, RecordFacts DEF TakeResult
<1>7. CASE FactoryReset
  <2>1. generation + 1 \in 1..MaxGeneration
    BY <1>7 DEF FactoryReset
  <2> QED
    BY <1>7, <2>1, RecordFacts DEF FactoryReset, Endpoints
<1>8. CASE EraseSlots \/ SoftOff \/ FetchFails
  BY <1>8 DEF EraseSlots, SoftOff, FetchFails, Endpoints
<1>9. CASE StartFetch
  BY <1>9 DEF StartFetch
<1>10. ASSUME NEW epoch \in Epochs, Answer(epoch) PROVE Types'
  <2>1. CASE Superseded
    BY <1>10, <2>1 DEF Answer
  <2>2. CASE ~Superseded
    <3>1. [server |-> request.server, epoch |-> epoch] \in Snapshot /\ epoch \in 0..MaxEpoch
      BY <1>10 DEF Answer, Snapshot, Endpoints, Epochs
    <3> QED
      BY <1>10, <2>2, <3>1 DEF Answer
  <2> QED
    BY <2>1, <2>2
<1>11. CASE BeginPersist
  BY <1>11 DEF BeginPersist
<1>12. CASE PutCache
  BY <1>12 DEF PutCache
<1>13. CASE PutEpoch
  BY <1>13 DEF PutEpoch, PersistReturns
<1>14. CASE PowerOff
  BY <1>14, RecordFacts DEF PowerOff, Endpoints
<1>15. CASE UNCHANGED vars
  BY <1>15
<1> QED
  BY <1>1, <1>2, <1>3, <1>4, <1>5, <1>6, <1>7, <1>8, <1>9, <1>10, <1>11, <1>12, <1>13,
     <1>14, <1>15 DEF Next

-----------------------------------------------------------------------------
(* The main loop and the worker.                                           *)

\* The main loop's part of the invariant, through every step of loop and worker.
LEMMA LoopStep ==
    ASSUME Types, LoopInv, [Next]_vars
    PROVE  LoopInv'
<1> USE DEF LoopInv, vars, flash, configVars, snapshotVars, workerVars, putVars, bounds
<1>1. CASE Boot
  BY <1>1 DEF Boot
<1>2. ASSUME NEW s \in Servers, Stage(s) \/ Commit(s) PROVE LoopInv'
  BY <1>2 DEF Stage, Commit, LockFree
<1>3. CASE Install \/ ClearCache \/ RemoveCache \/ RemoveEpoch
  BY <1>3 DEF Install, ClearCache, RemoveCache, RemoveEpoch, LockFree
<1>4. CASE QueueFetch \/ TakeResult \/ FactoryReset \/ EraseSlots \/ SoftOff
  BY <1>4 DEF QueueFetch, TakeResult, FactoryReset, EraseSlots, SoftOff, LockFree
<1>5. CASE StartFetch \/ FetchFails \/ BeginPersist
  BY <1>5 DEF StartFetch, FetchFails, BeginPersist
<1>6. ASSUME NEW epoch \in Epochs, Answer(epoch) PROVE LoopInv'
  BY <1>6 DEF Answer
<1>7. CASE PutCache \/ PutEpoch
  BY <1>7 DEF PutCache, PutEpoch, PersistReturns
<1>8. CASE PowerOff
  BY <1>8 DEF PowerOff
<1>9. CASE UNCHANGED vars
  BY <1>9
<1> QED
  BY <1>1, <1>2, <1>3, <1>4, <1>5, <1>6, <1>7, <1>8, <1>9 DEF Next

\* Whatever supersedes a fetch also gives the cache a larger generation.
LEMMA FetchStep ==
    ASSUME Types, LoopInv, FetchInv, [Next]_vars
    PROVE  FetchInv'
<1> USE DEF vars, flash, configVars, snapshotVars, workerVars, putVars, bounds
<1>0. generation \in Nat /\ request.gen \in Nat /\ request.gen <= generation
      /\ request \in [server : Endpoints, replay : 0..MaxEpoch, gen : 0..MaxGeneration]
  BY SnapshotAssumption DEF Types, FetchInv
<1>1. CASE Boot
  <2>1. worker' # "fetching" /\ request' = request /\ generation' = generation
    BY <1>1 DEF Boot, LoopInv
  <2> QED
    BY <2>1 DEF FetchInv
<1>2. ASSUME NEW s \in Servers, Stage(s) \/ Commit(s) PROVE FetchInv'
  BY <1>2 DEF Stage, Commit, FetchInv
<1>3. CASE Install \/ RemoveCache \/ RemoveEpoch
  BY <1>3 DEF Install, RemoveCache, RemoveEpoch, FetchInv
<1>4. CASE ClearCache \/ FactoryReset
  <2>1. generation' = generation + 1 /\ request' = request
    BY <1>4 DEF ClearCache, FactoryReset
  <2>2. request'.gen <= generation' /\ request'.gen # generation'
    BY <1>0, <2>1
  <2> QED
    BY <2>2 DEF FetchInv
<1>5. CASE QueueFetch \/ FetchFails \/ BeginPersist
  <2>1. /\ worker' # "fetching" \/ worker' = worker
        /\ request' = request /\ generation' = generation /\ resetting' = resetting
        /\ accepted' = accepted /\ used' = used
    BY <1>5 DEF QueueFetch, FetchFails, BeginPersist
  <2> QED
    BY <2>1 DEF FetchInv
<1>6. CASE TakeResult
  <2>1. worker' = "idle" /\ request'.gen = 0 /\ generation' = generation
    BY <1>6, RecordFacts DEF TakeResult
  <2> QED
    BY <1>0, <2>1 DEF FetchInv
<1>7. CASE EraseSlots \/ SoftOff
  BY <1>7 DEF EraseSlots, SoftOff, FetchInv
<1>8. CASE StartFetch
  <2>1. CASE resetting
    BY <1>8, <2>1 DEF StartFetch, FetchInv
  <2>2. CASE ~resetting
    <3>1. /\ request'.server = config /\ request'.replay = accepted
          /\ request'.gen = generation /\ generation' = generation
          /\ used' = used /\ accepted' = accepted
      BY <1>8, <2>2 DEF StartFetch
    <3>2. config \in used
      BY <1>8 DEF StartFetch, LoopInv
    <3> QED
      BY <1>0, <3>1, <3>2 DEF FetchInv
  <2> QED
    BY <2>1, <2>2
<1>9. ASSUME NEW epoch \in Epochs, Answer(epoch) PROVE FetchInv'
  <2>1. worker' # "fetching" /\ request' = request /\ generation' = generation
    BY <1>9 DEF Answer
  <2> QED
    BY <2>1 DEF FetchInv
<1>10. CASE PutCache \/ PutEpoch
  <2>1. /\ worker' # "fetching" \/ worker' = worker
        /\ request' = request /\ generation' = generation /\ resetting' = resetting
        /\ accepted' = accepted /\ used' = used
    BY <1>10 DEF PutCache, PutEpoch, PersistReturns
  <2> QED
    BY <2>1 DEF FetchInv
<1>11. CASE PowerOff
  <2>1. worker' = "idle" /\ request'.gen = 0 /\ generation' = 1
    BY <1>11, RecordFacts DEF PowerOff
  <2> QED
    BY <2>1 DEF FetchInv
<1>12. CASE UNCHANGED vars
  BY <1>12 DEF FetchInv
<1> QED
  BY <1>1, <1>2, <1>3, <1>4, <1>5, <1>6, <1>7, <1>8, <1>9, <1>10, <1>11, <1>12 DEF Next

\* The screen shows nothing from an endpoint that was given up.
LEMMA ShownStep ==
    ASSUME Types, LoopInv, FetchInv, ShownFromUsedServer, [Next]_vars
    PROVE  ShownFromUsedServer'
<1> USE DEF ShownFromUsedServer, vars, flash, configVars, snapshotVars, workerVars,
            putVars, bounds
<1>1. CASE Boot
  BY <1>1 DEF Boot
<1>2. ASSUME NEW s \in Servers, Stage(s) \/ Commit(s) PROVE ShownFromUsedServer'
  BY <1>2 DEF Stage, Commit
<1>3. CASE Install \/ RemoveCache \/ RemoveEpoch \/ QueueFetch \/ TakeResult \/ EraseSlots
           \/ SoftOff \/ StartFetch \/ FetchFails \/ BeginPersist \/ PutCache \/ PutEpoch
  BY <1>3 DEF Install, RemoveCache, RemoveEpoch, QueueFetch, TakeResult, EraseSlots,
     SoftOff, StartFetch, FetchFails, BeginPersist, PutCache, PutEpoch
<1>4. CASE ClearCache \/ FactoryReset \/ PowerOff
  BY <1>4 DEF ClearCache, FactoryReset, PowerOff
<1>5. ASSUME NEW epoch \in Epochs, Answer(epoch) PROVE ShownFromUsedServer'
  <2>1. CASE Superseded
    BY <1>5, <2>1 DEF Answer
  <2>2. CASE ~Superseded
    <3>1. request.server \in used
      BY <1>5, <2>2 DEF Answer, Superseded, FetchInv
    <3> QED
      BY <1>5, <2>2, <3>1 DEF Answer
  <2> QED
    BY <2>1, <2>2
<1>6. CASE UNCHANGED vars
  BY <1>6
<1> QED
  BY <1>1, <1>2, <1>3, <1>4, <1>5, <1>6 DEF Next

\* Neither does the copy in flash.
LEMMA CachedStep ==
    ASSUME Types, LoopInv, ShownFromUsedServer, CachedFromUsedServer, [Next]_vars
    PROVE  CachedFromUsedServer'
<1> USE DEF CachedFromUsedServer, vars, flash, configVars, snapshotVars, workerVars,
            putVars, bounds
<1>1. CASE Boot
  BY <1>1 DEF Boot
<1>2. ASSUME NEW s \in Servers, Stage(s) \/ Commit(s) PROVE CachedFromUsedServer'
  BY <1>2 DEF Stage, Commit
<1>3. CASE Install \/ RemoveEpoch \/ QueueFetch \/ TakeResult \/ EraseSlots
           \/ SoftOff \/ StartFetch \/ FetchFails \/ BeginPersist
  BY <1>3 DEF Install, RemoveEpoch, QueueFetch, TakeResult, EraseSlots,
     SoftOff, StartFetch, FetchFails, BeginPersist
<1>4. CASE ClearCache \/ RemoveCache \/ FactoryReset \/ PowerOff
  BY <1>4 DEF ClearCache, RemoveCache, FactoryReset, PowerOff
<1>5. CASE PutCache
  BY <1>5 DEF PutCache, ShownFromUsedServer
<1>6. CASE PutEpoch
  <2>1. writer = "main" => pc = "sleep"
    BY DEF LoopInv
  <2> QED
    BY <1>6, <2>1 DEF PutEpoch, PersistReturns
<1>7. ASSUME NEW epoch \in Epochs, Answer(epoch) PROVE CachedFromUsedServer'
  BY <1>7 DEF Answer
<1>8. CASE UNCHANGED vars
  BY <1>8
<1> QED
  BY <1>1, <1>2, <1>3, <1>4, <1>5, <1>6, <1>7, <1>8 DEF Next

-----------------------------------------------------------------------------
(* The theorems.                                                           *)

\* A device that has never been switched on satisfies the invariant.
LEMMA InitIInv == Init => IInv
<1> SUFFICES ASSUME Init PROVE IInv
  OBVIOUS
<1>1. Types
  BY SnapshotAssumption, RecordFacts DEF Init, Types, Endpoints
<1>2. Flags
  BY Zenon DEF Init, Flags
<1>3. LoopInv /\ FetchInv /\ ShownFromUsedServer /\ CachedFromUsedServer
  BY RecordFacts DEF Init, LoopInv, FetchInv, ShownFromUsedServer, CachedFromUsedServer
<1> QED
  BY <1>1, <1>2, <1>3, TypeParts DEF IInv

\* Every step of the main loop, of the worker and of the power preserves it.
LEMMA NextIInv == IInv /\ [Next]_vars => IInv'
<1> SUFFICES ASSUME IInv, [Next]_vars PROVE IInv'
  OBVIOUS
<1>1. Types /\ Flags
  BY TypeParts DEF IInv
<1>2. Types' /\ Flags' /\ LoopInv' /\ FetchInv'
  BY <1>1, TypesStep, FlagsStep, LoopStep, FetchStep DEF IInv
<1>3. ShownFromUsedServer' /\ CachedFromUsedServer'
  BY <1>1, ShownStep, CachedStep DEF IInv
<1>4. TypeOK'
  BY <1>2 DEF TypeOK, Types, Flags
<1> QED
  BY <1>2, <1>3, <1>4 DEF IInv

\* The shape of the state, where the main loop is, and what a fetch of the
\* current generation knows.
THEOREM SnapshotInvariant == Spec => []IInv
BY InitIInv, NextIInv, PTL DEF Spec

\* Every variable always has the shape of the value it stands for.
THEOREM SnapshotTypeCorrect == Spec => []TypeOK
<1>1. IInv => TypeOK
  BY DEF IInv
<1> QED
  BY <1>1, SnapshotInvariant, PTL

\* A late answer from an endpoint that was given up is never shown (the
\* generation check of fetch_snapshot).
THEOREM SnapshotShownFromUsedServer == Spec => []ShownFromUsedServer
<1>1. IInv => ShownFromUsedServer
  BY DEF IInv
<1> QED
  BY <1>1, SnapshotInvariant, PTL

\* Nor is it written to flash behind clear_snapshot_cache.
THEOREM SnapshotCachedFromUsedServer == Spec => []CachedFromUsedServer
<1>1. IInv => CachedFromUsedServer
  BY DEF IInv
<1> QED
  BY <1>1, SnapshotInvariant, PTL

\* The replay bound of a generation never moves backwards, although the
\* worker checks an answer against the bound it copied before the exchange.
THEOREM SnapshotAcceptedMonotone == Spec => AcceptedMonotone
<1> DEFINE Monotone ==
       pc # "off" /\ pc' # "off" /\ generation' = generation => accepted' >= accepted
<1>1. IInv /\ [Next]_vars => [Monotone]_vars
  <2> SUFFICES ASSUME IInv, Next, pc # "off", pc' # "off", generation' = generation
               PROVE  accepted' >= accepted
    BY DEF vars
  <2> USE DEF flash, configVars, snapshotVars, workerVars, putVars, bounds
  <2>1. /\ accepted \in Nat /\ generation \in Nat /\ request.replay \in Nat
        /\ FetchInv
    BY SnapshotAssumption, TypeParts DEF IInv, Types
  <2>2. ASSUME accepted' = accepted PROVE accepted' >= accepted
    BY <2>1, <2>2
  <2>3. ASSUME NEW s \in Servers, Stage(s) \/ Commit(s) PROVE accepted' = accepted
    BY <2>3 DEF Stage, Commit
  <2>4. CASE Install \/ RemoveCache \/ RemoveEpoch \/ QueueFetch \/ TakeResult \/ EraseSlots
             \/ SoftOff \/ StartFetch \/ FetchFails \/ BeginPersist \/ PutCache \/ PutEpoch
    <3>1. accepted' = accepted
      BY <2>4 DEF Install, RemoveCache, RemoveEpoch, QueueFetch, TakeResult, EraseSlots,
         SoftOff, StartFetch, FetchFails, BeginPersist, PutCache, PutEpoch
    <3> QED
      BY <2>2, <3>1
  <2>5. CASE ClearCache \/ FactoryReset
    <3>1. generation' = generation + 1
      BY <2>5 DEF ClearCache, FactoryReset
    <3> QED
      BY <2>1, <3>1
  <2>6. ASSUME NEW epoch \in Epochs, Answer(epoch) PROVE accepted' >= accepted
    <3>1. CASE Superseded
      BY <2>2, <2>6, <3>1 DEF Answer
    <3>2. CASE ~Superseded
      <4>1. request.replay = accepted /\ accepted' = epoch /\ Fresh(epoch)
        BY <2>1, <2>6, <3>2 DEF Answer, Superseded, FetchInv
      <4>2. epoch \in Nat
        BY SnapshotAssumption DEF Epochs
      <4> QED
        BY <2>1, <4>1, <4>2 DEF Fresh
    <3> QED
      BY <3>1, <3>2
  <2>7. CASE Boot \/ PowerOff
    BY <2>7 DEF Boot, PowerOff
  <2> QED
    BY <2>2, <2>3, <2>4, <2>5, <2>6, <2>7 DEF Next
<1> QED
  BY <1>1, SnapshotInvariant, PTL DEF Spec, AcceptedMonotone

-----------------------------------------------------------------------------
(* The copy in flash and the endpoint in flash.  CachedFromStoredServer     *)
(* fails after a change that was staged and never saved, and after a power *)
(* loss between saving an endpoint and clearing the cache.  Nothing else   *)
(* breaks it: the worker and the commits do not, however they interleave.  *)

\* Nothing was staged and the power has been on since the first start.
Quiet == stages = 0 /\ losses = 0

From(s, server) == s # NoSnapshot => s.server = server

\* Memory, flash and a fetch under way are all about the same endpoint.
Agree ==
    /\ config = stored /\ committed = stored
    /\ From(snapshot, stored) /\ From(cache, stored)
    /\ worker = "fetching" /\ request.gen = generation /\ ~resetting =>
          request.server = stored

\* No fetch is under way while the endpoint changes.
Still == worker \in {"idle", "done"} /\ writer = "none"

QuietInv ==
    /\ pc = "off" => cache = NoSnapshot
    /\ pc \in {"run", "sleep"} => Agree
    /\ pc = "install" =>
          /\ candidate = stored /\ committed = stored
          /\ IF changed THEN Still ELSE Agree
    /\ pc \in {"clear", "remove_cache", "remove_epoch"} =>
          Still /\ config = stored /\ committed = stored
    /\ pc \in {"remove_cache", "remove_epoch"} => snapshot = NoSnapshot
    /\ pc = "remove_epoch" => cache = NoSnapshot
    /\ writer = "worker" => worker = "persist"
    /\ ~inFlight => worker = "idle"

StoredInv == stages \in Nat /\ losses \in Nat /\ (Quiet => QuietInv)

\* Without staged changes and power losses, every step keeps cache and stored
\* endpoint together.
LEMMA StoredStep ==
    ASSUME IInv, StoredInv, [Next]_vars
    PROVE  StoredInv'
<1> USE DEF vars, flash, configVars, snapshotVars, workerVars, putVars, bounds
<1>1. stages' \in Nat /\ losses' \in Nat /\ (Quiet' => Quiet)
  <2>1. stages' \in {stages, stages + 1} /\ losses' \in {losses, losses + 1}
    <3>1. ASSUME NEW s \in Servers, Stage(s) \/ Commit(s)
          PROVE  stages' \in {stages, stages + 1} /\ losses' = losses
      BY <3>1 DEF Stage, Commit
    <3>2. ASSUME NEW epoch \in Epochs, Answer(epoch)
          PROVE  stages' = stages /\ losses' = losses
      BY <3>2 DEF Answer
    <3>3. CASE \/ Boot \/ Install \/ ClearCache \/ RemoveCache \/ RemoveEpoch \/ QueueFetch
               \/ TakeResult \/ FactoryReset \/ EraseSlots \/ SoftOff \/ StartFetch
               \/ FetchFails \/ BeginPersist \/ PutCache \/ PutEpoch
      BY <3>3 DEF Boot, Install, ClearCache, RemoveCache, RemoveEpoch, QueueFetch,
         TakeResult, FactoryReset, EraseSlots, SoftOff, StartFetch, FetchFails,
         BeginPersist, PutCache, PutEpoch
    <3>4. CASE PowerOff
      BY <3>4 DEF PowerOff
    <3>5. CASE UNCHANGED vars
      BY <3>5
    <3> QED
      BY <3>1, <3>2, <3>3, <3>4, <3>5 DEF Next
  <2> QED
    BY <2>1 DEF StoredInv, Quiet
<1> SUFFICES ASSUME Quiet, Quiet' PROVE QuietInv'
  BY <1>1 DEF StoredInv
<1>2. Types /\ LoopInv /\ QuietInv /\ FetchInv
  BY TypeParts DEF IInv, StoredInv
<1> USE DEF QuietInv, Agree, Still, From
<1>3. CASE Boot
  BY <1>2, <1>3 DEF Boot, LoopInv
<1>4. ASSUME NEW s \in Servers, Stage(s) PROVE FALSE
  BY <1>4 DEF Stage, Quiet
<1>5. ASSUME NEW s \in Servers, Commit(s) PROVE QuietInv'
  BY <1>2, <1>5 DEF Commit, LockFree
<1>6. CASE Install
  BY <1>2, <1>6 DEF Install
<1>7. CASE ClearCache \/ RemoveCache \/ RemoveEpoch
  BY <1>2, <1>7 DEF ClearCache, RemoveCache, RemoveEpoch
<1>8. CASE QueueFetch
  BY <1>2, <1>8 DEF QueueFetch
<1>9. CASE TakeResult \/ FactoryReset \/ EraseSlots
  BY <1>2, <1>9 DEF TakeResult, FactoryReset, EraseSlots, LockFree
<1>10. CASE SoftOff
  BY <1>2, <1>10 DEF SoftOff
<1>11. CASE StartFetch
  BY <1>2, <1>11 DEF StartFetch, LockFree
<1>12. CASE FetchFails
  BY <1>2, <1>12 DEF FetchFails
<1>13. ASSUME NEW epoch \in Epochs, Answer(epoch) PROVE QuietInv'
  BY <1>2, <1>13 DEF Answer, Superseded, LockFree
<1>14. CASE BeginPersist
  BY <1>2, <1>14 DEF BeginPersist, LockFree
<1>15. CASE PutCache
  BY <1>2, <1>15 DEF PutCache, LoopInv
<1>16. CASE PutEpoch
  BY <1>2, <1>16 DEF PutEpoch, PersistReturns, LoopInv, Types
<1>17. CASE PowerOff
  BY <1>1, <1>17 DEF PowerOff, Quiet
<1>18. CASE UNCHANGED vars
  BY <1>2, <1>18
<1> QED
  BY <1>3, <1>4, <1>5, <1>6, <1>7, <1>8, <1>9, <1>10, <1>11, <1>12, <1>13, <1>14, <1>15,
     <1>16, <1>17, <1>18 DEF Next

\* Until the first staged change or power loss, what flash caches came from
\* the endpoint that flash holds, whatever the portal commits while the
\* worker fetches and persists.
THEOREM SnapshotCachedFromStoredServer ==
    Spec => [](stages = 0 /\ losses = 0 => CachedFromStoredServer)
<1>1. Init => StoredInv
  BY DEF Init, StoredInv, QuietInv, Agree, Still, From
<1>2. IInv /\ StoredInv /\ [Next]_vars => StoredInv'
  BY StoredStep
<1>3. StoredInv => (stages = 0 /\ losses = 0 => CachedFromStoredServer)
  BY DEF StoredInv, Quiet, QuietInv, Agree, From, CachedFromStoredServer
<1> QED
  BY <1>1, <1>2, <1>3, SnapshotInvariant, PTL DEF Spec
=============================================================================
