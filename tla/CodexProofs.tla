---------------------------- MODULE CodexProofs ----------------------------
(***************************************************************************)
(* Theorems about the Codex collector, for any number of children and      *)
(* collections and every interleaving of the collection goroutine, the     *)
(* readers, the once-guarded body of stopProcess and the children.         *)
(***************************************************************************)
EXTENDS CodexCollector, TLAPS

\* The goroutine has a process to talk to or to stop whenever it does so.
TargetInv ==
    /\ phase \in {"write", "wait", "stop", "reset_wait", "release_wait"} => target \in Procs
    /\ phase = "stop" => after \in {"reset", "reset_wait", "release_wait", "closed"}

\* Nobody knows a process that was not started yet.
StartedInv ==
    /\ proc <= started /\ target <= started
    /\ \A p \in Procs : reader[p] # "none" => p <= started

\* A child that was stopped does not run, and what is not started yet is
\* untouched.  c.proc is never a process whose cleanup is over.
StopInv ==
    /\ \A p \in Procs : Done(p) => child[p] # "running"
    /\ \A p \in Procs : p > started => stop[p] = "no"
    /\ proc \in Procs => stop[proc] # "done"

\* Close and ReleaseIdleResources stop the last process.
LastInv ==
    /\ phase = "stop" /\ after \in {"release_wait", "closed"} => proc \in {None, target}
    /\ phase \in {"release_wait", "claude", "closed"} => proc = None

\* Ids are not reused; at most the request under way is pending, and only the
\* process it was made to works on it or has written a response to it.
RequestInv ==
    /\ pending \subseteq {req} /\ None \notin pending /\ req <= nextID
    /\ phase \notin {"write", "wait"} => pending = {}
    /\ chan # NoResponse => pending = {}
    /\ \A p \in Procs : asked[p] <= nextID /\ (asked[p] \in pending => p = target)
    /\ \A p \in Procs : \A r \in pipe[p] :
          r.id <= nextID /\ r.from = p /\ (r.id \in pending => p = target)
    /\ phase \in {"write", "wait"} /\ chan # NoResponse =>
          chan.id = req /\ chan.from = target

IInv ==
    /\ TypeOK /\ TargetInv /\ StartedInv /\ StopInv /\ LastInv /\ RequestInv
    /\ NoOrphanProcess

-----------------------------------------------------------------------------
(* Types.                                                                  *)

\* The type invariant: the goroutine's variables, then what it shares.
LocalTypes ==
    /\ phase \in Phases /\ after \in Phases
    /\ target \in Procs \cup {None}
    /\ method \in Methods /\ req \in Nat
    /\ chan \in Response \cup {NoResponse}
    /\ attempt \in {1, 2}
    /\ err \in {"none", "other", "logged_out", "auth_error"}
    /\ verdict \in {"none", "ok", "login_required", "error"}
    /\ collections \in Nat

SharedTypes ==
    /\ proc \in Procs \cup {None}
    /\ pending \subseteq Nat /\ nextID \in Nat /\ started \in 0..MaxProcs
    /\ stop \in [Procs -> {"no", "begun", "done"}]
    /\ child \in [Procs -> {"none", "running", "killed", "dead", "reaped"}]
    /\ asked \in [Procs -> Nat]
    /\ pipe \in [Procs -> SUBSET Response]
    /\ reader \in [Procs -> {"none", "reading", "ended"}]

Flags == sequential \in BOOLEAN /\ cancelled \in BOOLEAN

\* The type invariant by owner: the collection goroutine's locals, what is shared
\* with the readers and children, and the Boolean variables.
LEMMA TypeParts == TypeOK <=> LocalTypes /\ SharedTypes /\ Flags
BY DEF TypeOK, LocalTypes, SharedTypes, Flags

\* Only the agent's context changes, from FALSE to TRUE.
LEMMA FlagsStep ==
    ASSUME Flags, [Next]_vars
    PROVE  Flags'
<1> USE DEF Flags, vars, agentVars
<1>1. CASE CollectorNext
  BY <1>1, Zenon DEF CollectorNext, CallStop, StopReturns, Collect, ReuseProcess,
     EnsureFails, StartProcess, WriteRequest, WriteFails, Timeout, GiveUp, Disconnected,
     NextRequest, ProcessVanished, Succeed, Rejected, Reset, NothingToReset, ResetExited,
     ResetCancelled, Resume, Return, Release, ReleaseExited, ClaudeProbed, Close
<1>2. CASE Cancel
  BY <1>2, Zenon DEF Cancel
<1>3. ASSUME NEW p \in Procs, FinishStop(p) \/ ReaderNext(p) \/ ChildNext(p)
      PROVE  Flags'
  BY <1>3, Zenon DEF FinishStop, ReaderNext, ReadResponse, ReaderEnds, ChildNext, Answer,
     Crash, Die, Reap
<1>4. CASE UNCHANGED vars
  BY <1>4, Zenon
<1> QED
  BY <1>1, <1>2, <1>3, <1>4, Zenon DEF Next

\* The locals of collectAttempt, call and stopProcess keep their types.
LEMMA LocalTypesStep ==
    ASSUME LocalTypes, SharedTypes, TargetInv, [Next]_vars
    PROVE  LocalTypes' /\ TargetInv'
<1> USE DEF LocalTypes, TargetInv, vars, collectorVars
<1>1. CASE CallStop \/ StopReturns \/ Collect \/ EnsureFails
  BY <1>1 DEF CallStop, StopReturns, Collect, EnsureFails, Phases
<1>2. ASSUME NEW p \in Procs, NEW m \in Methods, Register(p, m),
             UNCHANGED <<after, attempt, err, verdict, collections>>
      PROVE  LocalTypes' /\ TargetInv'
  BY <1>2 DEF Register, Phases, SharedTypes
<1>3. CASE ReuseProcess
  BY <1>2, <1>3 DEF ReuseProcess, Methods, SharedTypes
<1>4. CASE StartProcess
  <2>1. started' \in Procs
    BY <1>4, CodexAssumption DEF StartProcess, SharedTypes, Procs
  <2> QED
    BY <1>2, <1>4, <2>1 DEF StartProcess, Methods
<1>5. CASE WriteRequest
  BY <1>5 DEF WriteRequest, Phases
<1>6. CASE WriteFails \/ Timeout \/ Disconnected
  BY <1>6 DEF WriteFails, Timeout, GiveUp, Disconnected, StopThen, Phases
<1>7. CASE NextRequest
  BY <1>2, <1>7 DEF NextRequest, Methods, SharedTypes
<1>8. CASE ProcessVanished \/ Rejected
  BY <1>8 DEF ProcessVanished, Rejected, Answered, StopThen, Phases
<1>9. CASE Reset
  BY <1>9 DEF Reset, StopThen, Phases, SharedTypes
<1>10. ASSUME NEW r \in {"ok", "login_required", "error"}, Return(r)
       PROVE  LocalTypes' /\ TargetInv'
  BY <1>10 DEF Return, ForgetLocals, Phases, Methods, None
<1>11. CASE Succeed \/ ResetCancelled
  BY <1>10, <1>11 DEF Succeed, ResetCancelled
<1>12. CASE NothingToReset \/ ResetExited
  <2>1. CASE \E r \in {"ok", "login_required", "error"} : Return(r)
    BY <1>10, <2>1
  <2>2. CASE phase' = "ensure" /\ attempt' = 2 /\ err' = "none"
             /\ UNCHANGED <<after, target, method, req, chan, verdict, collections>>
    BY <2>2 DEF Phases
  <2> QED
    BY <1>12, <2>1, <2>2 DEF NothingToReset, ResetExited, Resume
<1>13. CASE Release \/ Close
  BY <1>13 DEF Release, Close, StopThen, Phases, SharedTypes
<1>14. CASE ReleaseExited
  BY <1>14 DEF ReleaseExited, ForgetLocals, Phases, Methods, None
<1>15. CASE ClaudeProbed
  BY <1>15 DEF ClaudeProbed, Phases
<1>16. CASE Cancel
  BY <1>16 DEF Cancel
<1>17. ASSUME NEW p \in Procs, FinishStop(p) \/ ReaderEnds(p) \/ ChildNext(p)
       PROVE  LocalTypes' /\ TargetInv'
  BY <1>17 DEF FinishStop, ReaderEnds, ChildNext, Answer, Crash, Die, Reap
<1>18. ASSUME NEW p \in Procs, ReadResponse(p)
       PROVE  LocalTypes' /\ TargetInv'
  <2>1. chan' \in Response \cup {NoResponse}
    BY <1>18 DEF ReadResponse, SharedTypes
  <2> QED
    BY <1>18, <2>1 DEF ReadResponse
<1>19. CASE UNCHANGED vars
  BY <1>19
<1> QED
  BY <1>1, <1>3, <1>4, <1>5, <1>6, <1>7, <1>8, <1>9, <1>11, <1>12, <1>13, <1>14, <1>15,
     <1>16, <1>17, <1>18, <1>19 DEF Next, CollectorNext, ReaderNext

\* The current child, the pending call, pipes and readers keep their types.
LEMMA SharedTypesStep ==
    ASSUME LocalTypes, SharedTypes, TargetInv, [Next]_vars
    PROVE  SharedTypes'
<1> USE DEF SharedTypes, vars, sharedVars, childVars
<1>1. CASE UNCHANGED <<sharedVars, childVars, reader>>
  BY <1>1
<1>2. CASE StopReturns \/ Collect \/ EnsureFails \/ ProcessVanished \/ Succeed \/ Rejected
           \/ Reset \/ NothingToReset \/ ResetExited \/ ResetCancelled \/ Release
           \/ ReleaseExited \/ ClaudeProbed \/ Close \/ Cancel
  BY <1>1, <1>2 DEF StopReturns, Collect, EnsureFails, ProcessVanished, Succeed, Rejected,
     Reset, NothingToReset, ResetExited, ResetCancelled, Resume, Return, Release,
     ReleaseExited, ClaudeProbed, Close, Cancel
<1>3. ASSUME NEW p \in Procs, BeginStop(p), UNCHANGED <<proc, pending, nextID, started>>,
             pipe' \in [Procs -> SUBSET Response],
             reader' \in [Procs -> {"none", "reading", "ended"}]
      PROVE  SharedTypes'
  BY <1>3 DEF BeginStop, None
<1>4. CASE CallStop
  BY <1>3, <1>4 DEF CallStop, TargetInv
<1>5. ASSUME NEW p, NEW m, Register(p, m)
      PROVE  pending' \subseteq Nat /\ nextID' \in Nat
  BY <1>5 DEF Register
<1>6. CASE ReuseProcess \/ NextRequest
  BY <1>5, <1>6 DEF ReuseProcess, NextRequest
<1>7. CASE StartProcess
  <2>1. started' \in Procs /\ started' \in 0..MaxProcs
    BY <1>7, CodexAssumption DEF StartProcess, Procs
  <2>2. pending' \subseteq Nat /\ nextID' \in Nat
    BY <1>5, <1>7 DEF StartProcess
  <2> QED
    BY <1>7, <2>1, <2>2 DEF StartProcess
<1>8. CASE WriteRequest
  BY <1>8 DEF WriteRequest, LocalTypes
<1>9. CASE WriteFails \/ Timeout \/ Disconnected
  BY <1>9 DEF WriteFails, Timeout, GiveUp, Disconnected
<1>10. ASSUME NEW p \in Procs, FinishStop(p) PROVE SharedTypes'
  BY <1>10 DEF FinishStop
<1>11. ASSUME NEW p \in Procs, ReadResponse(p) PROVE SharedTypes'
  BY <1>11 DEF ReadResponse
<1>12. ASSUME NEW p \in Procs, ReaderEnds(p) PROVE SharedTypes'
  <2>1. /\ pipe' \in [Procs -> SUBSET Response]
        /\ reader' \in [Procs -> {"none", "reading", "ended"}]
        /\ UNCHANGED <<proc, pending, nextID, started>>
    BY <1>12 DEF ReaderEnds
  <2>2. BeginStop(p) \/ UNCHANGED <<stop, child, asked>>
    BY <1>12 DEF ReaderEnds
  <2> QED
    BY <1>3, <2>1, <2>2
<1>13. ASSUME NEW p \in Procs, Answer(p) PROVE SharedTypes'
  <2>1. PICK a \in Answers :
           pipe' = [pipe EXCEPT ![p] = @ \cup {[id |-> asked[p], from |-> p, answer |-> a]}]
    BY <1>13 DEF Answer
  <2>2. [id |-> asked[p], from |-> p, answer |-> a] \in Response
    BY DEF Response
  <2>3. pipe' \in [Procs -> SUBSET Response]
    BY <2>1, <2>2
  <2> QED
    BY <1>13, <2>3 DEF Answer, None
<1>14. ASSUME NEW p \in Procs, Crash(p) \/ Die(p) \/ Reap(p) PROVE SharedTypes'
  <2>1. CASE Crash(p)
    BY <2>1 DEF Crash, None
  <2>2. CASE Die(p)
    BY <2>2 DEF Die
  <2>3. CASE Reap(p)
    BY <2>3 DEF Reap
  <2> QED
    BY <1>14, <2>1, <2>2, <2>3
<1>15. CASE UNCHANGED vars
  BY <1>1, <1>15
<1> QED
  BY <1>2, <1>4, <1>6, <1>7, <1>8, <1>9, <1>10, <1>11, <1>12, <1>13, <1>14, <1>15
     DEF Next, CollectorNext, ReaderNext, ChildNext

-----------------------------------------------------------------------------
(* Processes.                                                              *)

\* The steps that leave c.proc, stopProcess and the children alone.
LEMMA QuietSteps ==
    ASSUME \/ StopReturns \/ Collect \/ ReuseProcess \/ EnsureFails \/ WriteRequest
           \/ WriteFails \/ Timeout \/ Disconnected \/ NextRequest \/ ProcessVanished
           \/ Succeed \/ Rejected \/ Reset \/ NothingToReset \/ ResetExited
           \/ ResetCancelled \/ Release \/ ReleaseExited \/ ClaudeProbed \/ Close \/ Cancel
           \/ (\E p \in Procs : ReadResponse(p) \/ Answer(p)) \/ UNCHANGED vars
    PROVE  UNCHANGED <<proc, started, stop, child>>
BY Zenon DEF StopReturns, Collect, ReuseProcess, EnsureFails, WriteRequest, WriteFails,
   Timeout, GiveUp, Disconnected, NextRequest, ProcessVanished, Succeed, Rejected, Reset,
   NothingToReset, ResetExited, ResetCancelled, Resume, Return, Release, ReleaseExited,
   ClaudeProbed, Close, Cancel, ReadResponse, Answer, vars, sharedVars, childVars

\* Processes are numbered as they are started.
LEMMA StartedStep ==
    ASSUME LocalTypes, SharedTypes, StartedInv, [Next]_vars
    PROVE  StartedInv'
<1> USE DEF StartedInv
<1>0. /\ started \in Nat /\ proc \in Nat /\ target \in Nat
      /\ reader \in [Procs -> {"none", "reading", "ended"}]
      /\ \A p \in Procs : p \in Nat
  BY CodexAssumption DEF LocalTypes, SharedTypes, Procs, None
<1>1. ASSUME started' = started, proc' \in {proc, None}, target' \in {target, proc, None},
             \A p \in Procs : reader'[p] # "none" => reader[p] # "none"
      PROVE  StartedInv'
  BY <1>0, <1>1 DEF None
<1> USE DEF vars, collectorVars, sharedVars, childVars
<1>2. CASE StartProcess
  <2>1. /\ started' = started + 1 /\ proc' = started' /\ target' = started'
        /\ reader' = [reader EXCEPT ![started'] = "reading"]
    BY <1>2 DEF StartProcess, Register
  <2> QED
    BY <1>0, <2>1
<1>3. CASE CollectorNext /\ ~StartProcess
  <2>1. /\ UNCHANGED <<proc, started, reader>>
        /\ target' \in {target, proc, None}
    BY <1>3 DEF CollectorNext, CallStop, StopReturns, Collect, ReuseProcess, EnsureFails,
       WriteRequest, WriteFails, Timeout, GiveUp, Disconnected, NextRequest,
       ProcessVanished, Succeed, Rejected, Reset, NothingToReset, ResetExited,
       ResetCancelled, Resume, Return, ForgetLocals, Release, ReleaseExited, ClaudeProbed,
       Close, StopThen, Register
  <2> QED
    BY <1>1, <2>1
<1>4. ASSUME NEW p \in Procs, FinishStop(p) \/ ReaderNext(p) \/ ChildNext(p)
      PROVE  StartedInv'
  <2>1. /\ started' = started /\ target' = target /\ proc' \in {proc, None}
        /\ \A q \in Procs : reader'[q] # "none" => reader[q] # "none"
    BY <1>0, <1>4 DEF FinishStop, ReaderNext, ReadResponse, ReaderEnds, ChildNext, Answer,
       Crash, Die, Reap
  <2> QED
    BY <1>1, <2>1
<1>5. CASE Cancel \/ UNCHANGED vars
  BY <1>1, <1>5 DEF Cancel
<1> QED
  BY <1>2, <1>3, <1>4, <1>5 DEF Next

\* stopProcess kills what runs, and c.proc is the only child that runs and
\* that nobody stops.
LEMMA ProcessStep ==
    ASSUME LocalTypes, SharedTypes, TargetInv, StartedInv, StopInv, NoOrphanProcess,
           [Next]_vars
    PROVE  StopInv' /\ NoOrphanProcess'
<1> USE DEF StopInv, NoOrphanProcess, Done
<1>0. /\ stop \in [Procs -> {"no", "begun", "done"}]
      /\ child \in [Procs -> {"none", "running", "killed", "dead", "reaped"}]
      /\ proc \in Procs \cup {None}
  BY DEF SharedTypes
<1>1. CASE UNCHANGED <<proc, started, stop, child>>
  BY <1>1
<1>2. ASSUME NEW p \in Procs, p <= started, BeginStop(p), UNCHANGED <<proc, started>>
      PROVE  StopInv' /\ NoOrphanProcess'
  <2>1. /\ stop'[p] = "begun" /\ child'[p] # "running"
        /\ \A q \in Procs \ {p} : stop'[q] = stop[q] /\ child'[q] = child[q]
    BY <1>0, <1>2 DEF BeginStop
  <2>2. \A q \in Procs : q > started => q # p
    BY <1>2, CodexAssumption DEF Procs, SharedTypes
  <2> QED
    BY <1>0, <1>2, <2>1, <2>2
<1>3. CASE CallStop
  BY <1>2, <1>3 DEF CallStop, TargetInv, StartedInv
<1>4. CASE StartProcess
  <2>1. /\ started' = started + 1 /\ started' \in Procs /\ proc' = started'
        /\ stop' = stop /\ child' = [child EXCEPT ![started'] = "running"]
        /\ proc # None => stop[proc] # "no"
    BY <1>4, CodexAssumption DEF StartProcess, SharedTypes, Procs
  <2>2. stop[started'] = "no" /\ \A q \in Procs : q > started' => q > started
    BY <2>1, CodexAssumption DEF SharedTypes, Procs
  <2>3. \A q \in Procs \ {started'} : child'[q] = "running" => stop[q] # "no"
    BY <1>0, <2>1 DEF None, Procs
  <2> QED
    BY <1>0, <2>1, <2>2, <2>3
<1>5. ASSUME NEW p \in Procs, FinishStop(p)
      PROVE  StopInv' /\ NoOrphanProcess'
  <2>1. /\ stop[p] = "begun" /\ stop'[p] = "done" /\ child' = child /\ started' = started
        /\ \A q \in Procs \ {p} : stop'[q] = stop[q]
        /\ proc' = IF proc = p THEN None ELSE proc
    BY <1>0, <1>5 DEF FinishStop, childVars
  <2>2. None \notin Procs
    BY DEF None, Procs
  <2> QED
    BY <1>0, <2>1, <2>2
<1>6. ASSUME NEW p \in Procs, ReaderEnds(p)
      PROVE  StopInv' /\ NoOrphanProcess'
  <2>1. p <= started
    BY <1>6 DEF ReaderEnds, StartedInv
  <2>2. UNCHANGED <<proc, started>>
    BY <1>6 DEF ReaderEnds
  <2>3. BeginStop(p) \/ UNCHANGED <<stop, child>>
    BY <1>6 DEF ReaderEnds
  <2> QED
    BY <1>1, <1>2, <2>1, <2>2, <2>3
<1>7. ASSUME NEW p \in Procs, Crash(p) \/ Die(p) \/ Reap(p)
      PROVE  StopInv' /\ NoOrphanProcess'
  <2>1. /\ UNCHANGED <<proc, started, stop>> /\ child'[p] # "running"
        /\ \A q \in Procs \ {p} : child'[q] = child[q]
    BY <1>0, <1>7 DEF Crash, Die, Reap, sharedVars
  <2> QED
    BY <1>0, <2>1
<1> QED
  BY <1>1, <1>3, <1>4, <1>5, <1>6, <1>7, QuietSteps
     DEF Next, CollectorNext, ReaderNext, ChildNext

\* The goroutine that closes or releases stops the last process.
LEMMA LastStep ==
    ASSUME LocalTypes, SharedTypes, TargetInv, StopInv, LastInv, [Next]_vars
    PROVE  LastInv'
<1> USE DEF LastInv, vars, collectorVars, sharedVars
<1>1. CASE StopReturns
  <2>1. stop[target] = "done" /\ phase' = after /\ proc' = proc /\ phase = "stop"
        /\ after \in {"reset", "reset_wait", "release_wait", "closed"} /\ target \in Procs
    BY <1>1 DEF StopReturns, TargetInv
  <2>2. proc # target
    BY <2>1 DEF StopInv
  <2> QED
    BY <2>1, <2>2
<1>2. CASE CallStop \/ Collect \/ ReuseProcess \/ EnsureFails \/ StartProcess
           \/ WriteRequest \/ WriteFails \/ Timeout \/ Disconnected
  BY <1>2 DEF CallStop, Collect, ReuseProcess, EnsureFails, StartProcess, Register,
     WriteRequest, WriteFails, Timeout, GiveUp, Disconnected, StopThen
<1>3. CASE NextRequest \/ ProcessVanished \/ Succeed \/ Rejected \/ Reset
           \/ NothingToReset \/ ResetExited \/ ResetCancelled
  BY <1>3 DEF NextRequest, Register, ProcessVanished, Succeed, Rejected, Reset, StopThen,
     NothingToReset, ResetExited, ResetCancelled, Resume, Return
<1>4. CASE Release \/ ReleaseExited \/ ClaudeProbed \/ Close
  BY <1>4 DEF Release, ReleaseExited, ClaudeProbed, Close, StopThen
<1>5. ASSUME NEW p \in Procs, FinishStop(p) \/ ReaderNext(p) \/ ChildNext(p)
      PROVE  LastInv'
  <2>1. UNCHANGED <<phase, after, target>> /\ proc' \in {proc, None}
    BY <1>5 DEF FinishStop, ReaderNext, ReadResponse, ReaderEnds, ChildNext, Answer, Crash,
       Die, Reap
  <2> QED
    BY <2>1
<1>6. CASE Cancel \/ UNCHANGED vars
  BY <1>6 DEF Cancel
<1> QED
  BY <1>1, <1>2, <1>3, <1>4, <1>5, <1>6 DEF Next, CollectorNext

-----------------------------------------------------------------------------
(* Requests and answers.                                                   *)

\* An id that nobody has seen yet.
LEMMA RegisterFresh ==
    ASSUME LocalTypes, SharedTypes, RequestInv, pending = {},
           NEW p, NEW m, Register(p, m), UNCHANGED <<asked, pipe>>
    PROVE  RequestInv'
<1>1. /\ nextID \in Nat /\ nextID' = nextID + 1 /\ req' = nextID' /\ pending' = {req'}
      /\ chan' = NoResponse /\ phase' = "write"
  BY DEF Register, SharedTypes
<1>2. \A q \in Procs : asked[q] \in Nat /\ asked[q] <= nextID
  BY DEF RequestInv, SharedTypes
<1>3. \A q \in Procs : \A r \in pipe[q] : r.id \in Nat /\ r.id <= nextID /\ r.from = q
  BY DEF RequestInv, SharedTypes, Response
<1>4. \A q \in Procs : asked'[q] <= nextID' /\ asked'[q] \notin pending'
  BY <1>1, <1>2
<1>5. \A q \in Procs : \A r \in pipe'[q] :
         r.id <= nextID' /\ r.from = q /\ r.id \notin pending'
  BY <1>1, <1>3
<1>6. req' <= nextID' /\ None \notin pending'
  BY <1>1 DEF None
<1> QED
  BY <1>1, <1>4, <1>5, <1>6 DEF RequestInv

\* A step after which nothing is pending.
LEMMA NothingPending ==
    ASSUME RequestInv, pending' = {}, phase' \notin {"write", "wait"}, req' <= nextID',
           UNCHANGED <<nextID, asked, pipe>>
    PROVE  RequestInv'
BY DEF RequestInv

\* While a call is pending, only the process it was made to can answer it.
LEMMA RequestStep ==
    ASSUME LocalTypes, SharedTypes, TargetInv, RequestInv, [Next]_vars
    PROVE  RequestInv'
<1> USE DEF vars, collectorVars, sharedVars, childVars
<1>0. /\ nextID \in Nat /\ req \in Nat /\ req <= nextID
      /\ asked \in [Procs -> Nat] /\ pipe \in [Procs -> SUBSET Response]
  BY DEF LocalTypes, SharedTypes, RequestInv
<1>1. CASE StopReturns \/ Collect \/ EnsureFails \/ Reset \/ Release \/ ClaudeProbed \/ Close
  <2>1. /\ phase \notin {"write", "wait"} /\ phase' \notin {"write", "wait"}
        /\ UNCHANGED <<req, nextID, pending, asked, pipe>>
    BY <1>1 DEF StopReturns, Collect, EnsureFails, Reset, Release, ClaudeProbed, Close,
       StopThen, TargetInv
  <2> QED
    BY <1>0, <2>1, NothingPending DEF RequestInv
<1>2. CASE ReuseProcess \/ StartProcess
  <2>1. pending = {} /\ UNCHANGED <<asked, pipe>> /\ \E p, m : Register(p, m)
    BY <1>2 DEF ReuseProcess, StartProcess, RequestInv
  <2> QED
    BY <2>1, RegisterFresh
<1>3. CASE NextRequest
  <2>1. pending = {} /\ UNCHANGED <<asked, pipe>> /\ \E p, m : Register(p, m)
    BY <1>3 DEF NextRequest, Answered, RequestInv
  <2> QED
    BY <2>1, RegisterFresh
<1>4. CASE WriteFails \/ Timeout \/ Disconnected
  <2>1. /\ pending' = pending \ {req} /\ phase' \notin {"write", "wait"}
        /\ UNCHANGED <<req, nextID, asked, pipe>>
    BY <1>4 DEF WriteFails, Timeout, GiveUp, Disconnected, StopThen
  <2>2. pending' = {}
    BY <2>1 DEF RequestInv
  <2> QED
    BY <1>0, <2>1, <2>2, NothingPending
<1>5. CASE ProcessVanished \/ Rejected
  <2>1. /\ chan # NoResponse /\ phase' \notin {"write", "wait"}
        /\ UNCHANGED <<req, nextID, pending, asked, pipe>>
    BY <1>5 DEF ProcessVanished, Rejected, Answered, StopThen
  <2> QED
    BY <1>0, <2>1, NothingPending DEF RequestInv
<1>6. ASSUME pending = {}, NEW r, Return(r)
      PROVE  RequestInv'
  <2>1. /\ phase' = "collected" /\ req' = 0 /\ UNCHANGED <<nextID, pending, asked, pipe>>
    BY <1>6 DEF Return, ForgetLocals, None
  <2> QED
    BY <1>0, <1>6, <2>1, NothingPending
<1>7. CASE Succeed
  BY <1>6, <1>7 DEF Succeed, Answered, RequestInv
<1>8. CASE NothingToReset \/ ResetExited \/ ResetCancelled
  <2>1. pending = {} /\ phase \notin {"write", "wait"}
    BY <1>8 DEF NothingToReset, ResetExited, ResetCancelled, RequestInv
  <2>2. CASE \E r : Return(r)
    BY <1>6, <2>1, <2>2
  <2>3. CASE phase' = "ensure" /\ UNCHANGED <<req, nextID, pending, asked, pipe>>
    BY <1>0, <2>1, <2>3, NothingPending
  <2> QED
    BY <1>8, <2>2, <2>3 DEF NothingToReset, ResetExited, ResetCancelled, Resume
<1>9. CASE ReleaseExited
  <2>1. /\ phase' = "claude" /\ req' = 0 /\ pending = {}
        /\ UNCHANGED <<nextID, pending, asked, pipe>>
    BY <1>9 DEF ReleaseExited, ForgetLocals, None, RequestInv
  <2> QED
    BY <1>0, <2>1, NothingPending
<1>10. CASE WriteRequest
  <2>1. /\ phase = "write" /\ phase' = "wait" /\ target \in Procs
        /\ UNCHANGED <<target, req, chan, nextID, pending, pipe>>
        /\ asked' = [asked EXCEPT ![target] = req]
    BY <1>10 DEF WriteRequest, TargetInv
  <2>2. \A q \in Procs : asked'[q] <= nextID /\ (asked'[q] \in pending => q = target)
    BY <1>0, <2>1 DEF RequestInv
  <2> QED
    BY <2>1, <2>2 DEF RequestInv
<1>11. ASSUME NEW p \in Procs, BeginStop(p),
              UNCHANGED <<phase, target, req, chan, nextID, pending>>,
              \A q \in Procs : pipe'[q] \subseteq pipe[q]
       PROVE  RequestInv'
  <2>1. asked'[p] = None /\ \A q \in Procs \ {p} : asked'[q] = asked[q]
    BY <1>0, <1>11 DEF BeginStop
  <2>2. \A q \in Procs : asked'[q] <= nextID /\ (asked'[q] \in pending => q = target)
    BY <1>0, <2>1 DEF RequestInv, None
  <2> QED
    BY <1>11, <2>2 DEF RequestInv
<1>12. CASE CallStop
  BY <1>11, <1>12 DEF CallStop, TargetInv
<1>13. ASSUME NEW p \in Procs, FinishStop(p) PROVE RequestInv'
  BY <1>13 DEF FinishStop, RequestInv
<1>14. ASSUME NEW p \in Procs, ReadResponse(p) PROVE RequestInv'
  <2>1. PICK r \in pipe[p] :
           /\ pipe' = [pipe EXCEPT ![p] = @ \ {r}]
           /\ pending' = pending \ {r.id}
           /\ chan' = IF r.id \in pending THEN r ELSE chan
    BY <1>14 DEF ReadResponse
  <2>2. /\ UNCHANGED <<phase, target, req, nextID, asked>>
        /\ \A q \in Procs : pipe'[q] \subseteq pipe[q]
    BY <1>0, <1>14, <2>1 DEF ReadResponse
  <2>3. CASE r.id \in pending
    <3>1. /\ pending' = {} /\ chan' = r /\ r.id = req /\ r.from = p /\ p = target
      BY <2>1, <2>3 DEF RequestInv
    <3> QED
      BY <2>2, <3>1 DEF RequestInv
  <2>4. CASE r.id \notin pending
    <3>1. pending' = pending /\ chan' = chan
      BY <2>1, <2>4
    <3> QED
      BY <2>2, <3>1 DEF RequestInv
  <2> QED
    BY <2>3, <2>4
<1>15. ASSUME NEW p \in Procs, ReaderEnds(p) PROVE RequestInv'
  <2>1. /\ UNCHANGED <<phase, target, req, chan, nextID, pending>>
        /\ \A q \in Procs : pipe'[q] \subseteq pipe[q]
    BY <1>0, <1>15 DEF ReaderEnds
  <2>2. CASE BeginStop(p)
    BY <1>11, <2>1, <2>2
  <2>3. CASE asked' = asked
    BY <2>1, <2>3 DEF RequestInv
  <2> QED
    BY <1>15, <2>2, <2>3 DEF ReaderEnds
<1>16. ASSUME NEW p \in Procs, Answer(p) PROVE RequestInv'
  <2>1. PICK a \in Answers :
           pipe' = [pipe EXCEPT ![p] = @ \cup {[id |-> asked[p], from |-> p, answer |-> a]}]
    BY <1>16 DEF Answer
  <2>2. /\ UNCHANGED <<phase, target, req, chan, nextID, pending>>
        /\ asked' = [asked EXCEPT ![p] = None]
    BY <1>16 DEF Answer
  <2> DEFINE n == [id |-> asked[p], from |-> p, answer |-> a]
  <2>3. n.id <= nextID /\ n.from = p /\ (n.id \in pending => p = target)
    BY DEF RequestInv
  <2>4. /\ pipe'[p] = pipe[p] \cup {n}
        /\ \A q \in Procs \ {p} : pipe'[q] = pipe[q]
    BY <1>0, <2>1
  <2> HIDE DEF n
  <2>5. \A q \in Procs : \A r \in pipe'[q] :
           r.id <= nextID /\ r.from = q /\ (r.id \in pending => q = target)
    BY <2>3, <2>4 DEF RequestInv
  <2>6. \A q \in Procs : asked'[q] <= nextID /\ (asked'[q] \in pending => q = target)
    BY <1>0, <2>2 DEF RequestInv, None
  <2> QED
    BY <2>2, <2>5, <2>6 DEF RequestInv
<1>17. ASSUME NEW p \in Procs, Crash(p) \/ Die(p) \/ Reap(p) PROVE RequestInv'
  <2>1. UNCHANGED <<phase, target, req, chan, nextID, pending, pipe>>
    BY <1>17 DEF Crash, Die, Reap
  <2>2. asked' = asked \/ asked' = [asked EXCEPT ![p] = None]
    BY <1>17 DEF Crash, Die, Reap
  <2>3. \A q \in Procs : asked'[q] <= nextID /\ (asked'[q] \in pending => q = target)
    BY <1>0, <2>2 DEF RequestInv, None
  <2> QED
    BY <2>1, <2>3 DEF RequestInv
<1>18. CASE Cancel \/ UNCHANGED vars
  BY <1>18 DEF Cancel, RequestInv
<1> QED
  BY <1>1, <1>2, <1>3, <1>4, <1>5, <1>7, <1>8, <1>9, <1>10, <1>12, <1>13, <1>14, <1>15,
     <1>16, <1>17, <1>18 DEF Next, CollectorNext, ReaderNext, ChildNext

-----------------------------------------------------------------------------
(* The theorems.                                                           *)

\* A collector that was just created.
LEMMA InitIInv == Init => IInv
<1> SUFFICES ASSUME Init PROVE IInv
  OBVIOUS
<1>1. LocalTypes
  BY DEF Init, LocalTypes, Phases, Methods, None
<1>2. SharedTypes
  BY CodexAssumption DEF Init, SharedTypes, None
<1>3. Flags
  BY Zenon DEF Init, Flags
<1>4. TargetInv /\ LastInv
  BY DEF Init, TargetInv, LastInv
<1>5. StartedInv /\ StopInv /\ NoOrphanProcess
  BY DEF Init, StartedInv, StopInv, NoOrphanProcess, Done, None, Procs
<1>6. RequestInv
  BY DEF Init, RequestInv, None
<1> QED
  BY <1>1, <1>2, <1>3, <1>4, <1>5, <1>6, TypeParts DEF IInv

\* Every step of the goroutine, the readers and the children preserves it.
LEMMA NextIInv == IInv /\ [Next]_vars => IInv'
<1> SUFFICES ASSUME IInv, [Next]_vars PROVE IInv'
  OBVIOUS
<1>1. LocalTypes /\ SharedTypes /\ Flags
  BY TypeParts DEF IInv
<1>2. LocalTypes' /\ TargetInv' /\ SharedTypes' /\ Flags' /\ StartedInv'
  BY <1>1, LocalTypesStep, SharedTypesStep, FlagsStep, StartedStep DEF IInv
<1>3. StopInv' /\ NoOrphanProcess' /\ LastInv' /\ RequestInv'
  BY <1>1, ProcessStep, LastStep, RequestStep DEF IInv
<1>4. TypeOK'
  BY <1>2 DEF TypeOK, LocalTypes, SharedTypes, Flags
<1> QED
  BY <1>2, <1>3, <1>4 DEF IInv

\* Who knows which process, what stopProcess has done to it, and which
\* request is under way.
THEOREM CodexInvariant == Spec => []IInv
BY InitIInv, NextIInv, PTL DEF Spec

\* Every variable always has the shape of the Go value it stands for.
THEOREM CodexTypeCorrect == Spec => []TypeOK
<1>1. IInv => TypeOK
  BY DEF IInv
<1> QED
  BY <1>1, CodexInvariant, PTL

\* No app-server is forgotten: the cleanup of an older child, which may come
\* after its replacement was installed, leaves the replacement alone.
THEOREM CodexNoOrphanProcess == Spec => []NoOrphanProcess
<1>1. IInv => NoOrphanProcess
  BY DEF IInv
<1> QED
  BY <1>1, CodexInvariant, PTL

\* A call returns the answer of the process it talks to, to the request it
\* made, whatever the readers of older children still deliver.
THEOREM CodexAnswerMatchesRequest == Spec => []AnswerMatchesRequest
<1>1. IInv => AnswerMatchesRequest
  BY DEF IInv, RequestInv, AnswerMatchesRequest
<1> QED
  BY <1>1, CodexInvariant, PTL

\* While Claude is probed after Codex, and once the collector is closed, every
\* app-server has at least been killed: ReleaseIdleResources and Close miss
\* none, although stopProcess may be run by somebody else meanwhile.
THEOREM CodexStoppedWhenReleased ==
    Spec => [](phase \in {"claude", "closed"} => \A p \in Procs : child[p] # "running")
<1>1. IInv => (phase \in {"claude", "closed"} => \A p \in Procs : child[p] # "running")
  <2> SUFFICES ASSUME IInv, phase \in {"claude", "closed"}, NEW p \in Procs,
                      child[p] = "running"
               PROVE  FALSE
    OBVIOUS
  <2>1. ~Done(p)
    BY DEF IInv, StopInv
  <2>2. proc = p
    BY <2>1 DEF IInv, NoOrphanProcess
  <2>3. proc = None
    BY DEF IInv, LastInv
  <2> QED
    BY <2>2, <2>3 DEF None, Procs
<1> QED
  BY <1>1, CodexInvariant, PTL
=============================================================================
