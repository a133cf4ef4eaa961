--------------------------- MODULE CodexCollector ---------------------------
(***************************************************************************)
(* The collector that owns one "codex app-server" child process            *)
(* (internal/collector/codex.go).                                          *)
(*                                                                         *)
(* Three kinds of activities interleave: the collection goroutine, which   *)
(* alone calls Collect, ReleaseIdleResources and, after the last           *)
(* collection, Close; one reader goroutine per child; and the children,    *)
(* which answer, crash, hang, and die some time after they are killed.     *)
(* They share c.proc, c.pending and the once-guarded body of stopProcess,  *)
(* which closes p.done first and cleans up under c.mu later.               *)
(***************************************************************************)
EXTENDS Integers

CONSTANTS
    MaxProcs,         \* bound on the number of children started
    MaxCollections    \* bound on the number of collections

ASSUME CodexAssumption ==
    MaxProcs \in Nat /\ MaxCollections \in Nat

VARIABLES
    phase,        \* where the collection goroutine is
    after,        \* where it continues when stopProcess returns
    target,       \* the process it talks to or stops
    method,       \* the request it is making
    req,          \* the id of that request
    chan,         \* its response channel
    attempt,      \* which collectAttempt this is; the second one refreshes
    err,          \* how that attempt failed
    verdict,      \* what the last Collect returned
    collections,  \* number of collections so far
    sequential,   \* SequentialCollection: Claude is probed after Codex
    cancelled,    \* the agent's context is cancelled
    proc,         \* c.proc
    pending,      \* keys of c.pending
    nextID,       \* c.nextID
    started,      \* number of children started
    stop,         \* per child: progress of stopProcess's once body
    child,        \* per child: the operating system's view of it
    asked,        \* per child: the request it is working on
    pipe,         \* per child: responses it wrote and nobody read
    reader        \* per child: is its readLoop running

collectorVars == <<phase, after, target, method, req, chan, attempt, err,
                   verdict, collections>>
sharedVars == <<proc, pending, nextID, started, stop>>
childVars == <<child, asked, pipe>>
agentVars == <<sequential, cancelled>>
vars == <<collectorVars, agentVars, sharedVars, childVars, reader>>

-----------------------------------------------------------------------------
None == 0

Procs == 1..MaxProcs

Methods == {"initialize", "account/read", "account/rateLimits/read"}

\* What a response says: a result, the result "no account, login required",
\* a rejected access token, or another error.
Answers == {"ok", "logged_out", "auth_error", "error"}

Response == [id : Nat, from : Procs, answer : Answers]

NoResponse == [id |-> None, from |-> None, answer |-> "error"]

Phases == {"idle", "ensure", "write", "wait", "stop", "reset", "reset_wait",
           "collected", "release_wait", "claude", "closed"}

Done(p) == stop[p] # "no"             \* p.done is closed

Resident == {p \in Procs : child[p] \in {"running", "killed"}}

Init ==
    /\ phase = "idle" /\ after = "idle" /\ target = None
    /\ method = "initialize" /\ req = None /\ chan = NoResponse
    /\ attempt = 1 /\ err = "none" /\ verdict = "none" /\ collections = 0
    /\ sequential \in BOOLEAN /\ cancelled = FALSE
    /\ proc = None /\ pending = {} /\ nextID = 0 /\ started = 0
    /\ stop = [p \in Procs |-> "no"]
    /\ child = [p \in Procs |-> "none"]
    /\ asked = [p \in Procs |-> None]
    /\ pipe = [p \in Procs |-> {}]
    /\ reader = [p \in Procs |-> "none"]

-----------------------------------------------------------------------------
(* stopProcess.  Whoever comes first runs the once body; everybody else    *)
(* who calls it waits until the body has returned.                         *)

\* The first half of the body: stdin closed, child killed, p.done closed.
BeginStop(p) ==
    /\ stop[p] = "no"
    /\ stop' = [stop EXCEPT ![p] = "begun"]
    /\ child' = [child EXCEPT ![p] = IF @ = "running" THEN "killed" ELSE @]
    /\ asked' = [asked EXCEPT ![p] = None]

\* Mutant of FinishStop: a process that was replaced meanwhile is forgotten.
FinishStopAnyProc(p) ==
    /\ stop[p] = "begun"
    /\ stop' = [stop EXCEPT ![p] = "done"]
    /\ proc' = None
    /\ pending' = {}
    /\ UNCHANGED <<collectorVars, agentVars, nextID, started, childVars, reader>>

\* The second half, under c.mu: every pending call is dropped.
FinishStop(p) ==
    /\ stop[p] = "begun"
    /\ stop' = [stop EXCEPT ![p] = "done"]
    /\ proc' = IF proc = p THEN None ELSE proc
    /\ pending' = {}
    /\ UNCHANGED <<collectorVars, agentVars, nextID, started, childVars, reader>>

-----------------------------------------------------------------------------
(* The collection goroutine.                                               *)

StopThen(p, next) ==
    /\ phase' = "stop" /\ target' = p /\ after' = next

\* The variables of Collect and of the calls it makes are gone.
ForgetLocals ==
    /\ target' = None /\ after' = "idle" /\ method' = "initialize"
    /\ req' = None /\ chan' = NoResponse /\ attempt' = 1 /\ err' = "none"

\* Collect returns.
Return(result) ==
    /\ phase' = "collected" /\ verdict' = result
    /\ ForgetLocals
    /\ UNCHANGED <<collections, agentVars, sharedVars, childVars, reader>>

\* It calls stopProcess(target) and is the first to do so.
CallStop ==
    /\ phase = "stop"
    /\ BeginStop(target)
    /\ UNCHANGED <<collectorVars, agentVars, proc, pending, nextID, started,
                   pipe, reader>>

\* once.Do returns, whoever ran the body.
StopReturns ==
    /\ phase = "stop" /\ stop[target] = "done"
    /\ phase' = after
    /\ UNCHANGED <<after, target, method, req, chan, attempt, err, verdict,
                   collections, agentVars, sharedVars, childVars, reader>>

\* The worker may still pick up a queued request after cancellation.
Collect ==
    /\ phase = "idle"
    /\ collections < MaxCollections
    /\ collections' = collections + 1
    /\ phase' = "ensure" /\ verdict' = "none"
    /\ UNCHANGED <<after, target, method, req, chan, attempt, err, agentVars,
                   sharedVars, childVars, reader>>

\* callOnProcess registers a request under a new id.
Register(p, m) ==
    /\ nextID' = nextID + 1
    /\ req' = nextID'
    /\ pending' = pending \cup {req'}
    /\ chan' = NoResponse
    /\ method' = m /\ target' = p
    /\ phase' = "write"

\* ensureStarted keeps a process that is not done; call then reads c.proc
\* again and registers account/read.
ReuseProcess ==
    /\ phase = "ensure"
    /\ proc # None /\ ~Done(proc)
    /\ Register(proc, "account/read")
    /\ UNCHANGED <<after, attempt, err, verdict, collections, agentVars, proc,
                   started, stop, childVars, reader>>

\* Starting a child fails, or the process that ensureStarted kept is gone
\* when call reads c.proc.
EnsureFails ==
    /\ phase = "ensure"
    /\ proc # None => Done(proc)
    /\ phase' = "reset" /\ err' = "other"
    /\ UNCHANGED <<after, target, method, req, chan, attempt, verdict,
                   collections, agentVars, sharedVars, childVars, reader>>

\* ensureStarted starts a child and registers the handshake.
StartProcess ==
    /\ phase = "ensure"
    /\ proc # None => Done(proc)
    /\ started < MaxProcs
    /\ started' = started + 1
    /\ proc' = started'
    /\ child' = [child EXCEPT ![started'] = "running"]
    /\ reader' = [reader EXCEPT ![started'] = "reading"]
    /\ Register(started', "initialize")
    /\ UNCHANGED <<after, attempt, err, verdict, collections, agentVars, stop,
                   asked, pipe>>

\* writeJSON hands the request to the child.
WriteRequest ==
    /\ phase = "write"
    /\ proc = target
    /\ child[target] = "running"
    /\ asked' = [asked EXCEPT ![target] = req]
    /\ phase' = "wait"
    /\ UNCHANGED <<after, target, method, req, chan, attempt, err, verdict,
                   collections, agentVars, sharedVars, child, pipe, reader>>

\* The request fails: the pending entry goes and the process is stopped.
GiveUp ==
    /\ pending' = pending \ {req}
    /\ err' = "other"
    /\ StopThen(target, "reset")
    /\ UNCHANGED <<method, req, chan, attempt, verdict, collections, agentVars,
                   proc, nextID, started, stop, childVars, reader>>

\* writeJSON finds another process, a closed stdin or a broken pipe.
WriteFails ==
    /\ phase = "write"
    /\ proc = target => child[target] # "running"
    /\ GiveUp

\* Mutant of Timeout: requests without a deadline.
TimeoutNever ==
    /\ phase = "wait" /\ cancelled
    /\ GiveUp

\* The request's deadline passes, or the agent's context is cancelled.
Timeout ==
    /\ phase = "wait"
    /\ GiveUp

\* p.done is closed.  Only the handshake calls stopProcess on this path.
Disconnected ==
    /\ phase = "wait" /\ Done(target)
    /\ pending' = pending \ {req}
    /\ err' = "other"
    /\ IF method = "initialize" THEN StopThen(target, "reset")
       ELSE phase' = "reset" /\ UNCHANGED <<target, after>>
    /\ UNCHANGED <<method, req, chan, attempt, verdict, collections, agentVars,
                   proc, nextID, started, stop, childVars, reader>>

\* Only account/read looks for a missing account in the result it gets.
Outcome == IF chan.answer = "logged_out" /\ method # "account/read" THEN "ok"
           ELSE chan.answer

Answered(outcome) == phase = "wait" /\ chan # NoResponse /\ Outcome = outcome

\* After a result: the next request of the attempt.  Between the handshake
\* and account/read an "initialized" notification is written; if that fails
\* the outcome is that of WriteFails.
NextRequest ==
    /\ Answered("ok") /\ method # "account/rateLimits/read"
    /\ proc # None
    /\ Register(proc, IF method = "initialize" THEN "account/read"
                      ELSE "account/rateLimits/read")
    /\ UNCHANGED <<after, attempt, err, verdict, collections, agentVars, proc,
                   started, stop, childVars, reader>>

\* call: "codex app-server is not running".
ProcessVanished ==
    /\ Answered("ok") /\ method # "account/rateLimits/read"
    /\ proc = None
    /\ phase' = "reset" /\ err' = "other"
    /\ UNCHANGED <<after, target, method, req, chan, attempt, verdict,
                   collections, agentVars, sharedVars, childVars, reader>>

\* Collect returns the quota report.
Succeed ==
    /\ Answered("ok") /\ method = "account/rateLimits/read"
    /\ Return("ok")

\* An error response, or no account: the child is recreated.  ensureStarted
\* stops the process itself when the handshake is rejected.
Rejected ==
    /\ \E answer \in {"logged_out", "auth_error", "error"} :
          /\ Answered(answer)
          /\ err' = IF answer = "error" THEN "other" ELSE answer
    /\ IF method = "initialize" THEN StopThen(target, "reset")
       ELSE phase' = "reset" /\ UNCHANGED <<target, after>>
    /\ UNCHANGED <<method, req, chan, attempt, verdict, collections, agentVars,
                   sharedVars, childVars, reader>>

\* resetCurrentProcessAndWait
Reset ==
    /\ phase = "reset" /\ proc # None
    /\ StopThen(proc, "reset_wait")
    /\ UNCHANGED <<method, req, chan, attempt, err, verdict, collections,
                   agentVars, sharedVars, childVars, reader>>

\* What Collect does when the reset is over: retry once with a refresh after
\* a rejected token, else return.
Resume ==
    \/ /\ err = "auth_error" /\ attempt = 1
       /\ phase' = "ensure" /\ attempt' = 2 /\ err' = "none"
       /\ UNCHANGED <<after, target, method, req, chan, verdict, collections,
                      agentVars, sharedVars, childVars, reader>>
    \/ /\ err = "auth_error" => attempt = 2
       /\ Return(IF err = "other" THEN "error" ELSE "login_required")

NothingToReset ==
    /\ phase = "reset" /\ proc = None
    /\ Resume

\* p.exited is closed.
ResetExited ==
    /\ phase = "reset_wait" /\ child[target] = "reaped"
    /\ Resume

\* The context is cancelled before the child has exited.
ResetCancelled ==
    /\ phase = "reset_wait" /\ cancelled
    /\ Return("error")

\* CollectOnce: concurrent collection is over, sequential collection calls
\* ReleaseIdleResources.
Release ==
    /\ phase = "collected"
    /\ IF ~sequential THEN phase' = "idle" /\ UNCHANGED <<target, after>>
       ELSE IF proc = None THEN phase' = "claude" /\ UNCHANGED <<target, after>>
       ELSE StopThen(proc, "release_wait")
    /\ UNCHANGED <<method, req, chan, attempt, err, verdict, collections,
                   agentVars, sharedVars, childVars, reader>>

ReleaseExited ==
    /\ phase = "release_wait" /\ child[target] = "reaped"
    /\ phase' = "claude"
    /\ ForgetLocals
    /\ UNCHANGED <<verdict, collections, agentVars, sharedVars, childVars, reader>>

\* The one-shot Claude probe ends.
ClaudeProbed ==
    /\ phase = "claude"
    /\ phase' = "idle"
    /\ UNCHANGED <<after, target, method, req, chan, attempt, err, verdict,
                   collections, agentVars, sharedVars, childVars, reader>>

Cancel ==
    /\ ~cancelled
    /\ cancelled' = TRUE
    /\ UNCHANGED <<sequential, collectorVars, sharedVars, childVars, reader>>

\* Mutant of Close: the child is left to notice that its stdin is gone.
CloseOnly ==
    /\ phase = "idle" /\ cancelled
    /\ phase' = "closed"
    /\ UNCHANGED <<after, target, method, req, chan, attempt, err, verdict,
                   collections, agentVars, sharedVars, childVars, reader>>

\* The agent's run waits for the collection goroutine, then calls Close.
Close ==
    /\ phase = "idle" /\ cancelled
    /\ IF proc = None THEN phase' = "closed" /\ UNCHANGED <<target, after>>
       ELSE StopThen(proc, "closed")
    /\ UNCHANGED <<method, req, chan, attempt, err, verdict, collections,
                   agentVars, sharedVars, childVars, reader>>

-----------------------------------------------------------------------------
(* readLoop.                                                               *)

\* Mutant of ReadResponse: any response completes the pending call.
ReadAnyResponse(p) ==
    /\ reader[p] = "reading"
    /\ \E r \in pipe[p] :
          /\ pipe' = [pipe EXCEPT ![p] = @ \ {r}]
          /\ pending' = {}
          /\ chan' = IF pending # {} THEN r ELSE chan
    /\ UNCHANGED <<phase, after, target, method, req, attempt, err, verdict,
                   collections, agentVars, proc, nextID, started, stop, child,
                   asked, reader>>

\* A response completes the call that is pending under its id, if any.
ReadResponse(p) ==
    /\ reader[p] = "reading"
    /\ \E r \in pipe[p] :
          /\ pipe' = [pipe EXCEPT ![p] = @ \ {r}]
          /\ pending' = pending \ {r.id}
          /\ chan' = IF r.id \in pending THEN r ELSE chan
    /\ UNCHANGED <<phase, after, target, method, req, attempt, err, verdict,
                   collections, agentVars, proc, nextID, started, stop, child,
                   asked, reader>>

\* End of file, or a line that is too long: the loop ends in stopProcess.
ReaderEnds(p) ==
    /\ reader[p] = "reading"
    /\ reader' = [reader EXCEPT ![p] = "ended"]
    /\ pipe' = [pipe EXCEPT ![p] = {}]
    /\ \/ BeginStop(p)
       \/ Done(p) /\ UNCHANGED <<stop, child, asked>>
    /\ UNCHANGED <<collectorVars, agentVars, proc, pending, nextID, started>>

(* The children.                                                           *)

Answer(p) ==
    /\ child[p] = "running" /\ asked[p] # None
    /\ \E a \in Answers :
          pipe' = [pipe EXCEPT ![p] = @ \cup {[id |-> asked[p], from |-> p,
                                               answer |-> a]}]
    /\ asked' = [asked EXCEPT ![p] = None]
    /\ UNCHANGED <<collectorVars, agentVars, sharedVars, child, reader>>

Crash(p) ==
    /\ child[p] = "running"
    /\ child' = [child EXCEPT ![p] = "dead"]
    /\ asked' = [asked EXCEPT ![p] = None]
    /\ UNCHANGED <<collectorVars, agentVars, sharedVars, pipe, reader>>

\* Kill is asynchronous.
Die(p) ==
    /\ child[p] = "killed"
    /\ child' = [child EXCEPT ![p] = "dead"]
    /\ UNCHANGED <<collectorVars, agentVars, sharedVars, asked, pipe, reader>>

\* cmd.Wait returns in the goroutine that stopProcess started.
Reap(p) ==
    /\ child[p] = "dead" /\ Done(p)
    /\ child' = [child EXCEPT ![p] = "reaped"]
    /\ UNCHANGED <<collectorVars, agentVars, sharedVars, asked, pipe, reader>>

-----------------------------------------------------------------------------
CollectorNext ==
    \/ CallStop \/ StopReturns
    \/ Collect \/ ReuseProcess \/ EnsureFails \/ StartProcess
    \/ WriteRequest \/ WriteFails \/ Timeout \/ Disconnected
    \/ NextRequest \/ ProcessVanished \/ Succeed \/ Rejected
    \/ Reset \/ NothingToReset \/ ResetExited \/ ResetCancelled
    \/ Release \/ ReleaseExited \/ ClaudeProbed \/ Close

ReaderNext(p) == ReadResponse(p) \/ ReaderEnds(p)

ChildNext(p) == Answer(p) \/ Crash(p) \/ Die(p) \/ Reap(p)

Next ==
    \/ CollectorNext
    \/ Cancel
    \/ \E p \in Procs : FinishStop(p) \/ ReaderNext(p) \/ ChildNext(p)

Spec == Init /\ [][Next]_vars

\* The goroutines run, a request's deadline passes, a killed child dies and
\* the kernel hands its status to Wait.  Children need not answer, readers
\* need not see the end of file and nobody needs to cancel.
Fairness ==
    /\ WF_vars(CollectorNext)
    /\ \A p \in Procs : WF_vars(FinishStop(p)) /\ WF_vars(Die(p))
                                               /\ WF_vars(Reap(p))

FairSpec == Spec /\ Fairness
-----------------------------------------------------------------------------
\* Every variable has the shape of the Go value it stands for.
TypeOK ==
    /\ phase \in Phases /\ after \in Phases
    /\ target \in Procs \cup {None}
    /\ method \in Methods /\ req \in Nat
    /\ chan \in Response \cup {NoResponse}
    /\ attempt \in {1, 2}
    /\ err \in {"none", "other", "logged_out", "auth_error"}
    /\ verdict \in {"none", "ok", "login_required", "error"}
    /\ collections \in Nat /\ {sequential, cancelled} \subseteq BOOLEAN
    /\ proc \in Procs \cup {None}
    /\ pending \subseteq Nat /\ nextID \in Nat /\ started \in 0..MaxProcs
    /\ stop \in [Procs -> {"no", "begun", "done"}]
    /\ child \in [Procs -> {"none", "running", "killed", "dead", "reaped"}]
    /\ asked \in [Procs -> Nat]
    /\ pipe \in [Procs -> SUBSET Response]
    /\ reader \in [Procs -> {"none", "reading", "ended"}]

\* No app-server is forgotten: a child that runs and that nobody is stopping
\* is the collector's current process, although the cleanup of an older
\* child may come after its replacement was installed (the c.proc == p test
\* in stopProcess).
NoOrphanProcess ==
    \A p \in Procs : child[p] = "running" /\ ~Done(p) => proc = p

\* The answer a call returns was given by the process it talks to, to the
\* request it made, although readers of older children still deliver what
\* those wrote before they died.
AnswerMatchesRequest ==
    phase = "wait" /\ chan # NoResponse =>
        chan.id = req /\ chan.from = target

\* Every collection ends, also when the child hangs, crashes or dies slowly.
CollectionEnds == phase = "ensure" ~> phase \in {"idle", "closed"}

\* After cancellation the collector is closed and, some time later, no
\* app-server is left.
ShutdownLeavesNoChild == cancelled ~> (phase = "closed" /\ Resident = {})

\* "A failed or timed-out request tears the process down; the next Collect
\* starts a fresh connection and performs the initialization handshake again"
\* (comment on CodexCollector): a request to a connection that nobody tore
\* down stays registered until it is answered.
RequestStaysPending ==
    phase = "wait" /\ ~Done(target) /\ chan = NoResponse => req \in pending

\* "Wait for reaping so the Claude probe cannot overlap the app-server's
\* resident memory" (comment in ReleaseIdleResources).
NoOverlapWithClaude == phase = "claude" => Resident = {}
=============================================================================
