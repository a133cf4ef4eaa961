------------------------------ MODULE Standalone ------------------------------
(***************************************************************************)
(* quota-monitor standalone (cmd/quota-monitor/main.go): the token file    *)
(* that a first start creates beside the database, the first collection    *)
(* and report, the schedulers of the agent (internal/agent/agent.go), and  *)
(* the way down.  A process may be killed at any step, power may fail, and *)
(* a second process may be started while the first one runs.               *)
(*                                                                         *)
(* The stored snapshot is only told apart by how it came about.  The       *)
(* collectors and the report handler are modelled in other modules.        *)
(***************************************************************************)
EXTENDS ServiceAuth

CONSTANTS
    Procs,          \* processes: the service, and one started by hand
    MaxStarts       \* bound: number of starts

\* No token and no process is called like what stands for none.
ASSUME StandaloneAssumption ==
    /\ IsFiniteSet(Procs) /\ MaxStarts \in Nat
    /\ Tokens \cap {"", "absent", "empty"} = {} /\ "" \notin Procs

VARIABLES
    durable,    \* the tokens table as a power loss leaves it
    file,       \* the display token file
    onDisk,     \* the file as a power loss may leave it: a set
    stored,     \* how the stored report came about
    pc,         \* each process
    mine,       \* the token a process is creating
    cancelled,  \* its runCtx
    agent,      \* how its provider state came about
    worker,     \* its collection worker is busy
    host,       \* the process that serves a request
    starts,
    lost,       \* history: tokens a kill or a power loss left behind
    abandoned   \* history: tokens of starts that gave up

procVars == <<pc, mine, cancelled, agent, worker>>
diskVars == <<durable, file, onDisk, stored>>
histVars == <<lost, abandoned>>
vars == <<authVars, diskVars, procVars, host, histVars, starts>>

Absent == "absent"
Empty == "empty"        \* also a token that is cut short
Nobody == ""

\* Provider state: no report at all, the reports or failures of a collection
\* that ran to its end, or those of one that was cancelled.
Outcomes == {"empty", "collected", "cut"}

Creating == {"open", "write", "sync"}
Serving == {"initial", "persist", "run"}
Stopping == {"shutdown", "drain"}

Init ==
    /\ AuthInit
    /\ durable = tokens
    /\ file = Absent /\ onDisk = {Absent} /\ stored = "none"
    /\ pc = [p \in Procs |-> "down"]
    /\ mine = [p \in Procs |-> Nobody]
    /\ cancelled = [p \in Procs |-> FALSE]
    /\ agent = [p \in Procs |-> "empty"]
    /\ worker = [p \in Procs |-> FALSE]
    /\ host = [r \in Requests |-> Nobody]
    /\ starts = 0 /\ lost = {} /\ abandoned = {}

GoToProc(p, l) ==
    /\ pc' = [pc EXCEPT ![p] = l]
    /\ UNCHANGED <<cancelled, agent, worker>>

\* The processes in P end, and with them the requests they serve.
EndProcs(P) ==
    /\ pc' = [p \in Procs |-> IF p \in P THEN "down" ELSE pc[p]]
    /\ mine' = [p \in Procs |-> IF p \in P THEN Nobody ELSE mine[p]]
    /\ cancelled' = [p \in Procs |-> p \notin P /\ cancelled[p]]
    /\ agent' = [p \in Procs |-> IF p \in P THEN "empty" ELSE agent[p]]
    /\ worker' = [p \in Procs |-> p \notin P /\ worker[p]]
    /\ req' = [r \in Requests |-> IF host[r] \in P THEN Idle ELSE req[r]]
    /\ host' = [r \in Requests |-> IF host[r] \in P THEN Nobody ELSE host[r]]

Exit(p) == EndProcs({p})

-----------------------------------------------------------------------------
(* ensureDisplayToken.                                                     *)

Start(p) ==
    /\ pc[p] = "down" /\ starts < MaxStarts
    /\ starts' = starts + 1
    /\ GoToProc(p, "token")
    /\ UNCHANGED <<authVars, diskVars, mine, host, histVars>>

\* Mutant of FileMatches: any file that is not empty will do.
FileNotEmpty == file \in Tokens

\* The file holds a token that authenticates.
FileMatches == file \in Tokens /\ ActiveRow(file)

\* A file that is there is used or refused, and never replaced.
UseTokenFile(p) ==
    /\ pc[p] = "token" /\ file # Absent
    /\ \/ FileMatches /\ GoToProc(p, "listen") /\ UNCHANGED <<mine, req, host>>
       \/ Exit(p)
    /\ UNCHANGED <<tableVars, diskVars, histVars, starts>>

\* Without a file, a token is issued first.
IssueToken(p) ==
    /\ pc[p] = "token" /\ file = Absent
    /\ \/ /\ \E t \in Tokens :
                /\ CreateToken(t)
                /\ mine' = [mine EXCEPT ![p] = t]
          /\ GoToProc(p, "open")
          /\ UNCHANGED <<req, host>>
       \/ Exit(p) /\ UNCHANGED tokens
    /\ UNCHANGED <<issued, withdrawn, revocationVars, diskVars, histVars, starts>>

\* Mutant of GiveUp: the issued token is left behind.
ExitOnly(p) == Exit(p) /\ UNCHANGED <<tokens, revocationVars, histVars>>

\* A failing step revokes the token and ends the start.  The error of the
\* revocation is ignored.
GiveUp(p) ==
    /\ \/ RevokeToken(mine[p]) /\ UNCHANGED lost
       \/ UNCHANGED <<tokens, revocationVars>> /\ lost' = lost \cup {mine[p]}
    /\ abandoned' = abandoned \cup {mine[p]}
    /\ Exit(p)

\* O_EXCL: another process may have been faster.
CreateFile ==
    /\ file = Absent
    /\ file' = Empty /\ onDisk' = {Absent, Empty}

\* MkdirAll and OpenFile.
OpenTokenFile(p) ==
    /\ pc[p] = "open"
    /\ \/ /\ CreateFile
          /\ GoToProc(p, "write")
          /\ UNCHANGED <<tokens, revocationVars, mine, req, host, histVars>>
       \/ GiveUp(p) /\ UNCHANGED <<file, onDisk>>
    /\ UNCHANGED <<issued, withdrawn, durable, stored, starts>>

\* A failing write leaves the file as it is.
WriteTokenFile(p) ==
    /\ pc[p] = "write"
    /\ \/ /\ file' = mine[p]
          /\ onDisk' = onDisk \cup {mine[p]}
          /\ GoToProc(p, "sync")
          /\ UNCHANGED <<tokens, revocationVars, mine, req, host, histVars>>
       \/ GiveUp(p) /\ UNCHANGED <<file, onDisk>>
    /\ UNCHANGED <<issued, withdrawn, durable, stored, starts>>

\* Sync and Close: the contents are on disk; the directory is not synced, so
\* its entry may still be missing after a power loss.
SyncTokenFile(p) ==
    /\ pc[p] = "sync"
    /\ \/ /\ onDisk' = {Absent, file}
          /\ GoToProc(p, "listen")
          /\ mine' = [mine EXCEPT ![p] = Nobody]
          /\ UNCHANGED <<tokens, revocationVars, req, host, histVars>>
       \/ GiveUp(p) /\ UNCHANGED onDisk
    /\ UNCHANGED <<issued, withdrawn, durable, file, stored, starts>>

-----------------------------------------------------------------------------
(* runStandalone: first collection and report, then the schedulers.        *)

\* net.Listen lets one process in; the API is served from here on.  Other
\* errors of the set-up end the start as well.
Listen(p) ==
    /\ pc[p] = "listen"
    /\ \/ /\ \A q \in Procs : pc[q] \notin Serving
          /\ GoToProc(p, "initial")
          /\ UNCHANGED <<mine, req, host>>
       \/ Exit(p)
    /\ UNCHANGED <<tableVars, diskVars, histVars, starts>>

\* What a collection leaves: a cancellation makes the CLI calls fail that had
\* not ended by themselves.
Collected(p) ==
    \E outcome \in Outcomes \ {"empty"} :
       /\ outcome = "cut" => cancelled[p]
       /\ agent' = [agent EXCEPT ![p] = outcome]

InitialCollect(p) ==
    /\ pc[p] = "initial"
    /\ Collected(p)
    /\ pc' = [pc EXCEPT ![p] = "persist"]
    /\ UNCHANGED <<authVars, diskVars, mine, cancelled, worker, host, histVars, starts>>

\* Mutant of ReportOnce: the report does not use the cancelled context.
ReportAlways(p) == stored' = agent[p]

\* The report is validated and replaces the stored one; nothing is written
\* under a cancelled context.
ReportOnce(p) == ~cancelled[p] /\ stored' = agent[p]

\* A failing first report ends the process.
InitialReport(p) ==
    /\ pc[p] = "persist"
    /\ \/ ReportOnce(p) /\ GoToProc(p, "run") /\ UNCHANGED <<mine, req, host>>
       \/ Exit(p) /\ UNCHANGED stored
    /\ UNCHANGED <<tableVars, durable, file, onDisk, histVars, starts>>

\* The collection worker of Agent.run takes a request of the ticker ...
WorkerStarts(p) ==
    /\ pc[p] = "run" /\ ~worker[p]
    /\ worker' = [worker EXCEPT ![p] = TRUE]
    /\ UNCHANGED <<authVars, diskVars, pc, mine, cancelled, agent, host, histVars, starts>>

\* ... and ends, if its CLI calls end.
WorkerEnds(p) ==
    /\ worker[p]
    /\ Collected(p)
    /\ worker' = [worker EXCEPT ![p] = FALSE]
    /\ UNCHANGED <<authVars, diskVars, pc, mine, cancelled, host, histVars, starts>>

\* The report timer of the loop, which does not wait for the worker.  It may
\* be chosen once more when the context is already cancelled.
ReportTimer(p) ==
    /\ pc[p] \in {"run"} \cup Stopping
    /\ ReportOnce(p)
    /\ UNCHANGED <<authVars, durable, file, onDisk, procVars, host, histVars, starts>>

\* A signal, a failing API server or a failing agent.  A signal before the
\* handler is installed is a kill.
Interrupt(p) ==
    /\ pc[p] \in Serving /\ ~cancelled[p]
    /\ cancelled' = [cancelled EXCEPT ![p] = TRUE]
    /\ UNCHANGED <<authVars, diskVars, pc, mine, agent, worker, host, histVars, starts>>

\* The select at the end of runStandalone; httpServer.Shutdown closes the
\* port first.
BeginShutdown(p) ==
    /\ pc[p] = "run" /\ cancelled[p]
    /\ GoToProc(p, "shutdown")
    /\ UNCHANGED <<authVars, diskVars, mine, host, histVars, starts>>

\* Shutdown waits for the requests, at most 10 seconds.
EndShutdown(p) ==
    /\ pc[p] = "shutdown"
    /\ GoToProc(p, "drain")
    /\ UNCHANGED <<authVars, diskVars, mine, host, histVars, starts>>

\* Mutant of WaitForAgent: the wait has no limit.
WaitForWorker(p) == ~worker[p]

\* The agent has ended or 10 seconds have passed.
WaitForAgent(p) == TRUE

Stop(p) ==
    /\ pc[p] = "drain"
    /\ WaitForAgent(p)
    /\ Exit(p)
    /\ UNCHANGED <<tableVars, diskVars, histVars, starts>>

-----------------------------------------------------------------------------
(* Faults, requests and the operator.                                      *)

Kill(p) ==
    /\ pc[p] # "down"
    /\ Exit(p)
    /\ lost' = lost \cup ({mine[p]} \ {Nobody})
    /\ UNCHANGED <<tableVars, diskVars, abandoned, starts>>

\* SQLite syncs its log at a checkpoint (PRAGMA synchronous = NORMAL).
Checkpoint ==
    /\ durable # tokens
    /\ durable' = tokens
    /\ unsaved' = {}
    /\ UNCHANGED <<tokens, issued, withdrawn, revoked, undone, req, file, onDisk, stored,
                   procVars, host, histVars, starts>>

\* Power loss: commits since the last checkpoint are gone, revocations among
\* them, and the file is one of those that may be on disk.
PowerLoss ==
    /\ \E p \in Procs : pc[p] # "down"
    /\ EndProcs(Procs)
    /\ tokens' = [t \in Tokens |-> IF durable[t] = "unused" /\ tokens[t] # "unused"
                                    THEN "gone" ELSE durable[t]]
    /\ undone' = undone \cup unsaved /\ unsaved' = {}
    /\ file' \in onDisk /\ onDisk' = {file'}
    /\ lost' = lost \cup ({mine[p] : p \in Procs} \ {Nobody})
                    \cup {t \in Tokens : tokens[t] # durable[t]}
                    \cup (IF file' = file THEN {} ELSE {file} \cap Tokens)
    /\ UNCHANGED <<issued, withdrawn, revoked, durable, stored, abandoned, starts>>

\* Requests are accepted while the API is served, and end also when the
\* process is on its way down.
ServeRequests ==
    /\ \/ \E p \in Procs, r \in Requests, t \in Tokens :
             /\ pc[p] \in Serving
             /\ Arrive(r, t)
             /\ host' = [host EXCEPT ![r] = p]
       \/ \E r \in Requests :
             /\ Serve(r)
             /\ host' = [host EXCEPT ![r] = IF req'[r] = Idle THEN Nobody ELSE @]
    /\ UNCHANGED <<diskVars, procVars, histVars, starts>>

Operator ==
    /\ \E t \in Tokens : TokenCreate(t) \/ TokenRevoke(t)
    /\ UNCHANGED <<diskVars, procVars, host, histVars, starts>>

\* The steps of the main goroutine that end by themselves.
Main(p) ==
    \/ UseTokenFile(p) \/ IssueToken(p)
    \/ OpenTokenFile(p) \/ WriteTokenFile(p) \/ SyncTokenFile(p)
    \/ Listen(p) \/ InitialReport(p)
    \/ BeginShutdown(p) \/ EndShutdown(p) \/ Stop(p)

Next ==
    \/ \E p \in Procs :
          \/ Start(p) \/ Main(p) \/ InitialCollect(p)
          \/ WorkerStarts(p) \/ WorkerEnds(p) \/ ReportTimer(p)
          \/ Interrupt(p) \/ Kill(p)
    \/ Checkpoint \/ PowerLoss \/ ServeRequests \/ Operator

\* The main goroutine goes on.  Nothing is assumed of collections, the first
\* one included: a deadline cancels their context, but cmd.Run and the wait for
\* a child that was killed may outlast it.
Spec ==
    /\ Init /\ [][Next]_vars
    /\ \A p \in Procs : WF_vars(Main(p))

-----------------------------------------------------------------------------
(* Properties.                                                             *)

TypeOK ==
    /\ AuthTypeOK
    /\ durable \in [Tokens -> Statuses]
    /\ file \in Tokens \cup {Absent, Empty}
    /\ onDisk \subseteq Tokens \cup {Absent, Empty}
    /\ stored \in Outcomes \cup {"none"}
    /\ pc \in [Procs -> {"down", "token", "listen"} \cup Creating \cup Serving
                           \cup Stopping]
    /\ mine \in [Procs -> Tokens \cup {Nobody}]
    /\ cancelled \in [Procs -> BOOLEAN] /\ worker \in [Procs -> BOOLEAN]
    /\ agent \in [Procs -> Outcomes]
    /\ host \in [Requests -> Procs \cup {Nobody}]
    /\ starts \in 0..MaxStarts
    /\ lost \subseteq Tokens /\ abandoned \subseteq Tokens

\* A revocation takes effect at once and stays: a request that arrives after
\* it was committed is not served with the token, whichever process serves it
\* and whatever was killed or restarted in between, and after a checkpoint
\* whatever power losses there were.  Exempt are a request that was already
\* under way, and a revocation that a power loss took back before a checkpoint
\* saved it (undone; see RevocationIsFinal) and that was not repeated.
RevokedStaysOut ==
    \A r \in Requests : req[r].pc = "handle" /\ req[r].late => req[r].undone

\* A process that serves displays has a token file with a token that
\* authenticates, unless the operator revoked that token or the start that
\* wrote it failed after another one had read it: not a file another start
\* emptied, and not a pair of file and database that a power loss took apart.
ServesUsableToken ==
    \A p \in Procs :
       pc[p] \in Serving \cup Stopping =>
          /\ file \in Tokens
          /\ tokens[file] = "active" \/ file \in withdrawn \cup abandoned

\* A start that fails leaves no valid token that nobody holds: an active token
\* is in the file, was issued by the operator, is being written, or is left
\* from a kill, a power loss or a revocation that failed.
NoStrayToken ==
    \A t \in Tokens : tokens[t] = "active" =>
       \/ t = file \/ t \in issued \/ t \in lost
       \/ \E p \in Procs : mine[p] = t /\ pc[p] \in Creating

\* The stored snapshot always comes from a collection that was left alone: a
\* start never stores a report without providers, and a shutdown never stores
\* the failures it caused itself.
StoredIsCollected == stored \notin {"empty", "cut"}

\* A process that is asked to stop ends, also when a collection of its worker
\* hangs.  Exempt is a first collection that hangs (see StopsAtOnce): once it is
\* over, a request to stop that came during it is obeyed as well.
StopsWhenAsked ==
    \A p \in Procs :
       (pc[p] \in {"persist", "run"} \cup Stopping /\ cancelled[p]) ~> pc[p] = "down"

\* The same without the exemption: a process that is asked to stop at any
\* moment after it began to serve ends.
StopsAtOnce ==
    \A p \in Procs : (pc[p] \in Serving \cup Stopping /\ cancelled[p]) ~> pc[p] = "down"

\* "Revocation takes effect immediately" (docs/operations.md), also through a
\* power loss: no request that arrives after the revocation is served.
RevocationIsFinal == \A r \in Requests : req[r].pc = "handle" => ~req[r].late

\* What a first start should leave whatever interrupts it: when no process
\* runs, the next start finds no file, a token that authenticates, or one the
\* operator revoked.
CanStartAgain ==
    (\A p \in Procs : pc[p] = "down") =>
       \/ file = Absent
       \/ file \in Tokens /\ (ActiveRow(file) \/ file \in withdrawn)
=============================================================================
