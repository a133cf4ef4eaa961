----------------------------- MODULE ClaudeState -----------------------------
(***************************************************************************)
(* What the agent believes about the Claude account: the polls of the CLI  *)
(* (internal/collector/claude.go), the status lines that Claude sessions   *)
(* push through the hook listener (internal/agent/hookserver.go), and the  *)
(* merge of the two in the agent's provider state (internal/agent/agent.go)*)
(*                                                                         *)
(* ObservedAt is kept as an age, the number of observations made since,    *)
(* because only the order and the distance of observations matter.  UTC()  *)
(* strips the monotonic reading, so a clock that is set back makes what    *)
(* was observed before it look younger, and even negative in age.  A       *)
(* window's reset is kept as the time from the report's observation to it. *)
(* Every window remembers the login it was read under; no code reads that. *)
(***************************************************************************)
EXTENDS ClaudeUsage, FiniteSets

CONSTANTS
    Confirmations,  \* claudeLogoutConfirmations, 2
    MaxAge,         \* bound: older observations are all alike
    MaxFailures,    \* bound: failing CLI calls, wrong answers, restarts and
                    \* steps of the clock
    Paced           \* status lines are delivered in time: see Pace

ASSUME ClaudeStateAssumption ==
    /\ Confirmations \in Nat \ {0} /\ MaxFailures \in Nat
    /\ MaxAge \in Nat /\ MaxAge > Horizon
    /\ Paced \in BOOLEAN

VARIABLES
    account,        \* "in" or "out": the login of the Claude CLI
    failures,       \* how many of them so far
    requests,       \* the buffered collectionRequests channel: 0 or 1
    pc,             \* the collection worker
    answer,         \* output of claude auth status
    reading,        \* the login that /usage reads
    result,         \* the report of the collection in progress
    err,            \* and whether it comes with an error
    consecutiveLoggedOut,
    outs,           \* polls answered "logged out" in a row
    providers,      \* the agent's report of Claude
    lines           \* status lines sent and not yet ingested

claudeVars == <<account, failures, requests, pc, answer, reading, result,
          err, consecutiveLoggedOut, outs, providers, lines>>

polls == <<pc, answer, reading, result, err, consecutiveLoggedOut, outs>>

-----------------------------------------------------------------------------
(* Reports.  A window's tag counts what happened to the login it was read  *)
(* under: 0 is the current login, 1 one that has ended; each poll that     *)
(* rightly answers "logged out" adds 1, and Gone is a login whose end has  *)
(* been answered often enough and stored.                                  *)

Gone == Confirmations + 2
Tags == 0..Gone

Window == [span : Extents, tag : Tags, carried : BOOLEAN, own : BOOLEAN]
NoWindow == [span |-> Missing, tag |-> 0, carried |-> FALSE, own |-> TRUE]
NoWindows == [k \in Kinds |-> NoWindow]

Report == [auth : {"none", "authenticated", "unauthenticated", "unknown"},
           age : (-MaxFailures)..MaxAge, windows : [Kinds -> Window]]

\* No report is stored for the provider.
NoReport == [auth |-> "none", age |-> MaxAge, windows |-> NoWindows]

HasWindows(r) == \E k \in Kinds : r.windows[k] # NoWindow

\* A report observed now.
Observed(auth, windows) == [auth |-> auth, age |-> 0, windows |-> windows]

\* unavailableReport.
Unavailable == Observed("unknown", NoWindows)

\* The same report after another observation.
Aged(r) == [r EXCEPT !.age = IF @ < MaxAge THEN @ + 1 ELSE @]

\* The same report after the clock was set back.
Younger(r) == [r EXCEPT !.age = IF @ < MaxAge THEN @ - 1 ELSE @]

\* An event that moves the given tags on.
MoveOn(w, tags) ==
    IF w # NoWindow /\ w.tag \in tags THEN [w EXCEPT !.tag = @ + 1] ELSE w

\* The same report after such an event.
Retag(r, tags) ==
    [r EXCEPT !.windows = [k \in Kinds |-> MoveOn(r.windows[k], tags)]]

RetagLines(tags) == {[l EXCEPT !.report = Retag(@, tags)] : l \in lines}

Tagged(usage, tag) ==
    [k \in Kinds |->
       IF usage[k].span = Missing THEN NoWindow
       ELSE [span |-> usage[k].span, tag |-> tag, carried |-> FALSE,
             own |-> usage[k].own]]

\* parseClaudeRateLimits: each window is there or not, always with a reset;
\* none at all is an error.
RateLimits ==
    {u \in [Kinds -> [span : {Missing} \cup Spans, own : {TRUE}]] :
       \E k \in Kinds : u[k].span # Missing}

-----------------------------------------------------------------------------
(* MergeProviderReports.                                                   *)

\* The window as seen from an observation that was made `later` afterwards.
Carry(w, later) ==
    [w EXCEPT !.span = IF @ = NoReset THEN NoReset ELSE @ - later,
              !.carried = TRUE]

\* Mutant of reusableWindow: a window is carried whatever its reset.
carriedWindow(w, later) == w # NoWindow

reusableWindow(w, later) ==
    /\ w # NoWindow
    /\ w.span = NoReset \/ w.span > later

\* Mutant of Forgets: the windows of a logged-out report are filled in too.
ForgetsNothing(r) == FALSE

\* An explicit logout is authoritative.
Forgets(r) == r.auth = "unauthenticated"

MergeProviderReports(a, b) ==
    LET newer == IF b.age < a.age THEN b ELSE a
        older == IF b.age < a.age THEN a ELSE b
        later == older.age - newer.age
        Fill(k) == IF /\ newer.windows[k] = NoWindow
                      /\ reusableWindow(older.windows[k], later)
                   THEN Carry(older.windows[k], later)
                   ELSE newer.windows[k]
    IN  [newer EXCEPT !.windows = IF Forgets(newer) THEN NoWindows
                                  ELSE [k \in Kinds |-> Fill(k)]]

-----------------------------------------------------------------------------
ClaudeInit ==
    /\ account \in {"in", "out"}
    /\ failures = 0
    /\ requests = 1
    /\ pc = "idle" /\ answer = "garbled" /\ reading = 0
    /\ result = NoReport /\ err = FALSE
    /\ consecutiveLoggedOut = 0 /\ outs = 0
    /\ providers = NoReport
    /\ lines = {}

(* The environment.                                                        *)

\* The pace at which LogoutForgets is checked: a status line is delivered or
\* given up before the second poll after it begins (5 s against a collection
\* interval of 60 s by default).
Pace == Paced => \A l \in lines : ~l.old

\* RateLimits are those of the login at the time they are read.
LogOut ==
    /\ account = "in"
    /\ account' = "out"
    /\ reading' = IF reading = 0 THEN 1 ELSE reading
    /\ result' = Retag(result, {0})
    /\ providers' = Retag(providers, {0})
    /\ lines' = RetagLines({0})
    /\ UNCHANGED <<failures, requests, pc, answer, err, consecutiveLoggedOut, outs>>

LogIn ==
    /\ account = "out"
    /\ account' = "in"
    /\ UNCHANGED <<failures, requests, polls, providers, lines>>

\* A call that goes wrong uses up a failure; one that does not is free.
Charge(wrong) ==
    /\ wrong => failures < MaxFailures
    /\ failures' = IF wrong THEN failures + 1 ELSE failures

\* The wall clock of the host is set back.
ClockSetBack ==
    /\ Charge(TRUE)
    /\ result' = Younger(result)
    /\ providers' = Younger(providers)
    /\ lines' = {[l EXCEPT !.report = Younger(@)] : l \in lines}
    /\ UNCHANGED <<account, requests, pc, answer, reading, err,
                   consecutiveLoggedOut, outs>>

-----------------------------------------------------------------------------
(* The collection worker: one poll at a time.                              *)

\* The collection ticker; a second tick is absorbed by the channel.
CollectTick ==
    /\ requests' = 1
    /\ UNCHANGED <<account, failures, polls, providers, lines>>

\* The worker takes a request and runs claude auth status, which may answer
\* wrongly or not at all.
StartCollect ==
    /\ pc = "idle" /\ requests = 1
    /\ Pace
    /\ requests' = 0
    /\ pc' = "auth"
    /\ \E said \in {"in", "out", "garbled", "failed"} :
          /\ said = "in" => account = "in"
          /\ Charge(said # account)
          /\ answer' = said
          /\ outs' = IF said # "out" THEN 0
                     ELSE IF outs < Confirmations THEN outs + 1 ELSE outs
          /\ LET tags == IF said = "out" /\ account = "out"
                         THEN 1..Confirmations ELSE {}
             IN  /\ providers' = Retag(providers, tags)
                 /\ lines' = {[l EXCEPT !.old = TRUE] : l \in RetagLines(tags)}
    /\ UNCHANGED <<account, reading, result, err, consecutiveLoggedOut>>

\* A new observation is made; all the others grow older by it.
Observe(r) ==
    /\ result' = r
    /\ providers' = Aged(providers)
    /\ lines' = {[l EXCEPT !.report = Aged(@)] : l \in lines}

\* Mutant of resetLogoutConfirmation: only a logged-in answer resets.
resetWhenLoggedIn ==
    consecutiveLoggedOut' = IF answer = "in" THEN 0 ELSE consecutiveLoggedOut

resetLogoutConfirmation == consecutiveLoggedOut' = 0

\* confirmLoggedOut, saturating: the code only asks whether it is enough.
confirmLoggedOut ==
    consecutiveLoggedOut' = IF consecutiveLoggedOut < Confirmations
                            THEN consecutiveLoggedOut + 1
                            ELSE consecutiveLoggedOut

\* An answer that does not parse, or that says logged in with an exit error.
AuthFailed ==
    /\ pc = "auth" /\ answer \in {"garbled", "failed"}
    /\ resetLogoutConfirmation
    /\ Observe(Unavailable) /\ err' = TRUE
    /\ pc' = "store"
    /\ UNCHANGED <<account, failures, requests, answer, reading, outs>>

\* Logged out: believed only after enough polls in a row.
AuthLoggedOut ==
    /\ pc = "auth" /\ answer = "out"
    /\ confirmLoggedOut
    /\ IF consecutiveLoggedOut' >= Confirmations
       THEN Observe(Observed("unauthenticated", NoWindows)) /\ err' = FALSE
       ELSE Observe(Unavailable) /\ err' = TRUE
    /\ pc' = "store"
    /\ UNCHANGED <<account, failures, requests, answer, reading, outs>>

\* Logged in: /usage is run, and reads the login there is by then.
AuthLoggedIn ==
    /\ pc = "auth" /\ answer = "in"
    /\ resetLogoutConfirmation
    /\ Observe(Observed("authenticated", NoWindows)) /\ err' = TRUE
    /\ reading' = IF account = "in" THEN 0 ELSE 1
    /\ pc' = "usage"
    /\ UNCHANGED <<account, failures, requests, answer, outs>>

\* ParseClaudeUsage finds rate limits or the text form.
UsageParsed ==
    /\ pc = "usage"
    /\ \E usage \in RateLimits \cup UsageResults :
          Observe(Observed("authenticated", Tagged(usage, reading)))
    /\ err' = FALSE
    /\ pc' = "store"
    /\ UNCHANGED <<account, failures, requests, answer, reading,
                   consecutiveLoggedOut, outs>>

\* /usage fails or has no windows: the report of the auth status is returned
\* with an error.
UsageFailed ==
    /\ pc = "usage"
    /\ Charge(reading = 0)
    /\ pc' = "store"
    /\ UNCHANGED <<account, requests, answer, reading, result, err,
                   consecutiveLoggedOut, outs, providers, lines>>

\* Mutant of Stored: any result without windows counts as a failure.
StoredIfWindows ==
    IF HasWindows(providers) /\ ~HasWindows(result) THEN providers
    ELSE IF providers = NoReport THEN result
    ELSE MergeProviderReports(providers, result)

\* What storeCollectionResult leaves for the provider.  An error keeps a
\* report that has windows.
Stored ==
    IF err THEN IF HasWindows(providers) THEN providers ELSE result
    ELSE IF providers = NoReport THEN result
    ELSE MergeProviderReports(providers, result)

\* Storing a confirmed logout settles the logins it is about.
StoreCollectionResult ==
    /\ pc = "store"
    /\ IF ~err /\ Stored.auth = "unauthenticated"
       THEN /\ providers' = Retag(Stored, {Confirmations + 1})
            /\ lines' = RetagLines({Confirmations + 1})
       ELSE providers' = Stored /\ UNCHANGED lines
    /\ pc' = "idle" /\ result' = NoReport /\ err' = FALSE
    /\ answer' = "garbled" /\ reading' = 0
    /\ UNCHANGED <<account, failures, requests, consecutiveLoggedOut, outs>>

-----------------------------------------------------------------------------
(* Status lines.                                                           *)

\* A session renders its status line with the limits of its login; the
\* forwarder posts it.
StatusLine ==
    /\ account = "in" /\ lines = {}
    /\ \E usage \in RateLimits :
          lines' = {[stamped |-> FALSE, old |-> FALSE,
                     report |-> [auth |-> "authenticated", age |-> MaxAge,
                                 windows |-> Tagged(usage, 0)]]}
    /\ UNCHANGED <<account, failures, requests, polls, providers>>

\* The forwarder times out, or the handler refuses the request.
DropStatusLine(l) ==
    /\ ~l.stamped
    /\ lines' = lines \ {l}
    /\ UNCHANGED <<account, failures, requests, polls, providers>>

\* The handler reads the body and stamps it with the time of the receipt.
ReceiveStatusLine(l) ==
    /\ ~l.stamped
    /\ lines' = {[l EXCEPT !.stamped = TRUE, !.report.age = 0]}
                  \cup {[m EXCEPT !.report = Aged(@)] : m \in lines \ {l}}
    /\ result' = Aged(result)
    /\ providers' = Aged(providers)
    /\ UNCHANGED <<account, failures, requests, pc, answer, reading, err,
                   consecutiveLoggedOut, outs>>

\* IngestStatusLine, under the agent's lock.
IngestStatusLine(l) ==
    /\ l.stamped
    /\ providers' = IF providers = NoReport THEN l.report
                    ELSE MergeProviderReports(providers, l.report)
    /\ lines' = lines \ {l}
    /\ UNCHANGED <<account, failures, requests, polls>>

\* The process restarts: provider state and the count of answers are memory.
AgentRestarts ==
    /\ Charge(TRUE)
    /\ requests' = 1
    /\ pc' = "idle" /\ answer' = "garbled" /\ reading' = 0
    /\ result' = NoReport /\ err' = FALSE
    /\ consecutiveLoggedOut' = 0 /\ outs' = 0
    /\ providers' = NoReport
    /\ lines' = {}
    /\ UNCHANGED account

Collect == AuthFailed \/ AuthLoggedOut \/ AuthLoggedIn \/ UsageParsed \/ UsageFailed

ClaudeNext ==
    \/ LogOut \/ LogIn \/ ClockSetBack \/ AgentRestarts
    \/ CollectTick \/ StartCollect \/ Collect \/ StoreCollectionResult
    \/ StatusLine
    \/ \E l \in lines :
          DropStatusLine(l) \/ ReceiveStatusLine(l) \/ IngestStatusLine(l)

\* The ticker fires, the worker runs and its CLI calls are assumed to end, and
\* status lines are delivered or dropped.
ClaudeSpec ==
    /\ ClaudeInit /\ [][ClaudeNext]_claudeVars
    /\ WF_claudeVars(CollectTick) /\ WF_claudeVars(StartCollect) /\ WF_claudeVars(Collect)
    /\ WF_claudeVars(StoreCollectionResult)
    /\ WF_claudeVars(\E l \in lines : DropStatusLine(l) \/ ReceiveStatusLine(l)
                                \/ IngestStatusLine(l))

-----------------------------------------------------------------------------
(* Properties.                                                             *)

ClaudeTypeOK ==
    /\ account \in {"in", "out"}
    /\ failures \in 0..MaxFailures /\ requests \in 0..1
    /\ pc \in {"idle", "auth", "usage", "store"}
    /\ answer \in {"in", "out", "garbled", "failed"} /\ reading \in Tags
    /\ result \in Report /\ err \in BOOLEAN
    /\ consecutiveLoggedOut \in 0..Confirmations /\ outs \in 0..Confirmations
    /\ providers \in Report
    /\ \A l \in lines : l.report \in Report

\* Once a logout has been confirmed and stored, no window read under that
\* login comes back: not from the merge, not from a status line that was
\* under way, not from the state that a failing poll retains.
LogoutForgets == \A k \in Kinds : providers.windows[k].tag # Gone

\* Quota that is filled in from an older observation had not been reset when
\* the newer one was made.
NoExpiredCarried ==
    \A k \in Kinds :
       LET w == providers.windows[k] IN w.carried => w.span > 0

\* The percentage and the reset shown for a window stand in that window's own
\* section of the /usage text; a model-specific week never becomes the week.
ShownFromOwnSection == \A k \in Kinds : providers.windows[k].own

\* A login is given up only when the CLI has said "logged out" in enough
\* polls in a row, whatever came in between.
LogoutIsConfirmed ==
    [][ (providers'.auth = "unauthenticated" /\ providers.auth # "unauthenticated")
          => outs = Confirmations ]_claudeVars

LogoutShown ==
    <>[](account = "out") => <>[](providers.auth = "unauthenticated")

LoginRecovers ==
    <>[](account = "in") =>
       <>[](/\ providers.auth = "authenticated"
            /\ \E k \in Kinds : /\ providers.windows[k] # NoWindow
                                /\ providers.windows[k].tag = 0)

\* Whatever happened before, the state follows the account once the CLI calls
\* stop failing: a login brings quota without a restart, a logout removes it.
StateFollowsAccount == LogoutShown /\ LoginRecovers
=============================================================================
