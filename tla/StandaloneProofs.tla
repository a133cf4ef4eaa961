-------------------------- MODULE StandaloneProofs --------------------------
(***************************************************************************)
(* Theorems about the token file, the requests and the stored report of    *)
(* standalone mode, for any number of processes, tokens, requests and      *)
(* starts.                                                                 *)
(*                                                                         *)
(* None of the four properties is inductive.  Four facts carry them: a     *)
(* revocation that no power loss took back is in the table, and one that   *)
(* was checkpointed is also on disk; a request that is under way belongs   *)
(* to a process, so that a power loss ends it; at most one process is      *)
(* between creating the token file and syncing it, because O_EXCL needs a  *)
(* file that is absent; and a report that was cut short belongs to a       *)
(* process whose context is cancelled, which stores nothing.               *)
(***************************************************************************)
EXTENDS Standalone, TLAPS

\* A revocation that no power loss took back is in the table; one that was
\* checkpointed will still be there after the next power loss.
RevokedInv ==
    \A t \in revoked \ undone :
       /\ tokens[t] = "revoked"
       /\ t \notin unsaved => durable[t] = "revoked"

\* A request is served by a process; one that came after a revocation is stuck
\* at the lookup, because its token is revoked and stays so.
RequestInv ==
    \A r \in Requests :
       req[r].pc # "idle" =>
          /\ host[r] \in Procs
          /\ req[r].token \in Tokens
          /\ req[r].late /\ ~req[r].undone =>
                req[r].pc = "lookup" /\ tokens[req[r].token] = "revoked"

\* Where a report may come from.
ProviderInv ==
    /\ \A p \in Procs :
          /\ agent[p] = "cut" => cancelled[p]
          /\ agent[p] = "empty" => pc[p] \notin {"persist", "run"} \cup Stopping
    /\ StoredIsCollected

\* A token that was issued authenticates until somebody revokes it.
Valid(t) == t \in Tokens /\ (tokens[t] = "active" \/ t \in withdrawn \cup abandoned)

Writing == {"write", "sync"}

\* The file as the start that creates it has left it; there is one such start
\* at most.
FileInv ==
    /\ \A p \in Procs : /\ pc[p] \in Creating =>
                              Valid(mine[p]) /\ tokens[mine[p]] \in {"active", "revoked"}
                        /\ pc[p] = "write" => file = Empty
                        /\ pc[p] = "sync" => file = mine[p]
    /\ \A p, q \in Procs : pc[p] \in Writing /\ pc[q] \in Writing => p = q

\* Every process that has got past the token file has a good one.
ReadyInv ==
    \A p \in Procs : pc[p] \in {"listen"} \cup Serving \cup Stopping => Valid(file)

TokenInv == FileInv /\ ReadyInv /\ NoStrayToken

IInv == TypeOK /\ RevokedInv /\ RequestInv /\ ProviderInv /\ TokenInv
-----------------------------------------------------------------------------
(* Type correctness.                                                       *)

\* Processes that end leave states of the right shape.
LEMMA EndProcsType ==
    ASSUME TypeOK, NEW P, EndProcs(P)
    PROVE  /\ pc' \in [Procs -> {"down", "token", "listen"} \cup Creating
                                 \cup Serving \cup Stopping]
           /\ mine' \in [Procs -> Tokens \cup {Nobody}]
           /\ cancelled' \in [Procs -> BOOLEAN]
           /\ agent' \in [Procs -> Outcomes]
           /\ worker' \in [Procs -> BOOLEAN]
           /\ host' \in [Requests -> Procs \cup {Nobody}]
           /\ req' \in [Requests -> Request]
<1>1. Idle \in Request
  BY DEF Idle, Request
<1>2. /\ pc' \in [Procs -> {"down", "token", "listen"} \cup Creating
                            \cup Serving \cup Stopping]
      /\ mine' \in [Procs -> Tokens \cup {Nobody}]
  BY DEF EndProcs, TypeOK
<1>3. agent' \in [Procs -> Outcomes]
  BY DEF EndProcs, TypeOK, Outcomes
<1>4. cancelled' \in [Procs -> BOOLEAN] /\ worker' \in [Procs -> BOOLEAN]
  BY DEF EndProcs, TypeOK
<1>5. /\ host' \in [Requests -> Procs \cup {Nobody}]
      /\ req' \in [Requests -> Request]
  BY <1>1 DEF EndProcs, TypeOK, AuthTypeOK
<1> QED
  BY <1>2, <1>3, <1>4, <1>5

\* A start that gives up records the token it leaves.
LEMMA GiveUpType ==
    ASSUME TypeOK, NEW p \in Procs, mine[p] \in Tokens, GiveUp(p)
    PROVE  /\ tokens' \in [Tokens -> Statuses]
           /\ revoked' \subseteq Tokens /\ unsaved' \subseteq Tokens
           /\ undone' \subseteq Tokens
           /\ lost' \subseteq Tokens /\ abandoned' \subseteq Tokens
<1>1. tokens' \in [Tokens -> Statuses]
  BY DEF GiveUp, RevokeToken, TypeOK, AuthTypeOK, Statuses
<1>2. /\ revoked' \subseteq Tokens /\ unsaved' \subseteq Tokens
      /\ undone' \subseteq Tokens
  BY DEF GiveUp, RevokeToken, TypeOK, AuthTypeOK, revocationVars
<1> QED
  BY <1>1, <1>2 DEF GiveUp, TypeOK

\* A request that arrives is one, whatever had become of its token.
LEMMA RequestArrives ==
    ASSUME NEW t \in Tokens
    PROVE  [pc |-> "lookup", token |-> t, late |-> t \in revoked,
            undone |-> t \in undone] \in Request
<1>1. (t \in revoked) \in BOOLEAN /\ (t \in undone) \in BOOLEAN
  OBVIOUS
<1>2. ASSUME NEW b \in BOOLEAN, NEW c \in BOOLEAN
      PROVE  [pc |-> "lookup", token |-> t, late |-> b, undone |-> c] \in Request
  BY DEF Request
<1> QED
  BY <1>1, <1>2

\* Every step leaves the variables with the shape of what they stand for.
LEMMA TypeNext ==
    ASSUME TypeOK, FileInv, [Next]_vars
    PROVE  TypeOK'
<1> USE StandaloneAssumption DEF TypeOK, AuthTypeOK, authVars, tableVars, revocationVars,
        procVars, diskVars, histVars
<1>1. ASSUME NEW p \in Procs, Start(p)
      PROVE  TypeOK'
  <2>1. starts' \in 0..MaxStarts
    <3>1. starts \in 0..MaxStarts /\ starts < MaxStarts /\ starts' = starts + 1
      BY <1>1 DEF Start
    <3>2. MaxStarts \in Nat
      OBVIOUS
    <3> HIDE StandaloneAssumption DEF TypeOK, AuthTypeOK
    <3> QED
      BY <3>1, <3>2
  <2> QED
    BY <1>1, <2>1 DEF Start, GoToProc
<1>2. ASSUME NEW p \in Procs, UseTokenFile(p)
      PROVE  TypeOK'
  BY <1>2, EndProcsType DEF UseTokenFile, Exit, GoToProc
<1>3. ASSUME NEW p \in Procs, IssueToken(p)
      PROVE  TypeOK'
  <2>1. CASE Exit(p) /\ UNCHANGED tokens
    BY <1>3, <2>1, EndProcsType DEF IssueToken, Exit
  <2>2. CASE \E t \in Tokens : CreateToken(t) /\ mine' = [mine EXCEPT ![p] = t]
    <3>1. /\ tokens' \in [Tokens -> Statuses]
          /\ mine' \in [Procs -> Tokens \cup {Nobody}]
      <4>1. PICK t \in Tokens : CreateToken(t) /\ mine' = [mine EXCEPT ![p] = t]
        BY <2>2
      <4> QED
        BY <4>1 DEF CreateToken, Statuses
    <3>2. CASE GoToProc(p, "open") /\ UNCHANGED <<req, host>>
      BY <1>3, <3>1, <3>2 DEF IssueToken, GoToProc, Creating
    <3> QED
      BY <1>3, <2>1, <3>2 DEF IssueToken
  <2> QED
    BY <1>3, <2>1, <2>2 DEF IssueToken
<1>4. ASSUME NEW p \in Procs, OpenTokenFile(p)
      PROVE  TypeOK'
  BY <1>4, EndProcsType, GiveUpType
     DEF OpenTokenFile, CreateFile, GiveUp, Exit, GoToProc, Creating, FileInv, Valid
<1>5. ASSUME NEW p \in Procs, WriteTokenFile(p)
      PROVE  TypeOK'
  <2>1. CASE GiveUp(p) /\ UNCHANGED <<file, onDisk>>
    BY <1>5, <2>1, EndProcsType, GiveUpType
       DEF WriteTokenFile, GiveUp, Exit, Creating, FileInv, Valid
  <2>2. CASE /\ file' = mine[p] /\ onDisk' = onDisk \cup {mine[p]}
             /\ GoToProc(p, "sync")
             /\ UNCHANGED <<tokens, revocationVars, mine, req, host, histVars>>
    <3>1. mine[p] \in Tokens
      BY <1>5 DEF WriteTokenFile, Creating, FileInv, Valid
    <3>2. file' \in Tokens /\ onDisk' \subseteq Tokens \cup {Absent, Empty}
      BY <2>2, <3>1
    <3> QED
      BY <1>5, <2>2, <3>2 DEF WriteTokenFile, GoToProc, Creating
  <2> QED
    BY <1>5, <2>1, <2>2 DEF WriteTokenFile
<1>6. ASSUME NEW p \in Procs, SyncTokenFile(p)
      PROVE  TypeOK'
  BY <1>6, EndProcsType, GiveUpType
     DEF SyncTokenFile, GiveUp, Exit, GoToProc, Creating, FileInv, Valid
<1>7. ASSUME NEW p \in Procs, Listen(p)
      PROVE  TypeOK'
  BY <1>7, EndProcsType DEF Listen, Exit, GoToProc, Serving
<1>8. ASSUME NEW p \in Procs, InitialCollect(p)
      PROVE  TypeOK'
  <2>1. agent' \in [Procs -> Outcomes]
    BY <1>8 DEF InitialCollect, Collected
  <2> QED
    BY <1>8, <2>1 DEF InitialCollect, Serving
<1>9. ASSUME NEW p \in Procs, InitialReport(p)
      PROVE  TypeOK'
  <2>1. CASE ReportOnce(p) /\ GoToProc(p, "run") /\ UNCHANGED <<mine, req, host>>
    <3>1. stored' \in Outcomes \cup {"none"}
      BY <2>1 DEF ReportOnce
    <3> QED
      BY <1>9, <2>1, <3>1 DEF InitialReport, GoToProc, Serving
  <2>2. CASE Exit(p) /\ UNCHANGED stored
    BY <1>9, <2>2, EndProcsType DEF InitialReport, Exit
  <2> QED
    BY <1>9, <2>1, <2>2 DEF InitialReport
<1>10. ASSUME NEW p \in Procs, BeginShutdown(p) \/ EndShutdown(p)
       PROVE  TypeOK'
  BY <1>10 DEF BeginShutdown, EndShutdown, GoToProc, Stopping
<1>11. ASSUME NEW p \in Procs, Stop(p)
       PROVE  TypeOK'
  BY <1>11, EndProcsType DEF Stop, Exit
<1>12. ASSUME NEW p \in Procs, WorkerStarts(p) \/ Interrupt(p)
       PROVE  TypeOK'
  BY <1>12 DEF WorkerStarts, Interrupt
<1>13. ASSUME NEW p \in Procs, WorkerEnds(p)
       PROVE  TypeOK'
  <2>1. agent' \in [Procs -> Outcomes]
    BY <1>13 DEF WorkerEnds, Collected
  <2> QED
    BY <1>13, <2>1 DEF WorkerEnds
<1>14. ASSUME NEW p \in Procs, ReportTimer(p)
       PROVE  TypeOK'
  BY <1>14 DEF ReportTimer, ReportOnce
<1>15. ASSUME NEW p \in Procs, Kill(p)
       PROVE  TypeOK'
  BY <1>15, EndProcsType DEF Kill, Exit
<1>16. CASE Checkpoint
  BY <1>16 DEF Checkpoint
<1>17. CASE PowerLoss
  <2>1. /\ file' \in Tokens \cup {Absent, Empty}
        /\ onDisk' \subseteq Tokens \cup {Absent, Empty}
    BY <1>17 DEF PowerLoss
  <2>3. tokens' \in [Tokens -> Statuses]
    BY <1>17 DEF PowerLoss, Statuses
  <2>2. lost' \subseteq Tokens
    <3>1. lost' = lost \cup ({mine[p] : p \in Procs} \ {Nobody})
                       \cup {t \in Tokens : tokens[t] # durable[t]}
                       \cup (IF file' = file THEN {} ELSE {file} \cap Tokens)
      BY <1>17 DEF PowerLoss
    <3>2. lost \subseteq Tokens /\ \A p \in Procs : mine[p] \in Tokens \cup {Nobody}
      OBVIOUS
    <3> HIDE StandaloneAssumption DEF TypeOK, AuthTypeOK
    <3> QED
      BY <3>1, <3>2
  <2> QED
    BY <1>17, <2>1, <2>2, <2>3, EndProcsType DEF PowerLoss
<1>18. CASE ServeRequests
  <2>1. Idle \in Request
    BY DEF Idle, Request
  <2>2. ASSUME NEW p \in Procs, NEW r \in Requests, NEW t \in Tokens, Arrive(r, t),
               host' = [host EXCEPT ![r] = p]
        PROVE  TypeOK'
    <3>1. [pc |-> "lookup", token |-> t, late |-> t \in revoked,
           undone |-> t \in undone] \in Request
      BY RequestArrives
    <3> QED
      BY <1>18, <2>2, <3>1 DEF ServeRequests, Arrive
  <2>3. ASSUME NEW r \in Requests, Serve(r),
               host' = [host EXCEPT ![r] = IF req'[r] = Idle THEN Nobody ELSE @]
        PROVE  TypeOK'
    <3>1. host' \in [Requests -> Procs \cup {Nobody}]
      BY <2>3
    <3>2. CASE Answer(r)
      BY <1>18, <2>1, <2>3, <3>1, <3>2
         DEF ServeRequests, Serve, Lookup, Touch, Handle, Answer
    <3>3. ASSUME NEW l \in {"touch", "handle"}, GoTo(r, l)
          PROVE  TypeOK'
      <4>1. req' \in [Requests -> Request]
        <5>1. [req[r] EXCEPT !.pc = l] \in Request
          <6>1. req[r] \in Request
            OBVIOUS
          <6> HIDE StandaloneAssumption DEF TypeOK, AuthTypeOK
          <6> QED
            BY <6>1 DEF Request
        <5>2. req' = [req EXCEPT ![r] = [req[r] EXCEPT !.pc = l]]
          BY <3>3 DEF GoTo
        <5> QED
          BY <5>1, <5>2
      <4> QED
        BY <1>18, <2>3, <3>1, <4>1 DEF ServeRequests, Serve, Lookup, Touch, Handle
    <3> QED
      BY <2>3, <3>2, <3>3 DEF Serve, Lookup, Touch, Handle
  <2> QED
    BY <1>18, <2>2, <2>3 DEF ServeRequests
<1>19. CASE Operator
  <2>1. ASSUME NEW t \in Tokens, TokenCreate(t)
        PROVE  TypeOK'
    BY <1>19, <2>1 DEF Operator, TokenCreate, CreateToken, Statuses
  <2>2. ASSUME NEW t \in Tokens, TokenRevoke(t)
        PROVE  TypeOK'
    BY <1>19, <2>2 DEF Operator, TokenRevoke, RevokeToken, Statuses
  <2> QED
    BY <1>19, <2>1, <2>2 DEF Operator
<1>20. CASE UNCHANGED vars
  BY <1>20 DEF vars
<1> QED
  BY <1>1, <1>2, <1>3, <1>4, <1>5, <1>6, <1>7, <1>8, <1>9, <1>10, <1>11, <1>12,
     <1>13, <1>14, <1>15, <1>16, <1>17, <1>18, <1>19, <1>20 DEF Next, Main

-----------------------------------------------------------------------------
(* Requests.                                                               *)

\* A revocation is undone by nothing but a power loss.
RevokedStay == \A t \in Tokens : tokens[t] = "revoked" => tokens'[t] = "revoked"

\* What a step does to the revocations.
LEMMA RevocationSteps ==
    ASSUME TypeOK, FileInv, [Next]_vars
    PROVE  \/ UNCHANGED <<tokens, durable, revocationVars>>
           \/ /\ \E t \in Tokens : CreateToken(t) /\ UNCHANGED revocationVars
              /\ UNCHANGED durable
           \/ /\ \E t \in Tokens : RevokeToken(t)
              /\ UNCHANGED durable
           \/ Checkpoint \/ PowerLoss
<1> USE DEF authVars, tableVars, diskVars
<1>1. ASSUME NEW p \in Procs,
             \/ Start(p) \/ UseTokenFile(p) \/ Listen(p) \/ InitialCollect(p)
             \/ InitialReport(p) \/ BeginShutdown(p) \/ EndShutdown(p) \/ Stop(p)
             \/ WorkerStarts(p) \/ WorkerEnds(p) \/ ReportTimer(p) \/ Interrupt(p)
             \/ Kill(p)
      PROVE  UNCHANGED <<tokens, durable, revocationVars>>
  BY <1>1 DEF Start, UseTokenFile, Listen, InitialCollect, InitialReport,
     BeginShutdown, EndShutdown, Stop, WorkerStarts, WorkerEnds, ReportTimer,
     Interrupt, Kill
<1>2. ASSUME NEW p \in Procs, IssueToken(p)
      PROVE  /\ UNCHANGED <<durable, revocationVars>>
             /\ UNCHANGED tokens \/ \E t \in Tokens : CreateToken(t)
  BY <1>2 DEF IssueToken
<1>3. ASSUME NEW p \in Procs,
             OpenTokenFile(p) \/ WriteTokenFile(p) \/ SyncTokenFile(p)
      PROVE  /\ UNCHANGED durable
             /\ \/ UNCHANGED <<tokens, revocationVars>>
                \/ \E t \in Tokens : RevokeToken(t)
  <2>1. mine[p] \in Tokens
    BY <1>3 DEF OpenTokenFile, WriteTokenFile, SyncTokenFile, FileInv, Creating, Valid
  <2>2. UNCHANGED <<tokens, revocationVars>> \/ GiveUp(p)
    BY <1>3 DEF OpenTokenFile, WriteTokenFile, SyncTokenFile
  <2>3. UNCHANGED durable
    BY <1>3 DEF OpenTokenFile, WriteTokenFile, SyncTokenFile
  <2> QED
    BY <2>1, <2>2, <2>3 DEF GiveUp
<1>4. CASE Operator
  BY <1>4 DEF Operator, TokenCreate, TokenRevoke
<1>5. CASE ServeRequests \/ UNCHANGED vars
  BY <1>5 DEF ServeRequests, Arrive, Serve, Lookup, Touch, Handle, vars
<1> QED
  BY <1>1, <1>2, <1>3, <1>4, <1>5 DEF Next, Main

\* A revocation stays in the table, and once saved it survives power losses.
LEMMA RevokedNext ==
    ASSUME TypeOK, FileInv, RevokedInv, [Next]_vars
    PROVE  RevokedInv'
<1> USE DEF RevokedInv, revocationVars
<1>1. CASE UNCHANGED <<tokens, durable, revocationVars>>
  BY <1>1
<1>2. ASSUME NEW t \in Tokens, CreateToken(t), UNCHANGED <<durable, revocationVars>>
      PROVE  RevokedInv'
  BY <1>2 DEF CreateToken, TypeOK, AuthTypeOK
<1>3. ASSUME NEW t \in Tokens, RevokeToken(t), UNCHANGED durable
      PROVE  RevokedInv'
  BY <1>3 DEF RevokeToken, TypeOK, AuthTypeOK
<1>4. CASE Checkpoint
  BY <1>4 DEF Checkpoint
<1>5. CASE PowerLoss
  BY <1>5 DEF PowerLoss, TypeOK, AuthTypeOK
<1> QED
  BY <1>1, <1>2, <1>3, <1>4, <1>5, RevocationSteps

\* What a step does to the requests.
LEMMA RequestSteps ==
    ASSUME TypeOK, FileInv, [Next]_vars
    PROVE  \/ PowerLoss
           \/ ServeRequests
           \/ RevokedStay /\ UNCHANGED <<req, host>>
           \/ RevokedStay /\ \E p \in Procs : Exit(p)
<1> USE DEF RevokedStay, authVars, tableVars, diskVars, histVars
<1>1. ASSUME NEW p \in Procs,
             \/ Start(p) \/ UseTokenFile(p) \/ Listen(p) \/ InitialCollect(p)
             \/ InitialReport(p) \/ BeginShutdown(p) \/ EndShutdown(p) \/ Stop(p)
             \/ WorkerStarts(p) \/ WorkerEnds(p) \/ ReportTimer(p) \/ Interrupt(p)
             \/ Kill(p)
      PROVE  \/ RevokedStay /\ UNCHANGED <<req, host>>
             \/ RevokedStay /\ Exit(p)
  <2>1. UNCHANGED tokens
    BY <1>1 DEF Start, UseTokenFile, Listen, InitialCollect, InitialReport,
       BeginShutdown, EndShutdown, Stop, WorkerStarts, WorkerEnds, ReportTimer,
       Interrupt, Kill
  <2>2. UNCHANGED <<req, host>> \/ Exit(p)
    BY <1>1 DEF Start, UseTokenFile, Listen, InitialCollect, InitialReport,
       BeginShutdown, EndShutdown, Stop, WorkerStarts, WorkerEnds, ReportTimer,
       Interrupt, Kill
  <2> QED
    BY <2>1, <2>2
<1>2. ASSUME NEW p \in Procs, IssueToken(p)
      PROVE  \/ RevokedStay /\ UNCHANGED <<req, host>>
             \/ RevokedStay /\ Exit(p)
  <2>1. RevokedStay
    BY <1>2 DEF IssueToken, CreateToken, TypeOK, AuthTypeOK
  <2>2. UNCHANGED <<req, host>> \/ Exit(p)
    BY <1>2 DEF IssueToken
  <2> QED
    BY <2>1, <2>2
<1>3. ASSUME NEW p \in Procs,
             OpenTokenFile(p) \/ WriteTokenFile(p) \/ SyncTokenFile(p)
      PROVE  \/ RevokedStay /\ UNCHANGED <<req, host>>
             \/ RevokedStay /\ Exit(p)
  <2>1. UNCHANGED <<tokens, req, host>> \/ GiveUp(p)
    BY <1>3 DEF OpenTokenFile, WriteTokenFile, SyncTokenFile
  <2>2. GiveUp(p) => RevokedStay /\ Exit(p)
    BY DEF GiveUp, RevokeToken, TypeOK, AuthTypeOK
  <2> QED
    BY <2>1, <2>2
<1>4. CASE Operator
  <2>1. RevokedStay
    BY <1>4 DEF Operator, TokenCreate, TokenRevoke, CreateToken, RevokeToken,
       TypeOK, AuthTypeOK
  <2> QED
    BY <1>4, <2>1 DEF Operator, TokenCreate, TokenRevoke
<1>5. CASE Checkpoint \/ UNCHANGED vars
  BY <1>5 DEF Checkpoint, vars
<1> QED
  BY <1>1, <1>2, <1>3, <1>4, <1>5 DEF Next, Main

\* A request under way belongs to a process and presents a token of the table.
LEMMA RequestNext ==
    ASSUME TypeOK, FileInv, RevokedInv, RequestInv, [Next]_vars
    PROVE  RequestInv'
<1>1. CASE RevokedStay /\ UNCHANGED <<req, host>>
  BY <1>1 DEF RequestInv, RevokedStay
<1>2. ASSUME NEW P, EndProcs(P), RevokedStay \/ P = Procs
      PROVE  RequestInv'
  <2> SUFFICES ASSUME NEW r \in Requests, req'[r].pc # "idle"
               PROVE  /\ host'[r] \in Procs
                      /\ req'[r].token \in Tokens
                      /\ req'[r].late /\ ~req'[r].undone =>
                            /\ req'[r].pc = "lookup"
                            /\ tokens'[req'[r].token] = "revoked"
    BY DEF RequestInv
  <2>1. host[r] \notin P /\ req'[r] = req[r] /\ host'[r] = host[r]
    BY <1>2 DEF EndProcs, Idle
  <2>2. host[r] \in Procs /\ req[r].token \in Tokens
    BY <2>1 DEF RequestInv
  <2>3. RevokedStay
    BY <1>2, <2>1, <2>2
  <2> QED
    BY <2>1, <2>2, <2>3 DEF RequestInv, RevokedStay
<1>3. CASE PowerLoss
  BY <1>2, <1>3 DEF PowerLoss
<1>4. CASE ServeRequests
  <2>1. ASSUME NEW p \in Procs, NEW r \in Requests, NEW t \in Tokens, Arrive(r, t),
               host' = [host EXCEPT ![r] = p]
        PROVE  RequestInv'
    BY <2>1 DEF Arrive, RequestInv, RevokedInv, TypeOK, AuthTypeOK, tableVars
  <2>2. ASSUME NEW r \in Requests, Serve(r),
               host' = [host EXCEPT ![r] = IF req'[r] = Idle THEN Nobody ELSE @]
        PROVE  RequestInv'
    <3>1. UNCHANGED tokens
      BY <2>2 DEF Serve, Lookup, Touch, Handle, tableVars
    <3>2. CASE Answer(r)
      BY <2>2, <3>1, <3>2 DEF Answer, RequestInv, TypeOK, AuthTypeOK, Idle
    <3>3. ASSUME NEW l \in {"touch", "handle"}, GoTo(r, l)
          PROVE  /\ req'[r].pc = l /\ req'[r].token = req[r].token
                 /\ req'[r].late = req[r].late /\ req'[r].undone = req[r].undone
                 /\ host'[r] = host[r]
                 /\ \A s \in Requests \ {r} : req'[s] = req[s] /\ host'[s] = host[s]
      <4>1. /\ req'[r] = [req[r] EXCEPT !.pc = l]
            /\ \A s \in Requests \ {r} : req'[s] = req[s]
        BY <3>3 DEF GoTo, TypeOK, AuthTypeOK
      <4>2. req[r] \in Request
        BY DEF TypeOK, AuthTypeOK
      <4>3. /\ req'[r].pc = l /\ req'[r].token = req[r].token
            /\ req'[r].late = req[r].late /\ req'[r].undone = req[r].undone
        BY <4>1, <4>2 DEF Request
      <4>4. req'[r] # Idle
        <5>1. Idle.pc = "idle"
          BY DEF Idle
        <5>2. req'[r].pc # "idle"
          BY <4>3
        <5> QED
          BY <5>1, <5>2
      <4> QED
        BY <2>2, <4>1, <4>3, <4>4 DEF TypeOK
    <3>4. CASE /\ req[r].pc = "lookup" /\ GoTo(r, "touch")
               /\ ActiveRow(req[r].token)
      BY <3>1, <3>3, <3>4 DEF ActiveRow, RequestInv
    <3>5. CASE req[r].pc = "touch" /\ GoTo(r, "handle")
      BY <3>1, <3>3, <3>5 DEF RequestInv
    <3> QED
      BY <2>2, <3>2, <3>4, <3>5 DEF Serve, Lookup, Touch, Handle
  <2> QED
    BY <1>4, <2>1, <2>2 DEF ServeRequests
<1> QED
  BY <1>1, <1>2, <1>3, <1>4, RequestSteps DEF Exit

-----------------------------------------------------------------------------
(* The stored report.                                                      *)

\* A process that reports has collected, and what it collected was cut short
\* only after its context was cancelled.
LEMMA ReportIsCollected ==
    ASSUME TypeOK, ProviderInv, NEW p \in Procs, ReportOnce(p),
           pc[p] \in {"persist", "run"} \cup Stopping
    PROVE  stored' \notin {"empty", "cut"}
BY DEF ProviderInv, ReportOnce

\* What the store has of the providers, through start, reports and shutdown.
LEMMA ProviderNext ==
    ASSUME TypeOK, ProviderInv, [Next]_vars
    PROVE  ProviderInv'
<1> DEFINE Cut(q) == agent[q] = "cut" => cancelled[q]
           Early(q) == agent[q] = "empty" => pc[q] \notin {"persist", "run"} \cup Stopping
<1> USE DEF diskVars, procVars, histVars
<1>1. StoredIsCollected
  BY DEF ProviderInv
<1>2. \A q \in Procs : Cut(q) /\ Early(q)
  BY DEF ProviderInv
<1>3. ASSUME NEW P, EndProcs(P)
      PROVE  \A q \in Procs : Cut(q)' /\ Early(q)'
  BY <1>2, <1>3 DEF EndProcs, Stopping
<1>4. ASSUME NEW p \in Procs, NEW l, GoToProc(p, l),
             l \notin {"persist", "run"} \cup Stopping
                \/ pc[p] \in {"persist", "run"} \cup Stopping
      PROVE  \A q \in Procs : Cut(q)' /\ Early(q)'
  BY <1>2, <1>4 DEF GoToProc, TypeOK
<1>5. ASSUME NEW p \in Procs, Collected(p), UNCHANGED cancelled,
             \A q \in Procs \ {p} : pc'[q] = pc[q]
      PROVE  \A q \in Procs : Cut(q)' /\ Early(q)'
  BY <1>2, <1>5 DEF Collected, TypeOK
<1>6. ASSUME UNCHANGED <<pc, agent, cancelled>>
      PROVE  \A q \in Procs : Cut(q)' /\ Early(q)'
  BY <1>2, <1>6
<1>7. UNCHANGED stored => StoredIsCollected'
  BY <1>1 DEF StoredIsCollected
<1>8. ASSUME NEW p \in Procs,
             \/ Start(p) \/ UseTokenFile(p) \/ IssueToken(p) \/ OpenTokenFile(p)
             \/ WriteTokenFile(p) \/ SyncTokenFile(p) \/ Listen(p)
             \/ BeginShutdown(p) \/ EndShutdown(p) \/ Stop(p) \/ Kill(p)
      PROVE  ProviderInv'
  <2>1. UNCHANGED stored
    BY <1>8 DEF Start, UseTokenFile, IssueToken, OpenTokenFile, WriteTokenFile,
       SyncTokenFile, Listen, BeginShutdown, EndShutdown, Stop, Kill
  <2>2. \/ EndProcs({p})
        \/ \E l \in {"token", "listen", "open", "write", "sync", "initial"} : GoToProc(p, l)
        \/ pc[p] = "run" /\ GoToProc(p, "shutdown")
        \/ pc[p] = "shutdown" /\ GoToProc(p, "drain")
    BY <1>8 DEF Start, UseTokenFile, IssueToken, OpenTokenFile, WriteTokenFile,
       SyncTokenFile, Listen, BeginShutdown, EndShutdown, Stop, Kill, GiveUp, Exit
  <2> QED
    BY <1>3, <1>4, <1>7, <2>1, <2>2 DEF ProviderInv, Stopping
<1>9. ASSUME NEW p \in Procs, InitialCollect(p) \/ WorkerEnds(p)
      PROVE  ProviderInv'
  <2>1. \A q \in Procs \ {p} : pc'[q] = pc[q]
    BY <1>9 DEF InitialCollect, WorkerEnds, TypeOK
  <2>2. Collected(p) /\ UNCHANGED <<cancelled, stored>>
    BY <1>9 DEF InitialCollect, WorkerEnds
  <2> QED
    BY <1>5, <1>7, <2>1, <2>2 DEF ProviderInv
<1>10. ASSUME NEW p \in Procs, InitialReport(p)
       PROVE  ProviderInv'
  <2>1. CASE ReportOnce(p) /\ GoToProc(p, "run")
    BY <1>4, <1>10, <2>1, ReportIsCollected
       DEF InitialReport, ProviderInv, StoredIsCollected
  <2>2. CASE Exit(p) /\ UNCHANGED stored
    BY <1>3, <1>7, <2>2 DEF Exit, ProviderInv
  <2> QED
    BY <1>10, <2>1, <2>2 DEF InitialReport
<1>11. ASSUME NEW p \in Procs, ReportTimer(p)
       PROVE  ProviderInv'
  BY <1>6, <1>11, ReportIsCollected DEF ReportTimer, ProviderInv, StoredIsCollected
<1>12. ASSUME NEW p \in Procs, Interrupt(p)
       PROVE  ProviderInv'
  <2>1. \A q \in Procs : cancelled[q] => cancelled'[q]
    BY <1>12 DEF Interrupt, TypeOK
  <2> QED
    BY <1>2, <1>7, <1>12, <2>1 DEF Interrupt, ProviderInv
<1>13. CASE \/ \E p \in Procs : WorkerStarts(p)
            \/ Checkpoint \/ ServeRequests \/ Operator \/ UNCHANGED vars
  <2>1. UNCHANGED <<stored, pc, agent, cancelled>>
    BY <1>13 DEF WorkerStarts, Checkpoint, ServeRequests, Operator, vars
  <2> QED
    BY <1>6, <1>7, <2>1 DEF ProviderInv
<1>14. CASE PowerLoss
  BY <1>3, <1>7, <1>14 DEF PowerLoss, ProviderInv
<1> QED
  BY <1>8, <1>9, <1>10, <1>11, <1>12, <1>13, <1>14 DEF Next, Main
-----------------------------------------------------------------------------
(* The token file.                                                         *)

\* What all steps but a power loss have in common: a valid token stays valid,
\* and none loses its row.
TokensKept ==
    /\ \A t \in Tokens : Valid(t) => Valid(t)'
    /\ \A t \in Tokens : tokens[t] \in {"active", "revoked"} =>
                              tokens'[t] \in {"active", "revoked"}
    /\ RevokedStay

\* A token that is created leaves every other one as it was.
LEMMA CreateKeeps ==
    ASSUME TypeOK, NEW t \in Tokens, CreateToken(t),
           UNCHANGED <<withdrawn, abandoned>>
    PROVE  TokensKept
BY DEF TypeOK, AuthTypeOK, CreateToken, TokensKept, Valid, RevokedStay

\* A step that leaves the table alone.
LEMMA SameKeeps ==
    ASSUME UNCHANGED <<tokens, withdrawn, abandoned>>
    PROVE  TokensKept
BY DEF TokensKept, Valid, RevokedStay

\* A revocation is recorded by whoever makes it.
LEMMA RevokeKeeps ==
    ASSUME TypeOK, NEW t \in Tokens, RevokeToken(t),
           withdrawn \subseteq withdrawn', abandoned \subseteq abandoned',
           t \in withdrawn' \cup abandoned'
    PROVE  TokensKept /\ tokens'[t] # "active"
BY DEF TypeOK, AuthTypeOK, RevokeToken, TokensKept, Valid, RevokedStay

\* Starts that create a token and go on do not notice the other processes.
LEMMA FileKept ==
    ASSUME FileInv, TokensKept, UNCHANGED file,
           \A p \in Procs : pc'[p] \in Creating => pc[p] = pc'[p] /\ mine'[p] = mine[p]
    PROVE  FileInv'
<1>1. \A p, q \in Procs : pc'[p] \in Writing /\ pc'[q] \in Writing => p = q
  BY DEF FileInv, Writing, Creating
<1>2. ASSUME NEW p \in Procs, pc'[p] \in Creating
      PROVE  /\ Valid(mine[p])' /\ tokens'[mine'[p]] \in {"active", "revoked"}
             /\ pc'[p] = "write" => file' = Empty
             /\ pc'[p] = "sync" => file' = mine'[p]
  <2>1. Valid(mine[p]) /\ tokens[mine[p]] \in {"active", "revoked"} /\ mine[p] \in Tokens
    BY <1>2 DEF FileInv, Valid
  <2>2. tokens'[mine[p]] \in {"active", "revoked"} /\ (tokens'[mine[p]] = "active"
                                       \/ mine[p] \in withdrawn' \cup abandoned')
    BY <2>1 DEF TokensKept, Valid
  <2> QED
    BY <1>2, <2>1, <2>2 DEF FileInv, Valid
<1> QED
  BY <1>1, <1>2 DEF FileInv, Creating

\* Processes other than the ones that create a token go on with the file.
LEMMA QuietFile ==
    ASSUME TypeOK, TokenInv, TokensKept,
           UNCHANGED file, lost \subseteq lost',
           issued \subseteq issued',
           \A t \in Tokens : tokens'[t] = "active" =>
               tokens[t] = "active" \/ t \in issued',
           \A p \in Procs :
              \/ pc'[p] = pc[p] /\ mine'[p] = mine[p]
              \/ /\ pc[p] \notin Creating /\ pc'[p] \notin Creating
                 /\ pc'[p] \in {"listen"} \cup Serving \cup Stopping =>
                       Valid(file)
    PROVE  TokenInv'
<1> USE DEF TokenInv
<1>1. FileInv'
  BY FileKept
<1>2. ReadyInv'
  BY DEF ReadyInv, TokensKept, Valid
<1>4. NoStrayToken'
  BY DEF NoStrayToken
<1> QED
  BY <1>1, <1>2, <1>4

\* Processes that end leave the file as it is; the token of a start that does
\* not get through is accounted for.
LEMMA EndFile ==
    ASSUME TypeOK, TokenInv, TokensKept,
           NEW P, EndProcs(P),
           UNCHANGED <<file, issued>>, lost \subseteq lost',
           \A t \in Tokens : tokens'[t] = "active" => tokens[t] = "active",
           \A p \in Procs : p \in P /\ pc[p] \in Creating =>
               mine[p] \in lost' \/ tokens'[mine[p]] = "revoked"
    PROVE  TokenInv'
<1> USE DEF TokenInv
<1>1. \A p \in Procs : \/ p \in P /\ pc'[p] = "down"
                       \/ p \notin P /\ pc'[p] = pc[p] /\ mine'[p] = mine[p]
  BY DEF EndProcs
<1>2. FileInv'
  <2>1. \A p \in Procs : pc'[p] \in Creating => pc[p] = pc'[p] /\ mine'[p] = mine[p]
    BY <1>1 DEF Creating
  <2> QED
    BY <2>1, FileKept
<1>3. ReadyInv'
  BY <1>1 DEF ReadyInv, TokensKept, Valid, Serving, Stopping
<1>5. NoStrayToken'
  <2> SUFFICES ASSUME NEW t \in Tokens, tokens'[t] = "active"
               PROVE  \/ t = file \/ t \in issued \/ t \in lost'
                      \/ \E p \in Procs : mine'[p] = t /\ pc'[p] \in Creating
    BY DEF NoStrayToken
  <2>1. \/ t = file \/ t \in issued \/ t \in lost
        \/ \E p \in Procs : mine[p] = t /\ pc[p] \in Creating
    BY DEF NoStrayToken
  <2>2. ASSUME NEW p \in Procs, mine[p] = t, pc[p] \in Creating
        PROVE  t \in lost' \/ (mine'[p] = t /\ pc'[p] \in Creating)
    BY <1>1, <2>2
  <2> QED
    BY <2>1, <2>2
<1> QED
  BY <1>2, <1>3, <1>5

\* A failing step of ensureDisplayToken.
LEMMA GiveUpFile ==
    ASSUME TypeOK, TokenInv, NEW p \in Procs, pc[p] \in Creating, GiveUp(p),
           UNCHANGED <<file, issued, withdrawn>>
    PROVE  TokenInv'
<1>1. mine[p] \in Tokens /\ Valid(mine[p]) /\ tokens[mine[p]] \in {"active", "revoked"}
  BY DEF TokenInv, FileInv, Valid
<1>2. CASE RevokeToken(mine[p]) /\ UNCHANGED lost
  <2>1. TokensKept
    BY <1>1, <1>2, RevokeKeeps DEF GiveUp
  <2>2. /\ tokens'[mine[p]] = "revoked"
        /\ \A t \in Tokens : tokens'[t] = "active" => tokens[t] = "active"
    BY <1>1, <1>2 DEF RevokeToken, TypeOK, AuthTypeOK
  <2> QED
    BY <1>2, <2>1, <2>2, EndFile DEF TokenInv, GiveUp, Exit
<1>3. CASE UNCHANGED tokens /\ lost' = lost \cup {mine[p]}
  <2>1. TokensKept
    BY <1>3 DEF GiveUp, TokensKept, Valid, RevokedStay
  <2> QED
    BY <1>3, <2>1, EndFile DEF TokenInv, GiveUp, Exit
<1> QED
  BY <1>2, <1>3 DEF GiveUp

\* A new token is being created by the process that issued it.
LEMMA IssueFile ==
    ASSUME TypeOK, TokenInv, NEW p \in Procs, NEW t \in Tokens, pc[p] = "token",
           CreateToken(t), mine' = [mine EXCEPT ![p] = t], GoToProc(p, "open"),
           UNCHANGED <<issued, withdrawn, file, lost, abandoned>>
    PROVE  TokenInv'
<1> USE DEF TokenInv
<1>1. TokensKept
  BY CreateKeeps
<1>2. /\ tokens'[t] = "active" /\ pc'[p] = "open" /\ mine'[p] = t
      /\ \A s \in Tokens \ {t} : tokens'[s] = tokens[s]
      /\ \A q \in Procs \ {p} : pc'[q] = pc[q] /\ mine'[q] = mine[q]
  BY DEF CreateToken, GoToProc, TypeOK, AuthTypeOK
<1>3. FileInv'
  <2>1. \A q, r \in Procs : pc'[q] \in Writing /\ pc'[r] \in Writing => q = r
    BY <1>2 DEF FileInv, Writing
  <2>2. ASSUME NEW q \in Procs, pc'[q] \in Creating
        PROVE  /\ Valid(mine[q])' /\ tokens'[mine'[q]] \in {"active", "revoked"}
               /\ pc'[q] = "write" => file' = Empty
               /\ pc'[q] = "sync" => file' = mine'[q]
    <3>1. CASE q = p
      BY <1>2, <3>1 DEF Valid
    <3>2. CASE q # p
      BY <1>1, <1>2, <2>2, <3>2 DEF FileInv, TokensKept, Valid
    <3> QED
      BY <3>1, <3>2
  <2> QED
    BY <2>1, <2>2 DEF FileInv, Creating
<1>4. ReadyInv'
  BY <1>1, <1>2 DEF ReadyInv, TokensKept, Valid, Serving, Stopping
<1>6. NoStrayToken'
  BY <1>2 DEF NoStrayToken, Creating
<1> QED
  BY <1>3, <1>4, <1>6

\* O_EXCL: whoever creates the file is alone, and nobody relies on it yet.
LEMMA OpenFile ==
    ASSUME TypeOK, TokenInv, NEW p \in Procs, pc[p] = "open", CreateFile,
           GoToProc(p, "write"),
           UNCHANGED <<tokens, issued, withdrawn, mine, lost, abandoned>>
    PROVE  TokenInv'
<1> USE StandaloneAssumption DEF TokenInv
<1>1. /\ pc'[p] = "write" /\ mine' = mine
      /\ \A q \in Procs \ {p} : pc'[q] = pc[q]
  BY DEF GoToProc, TypeOK
<1>2. file = Absent /\ file' = Empty /\ Absent \notin Tokens /\ Empty \notin Tokens
  BY DEF CreateFile, Absent, Empty
<1>3. \A q \in Procs : pc[q] \notin Writing
  <2>1. \A q \in Procs : pc[q] \in Creating => mine[q] \in Tokens
    BY DEF FileInv, Valid
  <2>2. Absent # Empty
    BY DEF Absent, Empty
  <2> QED
    BY <1>2, <2>1, <2>2 DEF FileInv, Writing, Creating
<1>4. FileInv'
  <2>1. \A q, r \in Procs : pc'[q] \in Writing /\ pc'[r] \in Writing => q = r
    BY <1>1, <1>3
  <2>2. \A q \in Procs : Valid(mine[q]) => Valid(mine[q])'
    BY <1>1 DEF Valid
  <2>3. \A q \in Procs : pc'[q] \in Creating => pc[q] \in Creating
    BY <1>1 DEF Creating
  <2>4. \A q \in Procs : pc'[q] = "sync" => FALSE
    BY <1>1, <1>3 DEF Writing
  <2> QED
    BY <1>1, <1>2, <2>1, <2>2, <2>3, <2>4 DEF FileInv
<1>5. ReadyInv'
  BY <1>1, <1>2 DEF ReadyInv, Valid, Serving, Stopping
<1>7. NoStrayToken'
  <2>1. \A q \in Procs : pc[q] \in Creating => pc'[q] \in Creating
    BY <1>1 DEF Creating
  <2> HIDE StandaloneAssumption DEF TokenInv
  <2> SUFFICES ASSUME NEW t \in Tokens, tokens[t] = "active"
               PROVE  \/ t = file' \/ t \in issued \/ t \in lost
                      \/ \E q \in Procs : mine[q] = t /\ pc'[q] \in Creating
    BY <1>1 DEF NoStrayToken
  <2>2. t # file
    BY <1>2
  <2> QED
    BY <2>1, <2>2 DEF TokenInv, NoStrayToken
<1> QED
  BY <1>4, <1>5, <1>7

\* The token goes into a file that was empty: no other one is overwritten.
LEMMA WriteFile ==
    ASSUME TypeOK, TokenInv, NEW p \in Procs, pc[p] = "write", file' = mine[p],
           GoToProc(p, "sync"),
           UNCHANGED <<tokens, issued, withdrawn, mine, lost, abandoned>>
    PROVE  TokenInv'
<1> USE StandaloneAssumption DEF TokenInv
<1>1. /\ pc'[p] = "sync" /\ mine' = mine
      /\ \A q \in Procs \ {p} : pc'[q] = pc[q]
  BY DEF GoToProc, TypeOK
<1>2. file = Empty /\ Empty \notin Tokens /\ Valid(mine[p])
  BY DEF FileInv, Empty, Creating
<1>3. FileInv'
  <2>1. \A q, r \in Procs : pc'[q] \in Writing /\ pc'[r] \in Writing => q = r
    BY <1>1 DEF FileInv, Writing
  <2>2. \A q \in Procs : Valid(mine[q]) => Valid(mine[q])'
    BY <1>1 DEF Valid
  <2>3. \A q \in Procs : pc'[q] \in Creating => pc[q] \in Creating
    BY <1>1 DEF Creating
  <2>4. \A q \in Procs : pc'[q] \in Writing => q = p
    BY <1>1, <2>1 DEF Writing
  <2> QED
    BY <1>1, <2>1, <2>2, <2>3, <2>4 DEF FileInv, Writing
<1>4. ReadyInv'
  BY <1>1, <1>2 DEF ReadyInv, Valid, Serving, Stopping
<1>6. NoStrayToken'
  <2>1. \A q \in Procs : pc[q] \in Creating => pc'[q] \in Creating
    BY <1>1 DEF Creating
  <2> HIDE StandaloneAssumption DEF TokenInv
  <2> SUFFICES ASSUME NEW t \in Tokens, tokens[t] = "active"
               PROVE  \/ t = file' \/ t \in issued \/ t \in lost
                      \/ \E q \in Procs : mine[q] = t /\ pc'[q] \in Creating
    BY <1>1 DEF NoStrayToken
  <2>2. t # file
    BY <1>2
  <2> QED
    BY <2>1, <2>2 DEF TokenInv, NoStrayToken
<1> QED
  BY <1>3, <1>4, <1>6

\* The token file is synced: from here on it is the one that every start reads.
LEMMA SyncFile ==
    ASSUME TypeOK, TokenInv, NEW p \in Procs, pc[p] = "sync",
           GoToProc(p, "listen"), mine' = [mine EXCEPT ![p] = Nobody],
           UNCHANGED <<tokens, issued, withdrawn, file, lost, abandoned>>
    PROVE  TokenInv'
<1> USE DEF TokenInv
<1>1. /\ pc'[p] = "listen"
      /\ \A q \in Procs \ {p} : pc'[q] = pc[q] /\ mine'[q] = mine[q]
  BY DEF GoToProc, TypeOK
<1>2. file = mine[p] /\ Valid(file)
  BY DEF FileInv, Creating
<1>3. TokensKept
  BY SameKeeps
<1>4. FileInv'
  <2>1. \A q \in Procs : pc'[q] \in Creating => pc[q] = pc'[q] /\ mine'[q] = mine[q]
    BY <1>1 DEF Creating
  <2> QED
    BY <1>3, <2>1, FileKept
<1>5. ReadyInv'
  BY <1>2 DEF ReadyInv, Valid
<1>7. NoStrayToken'
  BY <1>1, <1>2 DEF NoStrayToken
<1> QED
  BY <1>4, <1>5, <1>7

\* All processes are gone; an active token that a power loss tears from its
\* file or from its row is recorded as lost.
LEMMA PowerLossFile ==
    ASSUME TypeOK, TokenInv, PowerLoss
    PROVE  TokenInv'
<1> USE DEF TokenInv
<1>1. \A q \in Procs : pc'[q] = "down"
  BY DEF PowerLoss, EndProcs
<1>2. FileInv'
  BY <1>1 DEF FileInv, Creating, Writing
<1>3. ReadyInv'
  BY <1>1 DEF ReadyInv, Serving, Stopping
<1>5. NoStrayToken'
  <2> SUFFICES ASSUME NEW t \in Tokens, tokens'[t] = "active"
               PROVE  t = file' \/ t \in issued' \/ t \in lost'
    BY DEF NoStrayToken
  <2>1. /\ tokens[t] = "active" \/ t \in lost'
        /\ \A q \in Procs : mine[q] \in Tokens => mine[q] \in lost'
        /\ lost \subseteq lost' /\ issued' = issued
    <3>1. lost' = lost \cup ({mine[p] : p \in Procs} \ {Nobody})
                       \cup {s \in Tokens : tokens[s] # durable[s]}
                       \cup (IF file' = file THEN {} ELSE {file} \cap Tokens)
      BY DEF PowerLoss
    <3>2. tokens'[t] = durable[t] /\ Nobody \notin Tokens
      BY StandaloneAssumption DEF PowerLoss, Nobody
    <3> QED
      BY <3>1, <3>2 DEF PowerLoss
  <2>2. CASE tokens[t] = "active" /\ t = file /\ file' # file
    BY <2>2 DEF PowerLoss
  <2> QED
    BY <2>1, <2>2 DEF NoStrayToken
<1> QED
  BY <1>2, <1>3, <1>5

\* Every step keeps the relation between table, token file and starting processes.
LEMMA TokenNext ==
    ASSUME TypeOK, TokenInv, [Next]_vars
    PROVE  TokenInv'
<1> USE DEF authVars, tableVars, diskVars, procVars, histVars
<1>1. ASSUME NEW p \in Procs, Exit(p), pc[p] \notin Creating,
             UNCHANGED <<tokens, issued, withdrawn, file, lost, abandoned>>
      PROVE  TokenInv'
  <2>1. TokensKept
    BY <1>1, SameKeeps
  <2> QED
    BY <1>1, <2>1, EndFile DEF Exit
<1>2. ASSUME NEW p \in Procs, NEW l \in {"token", "listen"} \cup Serving \cup Stopping,
             pc' = [pc EXCEPT ![p] = l], pc[p] \notin Creating,
             l # "token" => Valid(file),
             UNCHANGED <<tokens, issued, withdrawn, file, mine, lost, abandoned>>
      PROVE  TokenInv'
  <2>1. TokensKept
    BY <1>2, SameKeeps
  <2>2. l \notin Creating
    BY DEF Creating, Serving, Stopping
  <2>3. \A q \in Procs :
           \/ pc'[q] = pc[q] /\ mine'[q] = mine[q]
           \/ /\ pc[q] \notin Creating /\ pc'[q] \notin Creating
              /\ pc'[q] \in {"listen"} \cup Serving \cup Stopping => Valid(file)
    BY <1>2, <2>2 DEF TypeOK, Serving, Stopping
  <2> QED
    BY <1>2, <2>1, <2>3, QuietFile
<1>3. ASSUME NEW p \in Procs, pc[p] \in {"listen"} \cup Serving \cup Stopping
      PROVE  Valid(file) /\ pc[p] \notin Creating
  BY <1>3 DEF TokenInv, ReadyInv, Creating, Serving, Stopping
<1>4. ASSUME NEW p \in Procs, Start(p)
      PROVE  TokenInv'
  BY <1>2, <1>4 DEF Start, GoToProc, Creating
<1>5. ASSUME NEW p \in Procs, UseTokenFile(p)
      PROVE  TokenInv'
  <2>1. pc[p] \notin Creating
    BY <1>5 DEF UseTokenFile, Creating
  <2>2. CASE Exit(p)
    BY <1>1, <1>5, <2>1, <2>2 DEF UseTokenFile
  <2>3. CASE FileMatches /\ GoToProc(p, "listen") /\ UNCHANGED <<mine, req, host>>
    <3>1. Valid(file)
      BY <2>3 DEF FileMatches, ActiveRow, Valid
    <3> QED
      BY <1>2, <1>5, <2>1, <2>3, <3>1 DEF UseTokenFile, GoToProc
  <2> QED
    BY <1>5, <2>2, <2>3 DEF UseTokenFile
<1>6. ASSUME NEW p \in Procs, IssueToken(p)
      PROVE  TokenInv'
  <2>1. CASE Exit(p) /\ UNCHANGED tokens
    BY <1>1, <1>6, <2>1 DEF IssueToken, Creating
  <2>2. ASSUME NEW t \in Tokens, CreateToken(t), mine' = [mine EXCEPT ![p] = t],
               GoToProc(p, "open")
        PROVE  TokenInv'
    BY <1>6, <2>2, IssueFile DEF IssueToken
  <2> QED
    BY <1>6, <2>1, <2>2 DEF IssueToken
<1>7. ASSUME NEW p \in Procs, OpenTokenFile(p)
      PROVE  TokenInv'
  <2>1. CASE GiveUp(p) /\ UNCHANGED file
    BY <1>7, <2>1, GiveUpFile DEF OpenTokenFile, Creating
  <2>2. CASE CreateFile /\ GoToProc(p, "write") /\ UNCHANGED <<tokens, mine, histVars>>
    BY <1>7, <2>2, OpenFile DEF OpenTokenFile
  <2> QED
    BY <1>7, <2>1, <2>2 DEF OpenTokenFile
<1>8. ASSUME NEW p \in Procs, WriteTokenFile(p)
      PROVE  TokenInv'
  <2>1. CASE GiveUp(p) /\ UNCHANGED file
    BY <1>8, <2>1, GiveUpFile DEF WriteTokenFile, Creating
  <2>2. CASE file' = mine[p] /\ GoToProc(p, "sync") /\ UNCHANGED <<tokens, mine, histVars>>
    BY <1>8, <2>2, WriteFile DEF WriteTokenFile
  <2> QED
    BY <1>8, <2>1, <2>2 DEF WriteTokenFile
<1>9. ASSUME NEW p \in Procs, SyncTokenFile(p)
      PROVE  TokenInv'
  <2>1. CASE GiveUp(p)
    BY <1>9, <2>1, GiveUpFile DEF SyncTokenFile, Creating
  <2>2. CASE /\ GoToProc(p, "listen")
             /\ mine' = [mine EXCEPT ![p] = Nobody] /\ UNCHANGED <<tokens, histVars>>
    BY <1>9, <2>2, SyncFile DEF SyncTokenFile
  <2> QED
    BY <1>9, <2>1, <2>2 DEF SyncTokenFile
<1>10. ASSUME NEW p \in Procs,
              Listen(p) \/ InitialCollect(p) \/ InitialReport(p)
              \/ BeginShutdown(p) \/ EndShutdown(p) \/ Stop(p)
       PROVE  TokenInv'
  <2>1. Valid(file) /\ pc[p] \notin Creating
    BY <1>3, <1>10 DEF Listen, InitialCollect, InitialReport, BeginShutdown,
       EndShutdown, Stop, Serving, Stopping
  <2>2. UNCHANGED <<tokens, issued, withdrawn, file, lost, abandoned>>
    BY <1>10 DEF Listen, InitialCollect, InitialReport, BeginShutdown, EndShutdown, Stop
  <2>3. \/ Exit(p)
        \/ \E l \in Serving \cup Stopping : pc' = [pc EXCEPT ![p] = l] /\ UNCHANGED mine
    BY <1>10 DEF Listen, InitialCollect, InitialReport, BeginShutdown,
       EndShutdown, Stop, GoToProc, Serving, Stopping
  <2> QED
    BY <1>1, <1>2, <2>1, <2>2, <2>3
<1>11. ASSUME NEW p \in Procs, Kill(p)
       PROVE  TokenInv'
  <2>1. TokensKept
    BY <1>11, SameKeeps DEF Kill
  <2>2. pc[p] \in Creating => mine[p] \in lost'
    BY <1>11, StandaloneAssumption DEF Kill, TokenInv, FileInv, Valid, Nobody
  <2> QED
    BY <1>11, <2>1, <2>2, EndFile DEF Kill, Exit
<1>12. CASE \/ \E p \in Procs : WorkerStarts(p) \/ WorkerEnds(p) \/ ReportTimer(p)
                                \/ Interrupt(p)
            \/ Checkpoint \/ ServeRequests \/ UNCHANGED vars
  <2>1. UNCHANGED <<tokens, issued, withdrawn, file, pc, mine, lost, abandoned>>
    BY <1>12 DEF WorkerStarts, WorkerEnds, ReportTimer, Interrupt, Checkpoint,
       ServeRequests, Arrive, Serve, Lookup, Touch, Handle, vars
  <2>2. TokensKept
    BY <2>1, SameKeeps
  <2> QED
    BY <2>1, <2>2, QuietFile
<1>13. CASE Operator
  <2>1. PICK t \in Tokens : TokenCreate(t) \/ TokenRevoke(t)
    BY <1>13 DEF Operator
  <2>2. TokensKept
    BY <1>13, <2>1, CreateKeeps, RevokeKeeps
       DEF Operator, TokenCreate, TokenRevoke
  <2>3. /\ \A s \in Tokens : tokens'[s] = "active" => tokens[s] = "active" \/ s \in issued'
        /\ issued \subseteq issued'
    BY <2>1 DEF TokenCreate, TokenRevoke, CreateToken, RevokeToken, TypeOK, AuthTypeOK
  <2> QED
    BY <1>13, <2>2, <2>3, QuietFile DEF Operator
<1>14. CASE PowerLoss
  BY <1>14, PowerLossFile
<1> QED
  BY <1>4, <1>5, <1>6, <1>7, <1>8, <1>9, <1>10, <1>11, <1>12, <1>13, <1>14
     DEF Next, Main
-----------------------------------------------------------------------------
\* The first start satisfies the invariant.
LEMMA InitIInv == Init => IInv
<1> SUFFICES ASSUME Init PROVE IInv
  OBVIOUS
<1> USE StandaloneAssumption DEF Init, AuthInit, Idle
<1>1. TypeOK
  <2>1. AuthTypeOK
    <3>1. Idle \in Request
      BY DEF Request
    <3> QED
      BY <3>1 DEF AuthTypeOK, Statuses
  <2>2. agent \in [Procs -> Outcomes]
    BY DEF Outcomes
  <2>3. starts \in 0..MaxStarts
    <3>1. starts = 0 /\ MaxStarts \in Nat
      OBVIOUS
    <3> HIDE StandaloneAssumption DEF Init, AuthInit
    <3> QED
      BY <3>1
  <2> QED
    BY <2>1, <2>2, <2>3 DEF TypeOK, AuthTypeOK
<1>2. RevokedInv /\ RequestInv
  BY DEF RevokedInv, RequestInv
<1>3. ProviderInv
  BY DEF ProviderInv, StoredIsCollected, Stopping
<1>4. TokenInv
  BY DEF TokenInv, FileInv, ReadyInv, NoStrayToken, Creating, Writing,
         Serving, Stopping
<1> QED
  BY <1>1, <1>2, <1>3, <1>4 DEF IInv

\* The invariant is inductive.
LEMMA NextIInv == IInv /\ [Next]_vars => IInv'
BY TypeNext, RevokedNext, RequestNext, ProviderNext, TokenNext DEF IInv, TokenInv

\* The inductive invariant holds in every reachable state.
THEOREM StandaloneInvariant == Spec => []IInv
BY InitIInv, NextIInv, PTL DEF Spec

\* The variables keep the shape of the values they stand for.
THEOREM StandaloneTypeCorrect == Spec => []TypeOK
<1>1. IInv => TypeOK
  BY DEF IInv
<1> QED
  BY <1>1, StandaloneInvariant, PTL

\* A request that arrives after the revocation of its token was committed is
\* not served, however many processes, requests, kills and power losses there
\* are, unless a power loss took the revocation back before a checkpoint.
THEOREM StandaloneRevokedStaysOut == Spec => []RevokedStaysOut
<1>1. IInv => RevokedStaysOut
  BY DEF IInv, RequestInv, RevokedStaysOut
<1> QED
  BY <1>1, StandaloneInvariant, PTL

\* Whoever serves displays has a file with a token that authenticates or that
\* was revoked on purpose.
THEOREM StandaloneServesUsableToken == Spec => []ServesUsableToken
<1>1. IInv => ServesUsableToken
  BY DEF IInv, TokenInv, ReadyInv, Valid, ServesUsableToken
<1> QED
  BY <1>1, StandaloneInvariant, PTL

\* No start, successful or not, leaves an active token that nobody knows of.
THEOREM StandaloneNoStrayToken == Spec => []NoStrayToken
<1>1. IInv => NoStrayToken
  BY DEF IInv, TokenInv
<1> QED
  BY <1>1, StandaloneInvariant, PTL

\* Nothing is ever stored but a collection that was left alone.
THEOREM StandaloneStoredIsCollected == Spec => []StoredIsCollected
<1>1. IInv => StoredIsCollected
  BY DEF IInv, ProviderInv
<1> QED
  BY <1>1, StandaloneInvariant, PTL
=============================================================================
