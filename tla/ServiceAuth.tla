----------------------------- MODULE ServiceAuth -----------------------------
(***************************************************************************)
(* Bearer tokens: the tokens table (internal/store/store.go), the CLI that *)
(* issues and revokes them (cmd/quota-monitor/main.go) and the requests    *)
(* that the service authenticates with them (internal/server/server.go).   *)
(*                                                                         *)
(* A token stands for its id, its digest and its raw value; one that was   *)
(* never issued is any wrong credential.  One scope stands for both: the   *)
(* rows of the other scope are never looked at.                            *)
(***************************************************************************)
EXTENDS Integers, FiniteSets

CONSTANTS
    Tokens,             \* tokens that can be issued
    Requests,           \* requests served at the same time
    ConcurrentAuth      \* capacity of authSlots

ASSUME ServiceAuthAssumption ==
    /\ IsFiniteSet(Tokens) /\ IsFiniteSet(Requests)
    /\ ConcurrentAuth \in Nat \ {0}

VARIABLES
    tokens,     \* the rows of the tokens table: status of each token
    issued,     \* tokens issued by the operator
    withdrawn,  \* tokens revoked by the operator
    revoked,    \* history: tokens whose revocation was committed
    unsaved,    \* history: ... and not checkpointed since
    undone,     \* history: ... and taken back by a power loss since
    req         \* each request

revocationVars == <<revoked, unsaved, undone>>
tableVars == <<tokens, issued, withdrawn, revocationVars>>
authVars == <<tableVars, req>>

\* A row that a power loss took is gone: its token is not issued again.
Statuses == {"unused", "active", "revoked", "gone"}

Idle == [pc |-> "idle", token |-> "", late |-> FALSE, undone |-> FALSE]

\* A request, with what had become of its token when it arrived.
Request == [pc : {"idle", "lookup", "touch", "handle"}, token : Tokens \cup {""},
            late : BOOLEAN, undone : BOOLEAN]

AuthInit ==
    /\ tokens = [t \in Tokens |-> "unused"]
    /\ issued = {} /\ withdrawn = {}
    /\ revoked = {} /\ unsaved = {} /\ undone = {}
    /\ req = [r \in Requests |-> Idle]

AuthTypeOK ==
    /\ tokens \in [Tokens -> Statuses]
    /\ issued \subseteq Tokens /\ withdrawn \subseteq Tokens
    /\ revoked \subseteq Tokens /\ unsaved \subseteq Tokens /\ undone \subseteq Tokens
    /\ req \in [Requests -> Request]

-----------------------------------------------------------------------------
(* The table.                                                              *)

\* CreateToken inserts a fresh row.
CreateToken(t) ==
    /\ tokens[t] = "unused"
    /\ tokens' = [tokens EXCEPT ![t] = "active"]

\* RevokeToken: the UPDATE matches an active row only.
RevokeToken(t) ==
    \/ /\ tokens[t] = "active"
       /\ tokens' = [tokens EXCEPT ![t] = "revoked"]
       /\ revoked' = revoked \cup {t}
       /\ unsaved' = unsaved \cup {t}
       /\ undone' = undone \ {t}
    \/ tokens[t] # "active" /\ UNCHANGED <<tokens, revocationVars>>

\* runTokenCreate and runTokenRevoke, beside a running service.
TokenCreate(t) ==
    /\ CreateToken(t)
    /\ issued' = issued \cup {t}
    /\ UNCHANGED <<withdrawn, revocationVars, req>>

TokenRevoke(t) ==
    /\ tokens[t] = "active"
    /\ RevokeToken(t)
    /\ withdrawn' = withdrawn \cup {t}
    /\ UNCHANGED <<issued, req>>

\* Mutant of ActiveRow: the query without "revoked_at_ns IS NULL".
AnyRow(t) == tokens[t] \in {"active", "revoked"}

\* The rows AuthenticateToken compares with.
ActiveRow(t) == tokens[t] = "active"

-----------------------------------------------------------------------------
(* authenticate, for a request with credential t: late when a revocation   *)
(* of the token was committed before the request arrived, undone when a    *)
(* power loss had taken that revocation back by then.                      *)

\* Requests between taking a slot and the deferred release.
SlotsTaken == Cardinality({r \in Requests : req[r].pc \in {"lookup", "touch"}})

\* A request that is within the fixed windows and gets a slot; any other one is
\* answered with a 429 at once.
Arrive(r, t) ==
    /\ req[r].pc = "idle"
    /\ SlotsTaken < ConcurrentAuth
    /\ req' = [req EXCEPT ![r] = [pc |-> "lookup", token |-> t,
                                  late |-> t \in revoked, undone |-> t \in undone]]
    /\ UNCHANGED tableVars

Answer(r) == req' = [req EXCEPT ![r] = Idle]

GoTo(r, pc) == req' = [req EXCEPT ![r].pc = pc]

\* The query of AuthenticateToken: no active row, or an error, is a 401.
Lookup(r) ==
    /\ req[r].pc = "lookup"
    /\ \/ ActiveRow(req[r].token) /\ GoTo(r, "touch")
       \/ Answer(r)
    /\ UNCHANGED tableVars

\* The update of last_used_at is a statement of its own: it does not look at
\* the token's status again.  Its failure is a 401; then the request is within
\* its token's window or gets a 429.
Touch(r) ==
    /\ req[r].pc = "touch"
    /\ GoTo(r, "handle") \/ Answer(r)
    /\ UNCHANGED tableVars

\* The handler does its work and the response is sent.
Handle(r) ==
    /\ req[r].pc = "handle"
    /\ Answer(r)
    /\ UNCHANGED tableVars

Serve(r) == Lookup(r) \/ Touch(r) \/ Handle(r)
=============================================================================
