----------------------------- MODULE UserTokens -----------------------------
(***************************************************************************)
(* The OAuth token of one user at one isolated oauth2 provider: calls that *)
(* use it and refresh it when it is about to expire, flows that obtain it  *)
(* (internal/mcp/auth/manager.go), its row (internal/db/mcp_tokens.go), the*)
(* page that lists and revokes it (McpTokens.tsx, admin_mcp.go), and an    *)
(* upstream that gives out refresh tokens and may rotate them.             *)
(*                                                                         *)
(* Nothing holds a lock from reading the row to writing it back, and the   *)
(* request to the upstream is in between.                                  *)
(***************************************************************************)
EXTENDS Naturals, FiniteSets

CONSTANTS
    Calls,      \* calls of the user under way at a time
    Flows,      \* browser tabs in which the user authorises
    Seconds,    \* values of the clock when a flow starts: all that is in its state
    MaxRefresh, \* bound: refresh tokens the upstream ever issues
    MaxRows     \* bound: rows ever inserted

ASSUME UserTokensConstants ==
    MaxRefresh \in Nat \ {0} /\ MaxRows \in Nat \ {0} /\ Seconds # {}

VARIABLES
    token,      \* the row of mcp_user_tokens, id 0 if there is none
    lastRow,    \* AUTOINCREMENT
    good,       \* the refresh token the upstream accepts
    issued,
    call,       \* per call: where it is, and its copy of the row
    flow,       \* per tab: where it is, the second of its state, its new token
    pkce,       \* pkceCache: state -> the flow whose verifier it holds, or none
    list,       \* McpTokens: the ids of the rows shown
    revoked,    \* history: deleted, and nobody has authorised since
    dirty,      \* history: a call had its copy of the row at that moment
    disturbed   \* history: calls or flows overlapped, or a result was lost

tokenVars == <<token, lastRow, good, issued, call, flow, pkce, list, revoked, dirty,
               disturbed>>
ghosts == <<revoked, dirty, disturbed>>

RowIds == 0 .. MaxRows
NoRow  == [id |-> 0, refresh |-> 0, expiry |-> "never"]
Row    == [id: RowIds, refresh: 0 .. MaxRefresh, expiry: {"never", "later", "past"}]
Idle   == [at |-> "idle", copy |-> NoRow]
NoFlow == [at |-> "idle", second |-> CHOOSE s \in Seconds : TRUE, refresh |-> 0,
           expiry |-> "never"]

UserTokensTypeOK ==
    /\ token \in Row /\ (token.id = 0 => token = NoRow) /\ token.id <= lastRow
    /\ lastRow \in RowIds /\ issued \in 0 .. MaxRefresh /\ good \in 0 .. issued
    /\ call \in [Calls -> [at: {"idle", "read", "answered"}, copy: Row]]
    /\ flow \in [Flows -> [at: {"idle", "away", "exchanging", "granted"},
                           second: Seconds, refresh: 0 .. MaxRefresh,
                           expiry: {"never", "later"}]]
    /\ pkce \in [Seconds -> Flows \cup {{}}]
    /\ list \in SUBSET (1 .. lastRow)
    /\ revoked \in BOOLEAN /\ dirty \in BOOLEAN /\ disturbed \in BOOLEAN

UserTokensInit ==
    /\ token = NoRow /\ lastRow = 0 /\ good = 0 /\ issued = 0
    /\ call = [c \in Calls |-> Idle] /\ flow = [f \in Flows |-> NoFlow]
    /\ pkce = [s \in Seconds |-> {}]
    /\ list = {}
    /\ revoked = FALSE /\ dirty = FALSE /\ disturbed = FALSE

Calling    == {c \in Calls : call[c].at # "idle"}
Exchanging == {f \in Flows : flow[f].at \in {"exchanging", "granted"}}

\* SaveMcpToken: the row of a conflict keeps its id.
Saved(new) ==
    /\ token.id # 0 \/ lastRow < MaxRows
    /\ token' = [new EXCEPT !.id = IF token.id = 0 THEN lastRow + 1 ELSE token.id]
    /\ lastRow' = IF token.id = 0 THEN lastRow + 1 ELSE lastRow

\* The upstream has a new refresh token, and accepts no other.
Issue ==
    /\ issued < MaxRefresh
    /\ issued' = issued + 1 /\ good' = issued + 1

-----------------------------------------------------------------------------
(* ResolveCredential.                                                       *)

Expire ==
    /\ token.expiry = "later"
    /\ token' = [token EXCEPT !.expiry = "past"]
    /\ UNCHANGED <<lastRow, good, issued, call, flow, pkce, list, ghosts>>

\* Mutated form: a cache in front of the table, which no deletion clears.
CachedRow ==
    IF token.id = 0 /\ good # 0 THEN [id |-> lastRow, refresh |-> good, expiry |-> "past"]
    ELSE token

\* GetMcpToken.
GetMcpToken == token

\* A call goes on if the token must be refreshed and can be; with any other
\* token it is over, and so is one without a token (AuthRequiredError).
ReadToken(c) ==
    /\ call[c].at = "idle"
    /\ GetMcpToken.expiry = "past" /\ GetMcpToken.refresh # 0
    /\ call' = [call EXCEPT ![c] = [at |-> "read", copy |-> GetMcpToken]]
    /\ disturbed' = (disturbed \/ Calling # {} \/ Exchanging # {})
    /\ UNCHANGED <<token, lastRow, good, issued, flow, pkce, list, revoked, dirty>>

\* Mutated form: a new refresh token is not taken over.
RefreshedKeepsToken(copy, refresh, expiry) ==
    [copy EXCEPT !.expiry = IF expiry = "none" THEN @ ELSE expiry]

\* What the answer changes: the refresh token if there is a new one, and the
\* expiry if it is stated, which in a form-encoded answer it never is.
Refreshed(copy, refresh, expiry) ==
    [copy EXCEPT !.refresh = IF refresh = 0 THEN @ ELSE refresh,
                 !.expiry = IF expiry = "none" THEN @ ELSE expiry]

\* The upstream takes the refresh token, and rotates it or not.
RefreshToken(c) ==
    /\ call[c].at = "read" /\ call[c].copy.refresh = good
    /\ \E expiry \in {"none", "later"} :
          \/ /\ Issue
             /\ call' = [call EXCEPT ![c] =
                   [at |-> "answered",
                    copy |-> Refreshed(call[c].copy, issued + 1, expiry)]]
          \/ /\ UNCHANGED <<good, issued>>
             /\ call' = [call EXCEPT ![c] =
                   [at |-> "answered", copy |-> Refreshed(call[c].copy, 0, expiry)]]
    /\ UNCHANGED <<token, lastRow, flow, pkce, list, ghosts>>

\* It refuses, or is out of reach; or it rotates and the answer is lost.
RefreshFails(c) ==
    /\ call[c].at = "read"
    /\ call' = [call EXCEPT ![c] = Idle]
    /\ \/ UNCHANGED <<good, issued, disturbed>>
       \/ call[c].copy.refresh = good /\ Issue /\ disturbed' = TRUE
    /\ UNCHANGED <<token, lastRow, flow, pkce, list, revoked, dirty>>

\* The whole copy is written back, whatever is in the table by then.
SaveRefreshed(c) ==
    /\ call[c].at = "answered"
    /\ Saved(call[c].copy)
    /\ call' = [call EXCEPT ![c] = Idle]
    /\ UNCHANGED <<good, issued, flow, pkce, list, ghosts>>

\* The error of SaveMcpToken is not looked at: the call goes on.
SaveRefreshedFails(c) ==
    /\ call[c].at = "answered"
    /\ call' = [call EXCEPT ![c] = Idle]
    /\ disturbed' = TRUE
    /\ UNCHANGED <<token, lastRow, good, issued, flow, pkce, list, revoked, dirty>>

-----------------------------------------------------------------------------
(* StartOAuthFlow and HandleCallback.                                       *)

\* The state of two flows that start in the same second is the same, and the
\* verifier of the second takes the place of the first one's.
StartOAuthFlow(f, s) ==
    /\ flow[f].at = "idle"
    /\ flow' = [flow EXCEPT ![f] = [NoFlow EXCEPT !.at = "away", !.second = s]]
    /\ pkce' = [pkce EXCEPT ![s] = f]
    /\ UNCHANGED <<token, lastRow, good, issued, call, list, ghosts>>

\* The user never comes back.
Abandon(f) ==
    /\ flow[f].at = "away"
    /\ flow' = [flow EXCEPT ![f] = NoFlow]
    /\ UNCHANGED <<token, lastRow, good, issued, call, pkce, list, ghosts>>

\* LoadAndDelete: the entry of the state is used once, by whichever flow comes
\* back first, and the upstream takes only the verifier of the same flow.
HandleCallback(f) ==
    /\ flow[f].at = "away"
    /\ LET s == flow[f].second
       IN  /\ flow' = [flow EXCEPT ![f] =
                 IF pkce[s] = f THEN [@ EXCEPT !.at = "exchanging"] ELSE NoFlow]
           /\ pkce' = [pkce EXCEPT ![s] = {}]
           /\ revoked' = (revoked /\ pkce[s] # f)
           /\ disturbed' = (disturbed \/ (pkce[s] = f /\ (Calling # {} \/ Exchanging # {})))
    /\ UNCHANGED <<token, lastRow, good, issued, call, list, dirty>>

ExchangeCode(f) ==
    /\ flow[f].at = "exchanging"
    /\ \E expiry \in {"never", "later"} :
          \/ /\ Issue
             /\ flow' = [flow EXCEPT ![f] = [@ EXCEPT !.at = "granted",
                            !.refresh = issued + 1, !.expiry = expiry]]
          \/ /\ good' = 0 /\ UNCHANGED issued
             /\ flow' = [flow EXCEPT ![f] = [@ EXCEPT !.at = "granted", !.expiry = expiry]]
    /\ UNCHANGED <<token, lastRow, call, pkce, list, ghosts>>

SaveGranted(f) ==
    /\ flow[f].at = "granted"
    /\ Saved([id |-> 0, refresh |-> flow[f].refresh, expiry |-> flow[f].expiry])
    /\ flow' = [flow EXCEPT ![f] = NoFlow]
    /\ UNCHANGED <<good, issued, call, pkce, list, ghosts>>

\* The exchange fails, or what it gave is not saved; the user sees an error.
CallbackFails(f) ==
    /\ flow[f].at \in {"exchanging", "granted"}
    /\ flow' = [flow EXCEPT ![f] = NoFlow]
    /\ disturbed' = (disturbed \/ flow[f].at = "granted")
    /\ UNCHANGED <<token, lastRow, good, issued, call, pkce, list, revoked, dirty>>

\* Fifteen minutes have passed, or a reload made a new Manager.
ForgetStates ==
    /\ \E S \in SUBSET Seconds :
          pkce' = [s \in Seconds |-> IF s \in S THEN {} ELSE pkce[s]]
    /\ pkce' # pkce
    /\ UNCHANGED <<token, lastRow, good, issued, call, flow, list, ghosts>>

\* The process restarts: only the table is left.
Restart ==
    /\ Calling # {} \/ Exchanging # {} \/ \E s \in Seconds : pkce[s] # {}
    /\ call' = [c \in Calls |-> Idle]
    /\ flow' = [f \in Flows |-> IF f \in Exchanging THEN NoFlow ELSE flow[f]]
    /\ pkce' = [s \in Seconds |-> {}]
    /\ disturbed' = (disturbed \/ Calling # {} \/ Exchanging # {})
    /\ UNCHANGED <<token, lastRow, good, issued, list, revoked, dirty>>

-----------------------------------------------------------------------------
(* The page.                                                                *)

\* loadData: the rows there are.  (An answer that is late is no different from
\* a page that has been open for a while; one that fails shows none.)
LoadTokens ==
    /\ list' \in {{}, {token.id} \ {0}} /\ list' # list
    /\ UNCHANGED <<token, lastRow, good, issued, call, flow, pkce, ghosts>>

\* DeleteMcpTokenByID: DELETE.
Deleted == NoRow

\* handleDelete: a row that has come back has another id and stays.  The id is
\* gone from the list unless the answer was lost, or a load that had read the row
\* before arrived after it.
DeleteMcpToken(i) ==
    /\ i \in list
    /\ list' \in {list, list \ {i}}
    /\ IF token.id = i
       THEN /\ token' = Deleted
            /\ revoked' = (Exchanging = {})
            /\ dirty' = (Calling # {})
       ELSE UNCHANGED <<token, revoked, dirty>>
    /\ UNCHANGED <<lastRow, good, issued, call, flow, pkce, disturbed>>

-----------------------------------------------------------------------------
ResolveCredential(c) ==
    \/ ReadToken(c)
    \/ RefreshToken(c)
    \/ RefreshFails(c)
    \/ SaveRefreshed(c)
    \/ SaveRefreshedFails(c)

Authorise(f) ==
    \/ \E s \in Seconds : StartOAuthFlow(f, s)
    \/ Abandon(f)
    \/ HandleCallback(f)
    \/ ExchangeCode(f)
    \/ SaveGranted(f)
    \/ CallbackFails(f)

McpTokensPage ==
    \/ LoadTokens
    \/ \E i \in list : DeleteMcpToken(i)

UserTokensNext ==
    \/ Expire
    \/ \E c \in Calls : ResolveCredential(c)
    \/ \E f \in Flows : Authorise(f)
    \/ ForgetStates
    \/ Restart
    \/ McpTokensPage

UserTokensSpec == UserTokensInit /\ [][UserTokensNext]_tokenVars

\* What the page tells whoever revokes a token: its user has to authorise anew
\* (McpTokens.tsx:75).  Until somebody does there is no token to call with.
RevokedStaysRevoked == revoked => token.id = 0

\* The only way back for a revoked token without a new authorisation is a
\* refresh that had already read the row when it was deleted
\* (ResolveCredential); neither the page, nor a flow, nor a restart revives it.
RevivedOnlyByRefresh == revoked /\ ~dirty => token.id = 0

\* At rest, the refresh token in the table is the one the upstream will accept,
\* as long as no two of its users overlapped and no result was lost: rotation
\* never locks a user out on its own.
RefreshTokenKept ==
    token.id # 0 /\ token.refresh # 0 /\ Calling = {} /\ Exchanging = {} /\ ~disturbed
        => token.refresh = good
=============================================================================
