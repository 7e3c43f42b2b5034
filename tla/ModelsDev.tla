------------------------------ MODULE ModelsDev ------------------------------
(***************************************************************************)
(* modelsdev.Client (internal/modelsdev/modelsdev.go): one cached catalog  *)
(* of model prices, refreshed in the background while hot reloads change   *)
(* where it comes from.  Lookups never wait for the network: a stale       *)
(* catalog is served as it is and a goroutine is spawned to refresh it.    *)
(*                                                                         *)
(* Each fetcher is one goroutine in refresh or Refresh.  c.mu makes every  *)
(* action below atomic; refreshMu is held from "locked" to "fetching".     *)
(* Ages are seconds since the event and saturate at AgeCap.                *)
(***************************************************************************)
EXTENDS Naturals

CONSTANTS
    Urls,
    Ttls,
    Backoff,        \* refreshBackoff
    Fetchers,
    NoUrl,
    AgeCap,         \* bound: ages above it are not told apart
    MaxGeneration   \* bound on configuration changes

Options == [url : Urls, disabled : BOOLEAN, ttl : Ttls]

ASSUME AgesAssumption ==
    /\ AgeCap \in Nat /\ Backoff \in 1 .. AgeCap
    /\ \A t \in Ttls : t \in Nat /\ t < AgeCap
ASSUME UrlAssumption == NoUrl \notin Urls
ASSUME GenerationAssumption == MaxGeneration \in Nat

VARIABLES
    opts,
    snap,           \* where the catalog in c.snap was downloaded, NoUrl if nil
    snapAge,        \* time since fetchedAt
    lastErr,        \* where the download that set c.lastErr went, NoUrl if nil
    attemptAge,     \* time since lastAttempt
    closed,
    generation,
    fetch           \* fetch[f]: where goroutine f is, and what it read

vars == <<opts, snap, snapAge, lastErr, attemptAge, closed, generation, fetch>>

FetchPhases == {"idle", "start", "wait", "locked", "read", "fetching"}

(* background: spawned by a lookup, as opposed to Start and Refresh.       *)
Fetch == [pc : FetchPhases, background : BOOLEAN, opts : Options, gen : Nat]

TypeOK ==
    /\ opts \in Options
    /\ snap \in Urls \cup {NoUrl}
    /\ snapAge \in 0 .. AgeCap
    /\ lastErr \in Urls \cup {NoUrl}
    /\ attemptAge \in 0 .. AgeCap
    /\ closed \in BOOLEAN
    /\ generation \in 0 .. MaxGeneration
    /\ fetch \in [Fetchers -> Fetch]

(* main calls Start once, before it serves: f fetches if enabled.          *)
Init ==
    /\ opts \in Options
    /\ snap = NoUrl /\ snapAge = AgeCap
    /\ lastErr = NoUrl
    /\ attemptAge = AgeCap
    /\ closed = FALSE
    /\ generation = 0
    /\ \E f \in Fetchers :
          fetch = [g \in Fetchers |->
                     [pc |-> IF g = f /\ ~opts.disabled THEN "start" ELSE "idle",
                      background |-> FALSE, opts |-> opts, gen |-> 0]]

----------------------------------------------------------------------------
refreshMuHeld == \E f \in Fetchers : fetch[f].pc \in {"locked", "read", "fetching"}

Stale == snap = NoUrl \/ snapAge > opts.ttl
BackingOff == attemptAge < Backoff

(* Mutated form: a changed URL does not invalidate downloads under way.    *)
ReconfigureSameGeneration(o) ==
    /\ opts' = o
    /\ UNCHANGED generation
    /\ IF o.url # opts.url
       THEN snap' = NoUrl /\ snapAge' = AgeCap /\ lastErr' = NoUrl
       ELSE UNCHANGED <<snap, snapAge, lastErr>>
    /\ UNCHANGED <<attemptAge, closed, fetch>>

(* A hot reload; ttl stands for the two durations the code compares.       *)
Reconfigure(o) ==
    /\ o # opts => generation < MaxGeneration
    /\ opts' = o
    /\ generation' = IF o # opts THEN generation + 1 ELSE generation
    /\ IF o.url # opts.url
       THEN snap' = NoUrl /\ snapAge' = AgeCap /\ lastErr' = NoUrl
       ELSE UNCHANGED <<snap, snapAge, lastErr>>
    /\ UNCHANGED <<attemptAge, closed, fetch>>

Close ==
    /\ closed' = TRUE
    /\ UNCHANGED <<opts, snap, snapAge, lastErr, attemptAge, generation, fetch>>

(* usableSnapshot finds the catalog stale and spawns a refresh.            *)
Poll(f) ==
    /\ fetch[f].pc = "idle"
    /\ ~closed /\ ~opts.disabled
    /\ Stale /\ ~BackingOff
    /\ fetch' = [fetch EXCEPT ![f].pc = "start", ![f].background = TRUE]
    /\ UNCHANGED <<opts, snap, snapAge, lastErr, attemptAge, closed, generation>>

(* POST /admin/api/modelsdev/refresh.                                      *)
Refresh(f) ==
    /\ fetch[f].pc = "idle"
    /\ ~opts.disabled
    /\ fetch' = [fetch EXCEPT ![f].pc = "wait", ![f].background = FALSE]
    /\ UNCHANGED <<opts, snap, snapAge, lastErr, attemptAge, closed, generation>>

(* Refresh waits for refreshMu, refresh gives up when it is held.          *)
Acquire(f) ==
    /\ \/ fetch[f].pc = "wait" /\ ~refreshMuHeld
       \/ fetch[f].pc = "start"
    /\ fetch' = [fetch EXCEPT ![f].pc = IF refreshMuHeld THEN "idle" ELSE "locked"]
    /\ UNCHANGED <<opts, snap, snapAge, lastErr, attemptAge, closed, generation>>

(* fetchAndSwap reads what it fetches with.                                *)
ReadOptions(f) ==
    /\ fetch[f].pc = "locked"
    /\ fetch' = IF closed \/ opts.disabled
                THEN [fetch EXCEPT ![f].pc = "idle"]
                ELSE [fetch EXCEPT ![f].pc = "read", ![f].opts = opts, ![f].gen = generation]
    /\ UNCHANGED <<opts, snap, snapAge, lastErr, attemptAge, closed, generation>>

MarkAttempt(f) ==
    /\ fetch[f].pc = "read"
    /\ attemptAge' = 0
    /\ fetch' = [fetch EXCEPT ![f].pc = "fetching"]
    /\ UNCHANGED <<opts, snap, snapAge, lastErr, closed, generation>>

(* What is stored when a download of f ends.                               *)
Publish(f, ok) ==
    IF ok
    THEN snap' = fetch[f].opts.url /\ snapAge' = 0 /\ lastErr' = NoUrl
    ELSE lastErr' = fetch[f].opts.url /\ UNCHANGED <<snap, snapAge>>

(* Mutated form: closing is not looked at again after the download.        *)
FetchDoneUnlessStale(f, ok) ==
    /\ fetch[f].pc = "fetching"
    /\ IF fetch[f].gen # generation
       THEN UNCHANGED <<snap, snapAge, lastErr>>
       ELSE Publish(f, ok)
    /\ fetch' = [fetch EXCEPT ![f].pc = "idle"]
    /\ UNCHANGED <<opts, attemptAge, closed, generation>>

(* Mutated form: the early return forgets to unlock refreshMu.             *)
FetchDoneKeepsLock(f, ok) ==
    /\ fetch[f].pc = "fetching"
    /\ ~(closed \/ fetch[f].gen # generation)
    /\ Publish(f, ok)
    /\ fetch' = [fetch EXCEPT ![f].pc = "idle"]
    /\ UNCHANGED <<opts, attemptAge, closed, generation>>

(* The download ends, one way or the other: Timeout bounds it.             *)
FetchDone(f, ok) ==
    /\ fetch[f].pc = "fetching"
    /\ IF closed \/ fetch[f].gen # generation
       THEN UNCHANGED <<snap, snapAge, lastErr>>
       ELSE Publish(f, ok)
    /\ fetch' = [fetch EXCEPT ![f].pc = "idle"]
    /\ UNCHANGED <<opts, attemptAge, closed, generation>>

Older(age) == IF age < AgeCap THEN age + 1 ELSE age

Tick ==
    /\ snapAge' = Older(snapAge)
    /\ attemptAge' = Older(attemptAge)
    /\ UNCHANGED <<opts, snap, lastErr, closed, generation, fetch>>

RunFetch(f) ==
    \/ Acquire(f)
    \/ ReadOptions(f)
    \/ MarkAttempt(f)
    \/ \E ok \in BOOLEAN : FetchDone(f, ok)

Next ==
    \/ \E o \in Options : Reconfigure(o)
    \/ Close
    \/ \E f \in Fetchers : Poll(f) \/ Refresh(f) \/ RunFetch(f)
    \/ Tick

(* Goroutines run, downloads end, time passes; and somebody keeps looking  *)
(* at the admin pages, which poll while the catalog is not ready.          *)
Fairness ==
    /\ \A f \in Fetchers : WF_vars(RunFetch(f))
    /\ WF_vars(\E f \in Fetchers : Poll(f))
    /\ WF_vars(Tick)

Spec == Init /\ [][Next]_vars /\ Fairness

----------------------------------------------------------------------------
(* Properties.                                                             *)

(* Prices of one endpoint are never shown, or copied into the config, for  *)
(* another: whatever a slow download brings back, the catalog held and the *)
(* error reported belong to the configured URL.                            *)
CatalogMatchesUrl ==
    /\ snap \in {NoUrl, opts.url}
    /\ lastErr \in {NoUrl, opts.url}

(* A client that was closed publishes nothing, not even the download that  *)
(* was under way; a later reload can only drop what it holds.              *)
NothingPublishedAfterClose ==
    [][closed => snap' \in {snap, NoUrl} /\ lastErr' \in {lastErr, NoUrl}]_vars

(* An enabled client whose catalog stays stale keeps trying: no reload,    *)
(* failure or discarded download leaves refreshMu held or the backoff on.  *)
StaleKeepsTrying ==
    <>[](~closed /\ ~opts.disabled /\ Stale) => []<>(attemptAge = 0)
=============================================================================
