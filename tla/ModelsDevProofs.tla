-------------------------- MODULE ModelsDevProofs --------------------------
(***************************************************************************)
(* Safety of ModelsDev for any number of fetchers, URLs, configuration     *)
(* changes and seconds.  A download is told to be out of date by the       *)
(* generation alone: the invariant says that an equal generation means     *)
(* equal options, although options may change and change back.             *)
(***************************************************************************)
EXTENDS ModelsDev, TLAPS

(* What fetcher f read is current as long as the generation is.            *)
ReadIsCurrent(f) ==
    /\ fetch[f].gen <= generation
    /\ (fetch[f].pc \in {"read", "fetching"} /\ fetch[f].gen = generation) =>
          fetch[f].opts = opts

CInv ==
    /\ TypeOK
    /\ CatalogMatchesUrl
    /\ \A f \in Fetchers : ReadIsCurrent(f)

----------------------------------------------------------------------------
(* At the start nothing is cached and at most one fetch is spawned.        *)
LEMMA InitCurrent ==
    ASSUME Init
    PROVE  CInv
<1>1. PICK f \in Fetchers :
          fetch = [g \in Fetchers |->
                     [pc |-> IF g = f /\ ~opts.disabled THEN "start" ELSE "idle",
                      background |-> FALSE, opts |-> opts, gen |-> 0]]
  BY DEF Init
<1>2. fetch \in [Fetchers -> Fetch]
  BY <1>1 DEF Init, Fetch, FetchPhases
<1>3. opts \in Options /\ closed \in BOOLEAN
  BY DEF Init
<1>4. snapAge \in 0 .. AgeCap /\ attemptAge \in 0 .. AgeCap /\ generation \in 0 .. MaxGeneration
  BY AgesAssumption, GenerationAssumption DEF Init
<1>5. snap \in Urls \cup {NoUrl} /\ lastErr \in Urls \cup {NoUrl}
  BY DEF Init
<1>6. TypeOK
  BY <1>2, <1>3, <1>4, <1>5 DEF TypeOK
<1>7. \A g \in Fetchers : ReadIsCurrent(g)
  BY <1>1 DEF Init, ReadIsCurrent
<1> QED BY <1>6, <1>7 DEF CInv, Init, CatalogMatchesUrl

(* A change of options is a new generation: what was read before is out of *)
(* date, and a catalog of another URL goes.                                *)
LEMMA ReconfigureKeeps ==
    ASSUME CInv, NEW o \in Options, Reconfigure(o)
    PROVE  CInv'
<1>1. TypeOK'
  BY AgesAssumption, GenerationAssumption DEF CInv, TypeOK, Reconfigure, Options
<1>2. CatalogMatchesUrl'
  BY DEF CInv, TypeOK, Reconfigure, Options, CatalogMatchesUrl
<1>3. ASSUME NEW f \in Fetchers
      PROVE  ReadIsCurrent(f)'
  <2>1. fetch[f].gen \in Nat /\ generation \in Nat /\ fetch' = fetch
    BY GenerationAssumption DEF CInv, TypeOK, Fetch, Reconfigure
  <2>2. ReadIsCurrent(f)
    BY DEF CInv
  <2>3. CASE o = opts
    BY <2>1, <2>2, <2>3 DEF Reconfigure, ReadIsCurrent
  <2>4. CASE o # opts
    BY <2>1, <2>2, <2>4 DEF Reconfigure, ReadIsCurrent
  <2> QED BY <2>3, <2>4
<1> QED BY <1>1, <1>2, <1>3 DEF CInv

(* Steps of a fetcher that read no options.                                *)
LEMMA FetcherMoves ==
    ASSUME CInv, NEW f \in Fetchers,
           Poll(f) \/ Refresh(f) \/ Acquire(f) \/ MarkAttempt(f)
    PROVE  CInv'
<1>1. TypeOK'
  BY AgesAssumption DEF CInv, TypeOK, Fetch, FetchPhases, Poll, Refresh, Acquire, MarkAttempt
<1>2. CatalogMatchesUrl'
  BY DEF CInv, CatalogMatchesUrl, Poll, Refresh, Acquire, MarkAttempt
<1>3. ASSUME NEW g \in Fetchers
      PROVE  ReadIsCurrent(g)'
  <2>1. ReadIsCurrent(g) /\ fetch \in [Fetchers -> Fetch]
    BY DEF CInv, TypeOK
  <2>2. /\ fetch'[g].gen = fetch[g].gen /\ fetch'[g].opts = fetch[g].opts
        /\ generation' = generation /\ opts' = opts
    BY <2>1 DEF Poll, Refresh, Acquire, MarkAttempt, Fetch
  <2>3. fetch'[g].pc \in {"read", "fetching"} => fetch[g].pc \in {"read", "fetching"}
    BY <2>1 DEF Poll, Refresh, Acquire, MarkAttempt, Fetch
  <2> QED BY <2>1, <2>2, <2>3 DEF ReadIsCurrent
<1> QED BY <1>1, <1>2, <1>3 DEF CInv

(* The options and the generation are read under one lock.                 *)
LEMMA ReadOptionsKeeps ==
    ASSUME CInv, NEW f \in Fetchers, ReadOptions(f)
    PROVE  CInv'
<1>1. fetch \in [Fetchers -> Fetch] /\ opts \in Options /\ generation \in Nat
  BY GenerationAssumption DEF CInv, TypeOK
<1>2. TypeOK'
  <2>1. fetch' \in [Fetchers -> Fetch]
    <3>1. CASE fetch' = [fetch EXCEPT ![f].pc = "idle"]
      BY <1>1, <3>1 DEF Fetch, FetchPhases
    <3>2. CASE fetch' = [fetch EXCEPT ![f].pc = "read", ![f].opts = opts, ![f].gen = generation]
      BY <1>1, <3>2 DEF Fetch, FetchPhases
    <3> QED BY <3>1, <3>2 DEF ReadOptions
  <2> QED BY <2>1 DEF CInv, TypeOK, ReadOptions
<1>3. CatalogMatchesUrl'
  BY DEF CInv, CatalogMatchesUrl, ReadOptions
<1>4. ASSUME NEW g \in Fetchers
      PROVE  ReadIsCurrent(g)'
  <2>1. ReadIsCurrent(g)
    BY DEF CInv
  <2> QED BY <1>1, <2>1 DEF ReadOptions, ReadIsCurrent, Fetch
<1> QED BY <1>2, <1>3, <1>4 DEF CInv

(* Only a download of the current generation is published.                 *)
LEMMA FetchDoneKeeps ==
    ASSUME CInv, NEW f \in Fetchers, NEW ok \in BOOLEAN, FetchDone(f, ok)
    PROVE  CInv'
<1>1. fetch \in [Fetchers -> Fetch] /\ opts \in Options /\ ReadIsCurrent(f)
  BY DEF CInv, TypeOK
<1>2. fetch[f].opts \in Options
  BY <1>1 DEF Fetch
<1>3. TypeOK'
  BY <1>1, <1>2, AgesAssumption
  DEF CInv, TypeOK, Fetch, FetchPhases, FetchDone, Publish, Options
<1>4. CatalogMatchesUrl'
  BY <1>1 DEF CInv, CatalogMatchesUrl, FetchDone, Publish, ReadIsCurrent
<1>5. ASSUME NEW g \in Fetchers
      PROVE  ReadIsCurrent(g)'
  <2>1. ReadIsCurrent(g)
    BY DEF CInv
  <2> QED BY <1>1, <2>1 DEF FetchDone, ReadIsCurrent, Fetch
<1> QED BY <1>3, <1>4, <1>5 DEF CInv

(* Time and Close touch neither the catalog nor a fetcher.                 *)
LEMMA OthersKeep ==
    ASSUME CInv, Tick \/ Close \/ UNCHANGED vars
    PROVE  CInv'
<1>1. TypeOK'
  <2>1. CASE Tick
    <3>1. snapAge' \in 0 .. AgeCap /\ attemptAge' \in 0 .. AgeCap
      BY <2>1, AgesAssumption DEF CInv, TypeOK, Tick, Older
    <3> QED BY <2>1, <3>1 DEF CInv, TypeOK, Tick
  <2>2. CASE Close
    BY <2>2 DEF CInv, TypeOK, Close
  <2>3. CASE UNCHANGED vars
    BY <2>3 DEF CInv, TypeOK, vars
  <2> QED BY <2>1, <2>2, <2>3
<1> QED BY <1>1 DEF CInv, CatalogMatchesUrl, ReadIsCurrent, Tick, Close, vars

(* CInv is an invariant: true at the start and kept by every step.         *)
THEOREM CatalogInvariant == Spec => []CInv
<1>1. ASSUME CInv, [Next]_vars
      PROVE  CInv'
  BY <1>1, ReconfigureKeeps, FetcherMoves, ReadOptionsKeeps, FetchDoneKeeps, OthersKeep
  DEF Next, RunFetch
<1> QED BY <1>1, InitCurrent, PTL DEF Spec

(* Types hold through any number of reloads and downloads.                 *)
THEOREM CatalogTypeCorrect == Spec => []TypeOK
<1>1. CInv => TypeOK
  BY DEF CInv
<1> QED BY <1>1, CatalogInvariant, PTL

(* The catalog held and the error reported are never those of another URL, *)
(* with any number of downloads under way and options that change back.    *)
THEOREM CatalogOfConfiguredUrl == Spec => []CatalogMatchesUrl
<1>1. CInv => CatalogMatchesUrl
  BY DEF CInv
<1> QED BY <1>1, CatalogInvariant, PTL

(* A closed client publishes nothing, not even what was under way.         *)
THEOREM ClosedIsSilent == Spec => NothingPublishedAfterClose
<1>1. ASSUME [Next]_vars, closed
      PROVE  snap' \in {snap, NoUrl} /\ lastErr' \in {lastErr, NoUrl}
  BY <1>1 DEF Next, RunFetch, Reconfigure, Close, Poll, Refresh, Acquire, ReadOptions,
              MarkAttempt, FetchDone, Tick, vars
<1> QED BY <1>1, PTL DEF Spec, NothingPublishedAfterClose
=============================================================================
