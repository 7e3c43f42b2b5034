--------------------------- MODULE FailoverProofs ---------------------------
(***************************************************************************)
(* The cyclic scan of module Rotation and the operations of KeyPool, for   *)
(* lists of any length and any number of pools, models and seconds; and the*)
(* safety of Failover, for any sets of requests, providers, keys, models   *)
(* and combos and any configurations that meet the assumptions of Failover.*)
(* The inductive invariant says of each request where its local variables  *)
(* point: into the configuration of its own generation.                    *)
(* Then the safety of HotReload for any number of generations: requests    *)
(* keep that invariant while reloads come and go, and the pool under       *)
(* construction mirrors the cooldowns of the current one, provider by      *)
(* provider, as far as it has been built.                                  *)
(***************************************************************************)
EXTENDS HotReload, TLAPS, WellFoundedInduction, FiniteSetTheorems

-----------------------------------------------------------------------------
(* The cyclic scan.                                                        *)

(* The least-number principle, for sets.                                   *)
LEMMA MinimumOfNat ==
    ASSUME NEW T, T \subseteq Nat, T # {}
    PROVE  \E x \in T : \A y \in T : x <= y
<1> DEFINE R == {ss \in Nat \X Nat : ss[1] < ss[2]}
<1>1. IsWellFoundedOn(R, Nat)
  BY NatLessThanWellFounded DEF OpToRel
<1>2. \E x \in T : \A y \in T : ~ (<<y, x>> \in R)
  <2> HIDE DEF R
  <2> QED BY <1>1, WFMin
<1>3. PICK x \in T : \A y \in T : ~ (<<y, x>> \in R)
  BY <1>2
<1>4. ASSUME NEW y \in T PROVE x <= y
  <2>1. x \in Nat /\ y \in Nat
    BY <1>3
  <2>2. ~ (<<y, x>> \in R)
    BY <1>3
  <2> QED BY <2>1, <2>2
<1> QED BY <1>3, <1>4

(* The scan misses nothing: if some position qualifies, one is found.      *)
LEMMA FirstFromNonempty ==
    ASSUME NEW n \in Nat, NEW S \in SUBSET (1 .. n), NEW start \in 1 .. n, S # {}
    PROVE  FirstFrom(S, start, n) # {}
<1> DEFINE Distances == {Distance(i, start, n) : i \in S}
<1>1. \A i \in S : Distance(i, start, n) \in Nat
  <2> TAKE i \in S
  <2>1. n > 0 /\ i \in Nat /\ start \in Nat /\ (i + n) - start \in Nat
    OBVIOUS
  <2> QED BY <2>1 DEF Distance
<1>2. Distances \subseteq Nat /\ Distances # {}
  BY <1>1
<1>3. PICK d \in Distances : \A e \in Distances : d <= e
  <2> HIDE DEF Distances
  <2> QED BY <1>2, MinimumOfNat
<1>4. PICK i \in S : Distance(i, start, n) = d
  BY <1>3
<1> QED BY <1>3, <1>4 DEF FirstFrom

(* The scan starts at a position of the list, whatever was returned last.  *)
LEMMA ScanStartInRange ==
    ASSUME NEW n \in Nat \ {0}, NEW last \in Nat, NEW strategy
    PROVE  ScanStart(strategy, last, n) \in 1 .. n
<1>1. last % n \in 0 .. (n - 1)
  OBVIOUS
<1> QED BY <1>1 DEF ScanStart

-----------------------------------------------------------------------------
(* Key pools: what the operations of keys.Manager return and preserve.     *)

(* Get returns a position of the list whose key was not attempted and is   *)
(* not cooling; and it returns none only if there is none.                 *)
LEMMA GetIsEligible ==
    ASSUME NEW g, NEW p, NEW keys, NEW strategy, NEW m, NEW attempted
    PROVE  Get(g, p, keys, strategy, m, attempted) \subseteq Eligible(g, p, keys, m, attempted)
  BY DEF Get, FirstFrom

(* Get gives up only when no listed key is both untried and available, for *)
(* lists of any length and wherever the scan starts.                       *)
THEOREM GetFailsOnlyIfNoneEligible ==
    ASSUME PoolTypeOK, NEW g \in Gens, NEW p \in Providers, NEW keys \in Seq(Keys),
           NEW strategy, NEW m, NEW attempted,
           Get(g, p, keys, strategy, m, attempted) = {}
    PROVE  Eligible(g, p, keys, m, attempted) = {}
<1> DEFINE S == Eligible(g, p, keys, m, attempted)
           start == ScanStart(strategy, keyRR[g][p], Len(keys))
<1>1. S \subseteq 1 .. Len(keys)
  BY DEF Eligible
<1>2. CASE Len(keys) = 0
  BY <1>1, <1>2
<1>3. CASE Len(keys) # 0
  <2>1. Len(keys) \in Nat \ {0} /\ keyRR[g][p] \in Nat
    BY <1>3 DEF PoolTypeOK
  <2>2. start \in 1 .. Len(keys)
    BY <2>1, ScanStartInRange
  <2>3. FirstFrom(S, start, Len(keys)) = {}
    BY DEF Get
  <2> HIDE DEF S, start
  <2>4. S = {}
    BY <1>1, <2>1, <2>2, <2>3, FirstFromNonempty
  <2> QED BY <2>4 DEF S
<1> QED BY <1>2, <1>3

(* Every operation keeps the pools well formed.                            *)
LEMMA GetEffectType ==
    ASSUME PoolTypeOK, NEW g \in Gens, NEW p \in Providers, NEW strategy,
           NEW i \in Nat \ {0}, GetEffect(g, p, strategy, i)
    PROVE  PoolTypeOK'
<1>1. keyRR' \in [Gens -> [Providers -> Nat \ {0}]]
  BY DEF GetEffect, PoolTypeOK
<1> QED BY <1>1 DEF GetEffect, PoolTypeOK

(* RecordError sets a cooldown that is a number of seconds.                *)
LEMMA RecordErrorType ==
    ASSUME PoolTypeOK, NEW g \in Gens, NEW p \in Providers, NEW k \in Keys, NEW m \in Models,
           NEW seconds \in Nat, RecordError(g, p, k, m, seconds)
    PROVE  PoolTypeOK'
<1>1. cool' \in [Gens -> [Providers -> [Keys -> [Models -> Nat]]]]
  BY DEF RecordError, PoolTypeOK
<1>2. errs' \in [Gens -> [Providers -> [Keys -> Nat]]]
  BY DEF RecordError, PoolTypeOK
<1> QED BY <1>1, <1>2 DEF RecordError, PoolTypeOK

(* RecordSuccess counts one use.                                           *)
LEMMA RecordSuccessType ==
    ASSUME PoolTypeOK, NEW g \in Gens, NEW p \in Providers, NEW k \in Keys,
           RecordSuccess(g, p, k)
    PROVE  PoolTypeOK'
<1>1. used' \in [Gens -> [Providers -> [Keys -> Nat]]]
  BY DEF RecordSuccess, PoolTypeOK
<1> QED BY <1>1 DEF RecordSuccess, PoolTypeOK

(* No cooldown goes below zero when time passes.                           *)
LEMMA ElapseType ==
    ASSUME PoolTypeOK, Elapse
    PROVE  PoolTypeOK'
<1>1. \A g \in Gens, p \in Providers, k \in Keys, m \in Models :
         (IF cool[g][p][k][m] = 0 THEN 0 ELSE cool[g][p][k][m] - 1) \in Nat
  BY DEF PoolTypeOK
<1>2. cool' \in [Gens -> [Providers -> [Keys -> [Models -> Nat]]]]
  BY <1>1 DEF Elapse
<1> QED BY <1>2 DEF Elapse, PoolTypeOK

-----------------------------------------------------------------------------
(* Requests.                                                               *)

Working == {"key", "send", "upstream", "cool", "stream"}
Keyed   == {"send", "upstream", "cool", "stream"}

RoutedOK(r) ==
    req[r].pc \notin {"idle", "done"} =>
        /\ req[r].combo \in Combos
        /\ req[r].relayModel = NoModel <=>
              ~\E i \in DOMAIN MembersOf(r) : MembersOf(r)[i][2] = NoModel

MemberOK(r) ==
    req[r].pc \in Working =>
        \E i \in DOMAIN MembersOf(r) : MembersOf(r)[i] = req[r].member

KeyOK(r) ==
    req[r].pc \in Keyed =>
        IF IsRelay(r) THEN req[r].pc # "cool" /\ req[r].key = NoKey
                      ELSE Listed(req[r].key, KeyList(r))

Budget(r) == MaxAttempts(Cfg(r), Provider(r))

AttemptOK(r) ==
    /\ req[r].pc = "key" => req[r].attempt <= Budget(r)
    /\ req[r].pc \in Keyed => req[r].attempt < Budget(r)

RepliesOK(r) == req[r].headers = IF req[r].pc \in {"stream", "done"} THEN 1 ELSE 0

CallsOK(r) ==
    req[r].calls = req[r].rows + IF req[r].pc \in {"upstream", "stream"} THEN 1 ELSE 0

ExhaustedOK(r) ==
    req[r].reply = "exhausted" =>
        /\ req[r].pc = "done"
        /\ \A i \in DOMAIN MembersOf(r) : MembersOf(r)[i] \in req[r].attemptedMembers

RequestOK(r) ==
    /\ req[r].gen <= service
    /\ RoutedOK(r)
    /\ MemberOK(r)
    /\ KeyOK(r)
    /\ AttemptOK(r)
    /\ RepliesOK(r)
    /\ CallsOK(r)
    /\ ExhaustedOK(r)

IInv == TypeOK /\ \A r \in Requests : RequestOK(r)

----------------------------------------------------------------------------
(* What the invariant says of the operators a step of r evaluates.         *)

(* The snapshot of a routed request is a configuration with its combo.     *)
LEMMA OfOwnSnapshot ==
    ASSUME IInv, NEW r \in Requests, req[r].pc \notin {"idle", "done"}
    PROVE  /\ Cfg(r) \in Configs
           /\ req[r].gen \in Gens
           /\ req[r].combo \in Combos
           /\ MembersOf(r) \in Seq(Pairs)
           /\ ComboStrategy[Cfg(r)][req[r].combo] \in Strategies
           /\ memberRR[req[r].gen][req[r].combo] \in Nat \ {0}
  BY MembersAssumption, StrategyAssumption
  DEF IInv, RequestOK, RoutedOK, TypeOK, Router!RouterTypeOK, Request, Cfg, MembersOf

(* The member it works on has a provider, a model and a list of keys.      *)
LEMMA OfOwnMember ==
    ASSUME IInv, NEW r \in Requests, req[r].pc \in Working
    PROVE  /\ req[r].member \in Pairs
           /\ Provider(r) \in Providers
           /\ Model(r) \in Models
           /\ KeyList(r) \in Seq(Keys)
           /\ MaxAttempts(Cfg(r), Provider(r)) \in Nat
<1>1. /\ RequestOK(r) /\ req[r].pc \notin {"idle", "done"}
      /\ MembersOf(r) \in Seq(Pairs) /\ Cfg(r) \in Configs
  BY OfOwnSnapshot DEF IInv, Working
<1>2. PICK i \in DOMAIN MembersOf(r) : MembersOf(r)[i] = req[r].member
  BY <1>1 DEF RequestOK, MemberOK
<1>3. req[r].member \in Pairs
  BY <1>1, <1>2
<1>4. Provider(r) \in Providers
  BY <1>3 DEF Provider, Pairs
<1>5. Model(r) \in Models
  <2>1. CASE req[r].member[2] = NoModel
    <3>1. req[r].relayModel # NoModel
      BY <1>1, <1>2, <2>1 DEF RequestOK, RoutedOK
    <3>2. req[r].relayModel \in Models \cup {NoModel}
      BY DEF IInv, TypeOK, Request
    <3> QED BY <2>1, <3>1, <3>2 DEF Model
  <2>2. CASE req[r].member[2] # NoModel
    BY <1>3, <2>2 DEF Model, Pairs
  <2> QED BY <2>1, <2>2
<1>6. KeyList(r) \in Seq(Keys)
  BY <1>1, <1>4, KeysAssumption DEF KeyList
<1>7. MaxAttempts(Cfg(r), Provider(r)) \in Nat
  BY <1>1, <1>4, RetriesAssumption DEF MaxAttempts
<1> QED BY <1>3, <1>4, <1>5, <1>6, <1>7

(* The router hands out a member of the combo that was not attempted ...   *)
LEMMA NextMembersInCombo ==
    ASSUME NEW r, NEW i \in NextMembers(r)
    PROVE  i \in DOMAIN MembersOf(r) /\ MembersOf(r)[i] \notin req[r].attemptedMembers
  BY DEF NextMembers, Router!NextMember, Router!NotAttempted, Router!FirstFrom

(* ... and none only when all of them were.                                *)
LEMMA NoNextMember ==
    ASSUME IInv, NEW r \in Requests, req[r].pc = "route", NextMembers(r) = {}
    PROVE  \A i \in DOMAIN MembersOf(r) : MembersOf(r)[i] \in req[r].attemptedMembers
<1> DEFINE S == Router!NotAttempted(MembersOf(r), req[r].attemptedMembers)
           n == Len(MembersOf(r))
           start == ScanStart(ComboStrategy[Cfg(r)][req[r].combo],
                              memberRR[req[r].gen][req[r].combo], n)
<1>1. MembersOf(r) \in Seq(Pairs) /\ memberRR[req[r].gen][req[r].combo] \in Nat
  BY OfOwnSnapshot
<1>2. S \subseteq 1 .. n /\ n \in Nat
  BY <1>1 DEF Router!NotAttempted
<1>3. FirstFrom(S, start, n) = {}
  BY DEF NextMembers, Router!NextMember, Router!FirstFrom, FirstFrom, Router!Distance,
         Distance, Router!ScanStart, ScanStart
<1>4. S = {}
  <2>1. CASE n = 0
    BY <1>2, <2>1
  <2>2. CASE n # 0
    <3>1. start \in 1 .. n
      BY <1>1, <1>2, <2>2, ScanStartInRange
    <3> HIDE DEF S, n, start
    <3> QED BY <1>2, <1>3, <3>1, FirstFromNonempty
  <2> QED BY <2>1, <2>2
<1> QED BY <1>4 DEF Router!NotAttempted

----------------------------------------------------------------------------
(* A step of r changes the record of r and nothing else that the invariant *)
(* says of the other requests.                                             *)

Moves(r, q) ==
    /\ req' = [req EXCEPT ![r] = q]
    /\ UNCHANGED <<service, config>>

(* Then it is enough to look at r.                                         *)
LEMMA MoveKeepsInvariant ==
    ASSUME IInv, NEW r \in Requests, NEW q \in Request, Moves(r, q),
           PoolTypeOK', Router!RouterTypeOK', RequestOK(r)'
    PROVE  IInv'
<1>1. TypeOK'
  BY DEF IInv, TypeOK, Moves
<1>2. ASSUME NEW s \in Requests, s # r
      PROVE  RequestOK(s)'
  <2>1. req'[s] = req[s]
    BY <1>2 DEF Moves, IInv, TypeOK
  <2>2. RequestOK(s)
    BY DEF IInv
  <2>3. /\ Cfg(s)' = Cfg(s) /\ MembersOf(s)' = MembersOf(s) /\ Provider(s)' = Provider(s)
        /\ IsRelay(s)' = IsRelay(s) /\ KeyList(s)' = KeyList(s) /\ Budget(s)' = Budget(s)
    BY <2>1 DEF Moves, Cfg, MembersOf, Provider, IsRelay, KeyList, Budget
  <2> QED BY <2>1, <2>2, <2>3 DEF Moves, RequestOK, RoutedOK, MemberOK, KeyOK, AttemptOK, RepliesOK,
                                  CallsOK, ExhaustedOK
<1> QED BY <1>1, <1>2 DEF IInv

SamePlace(r) ==
    /\ IsRelay(r)' = IsRelay(r)
    /\ KeyList(r)' = KeyList(r)
    /\ Budget(r)' = Budget(r)

(* What r reads of its snapshot does not change when r keeps its place.    *)
LEMMA MoveKeepsPlace ==
    ASSUME IInv, NEW r \in Requests, NEW q, Moves(r, q),
           q.gen = req[r].gen, q.combo = req[r].combo
    PROVE  /\ req'[r] = q
           /\ Cfg(r)' = Cfg(r)
           /\ MembersOf(r)' = MembersOf(r)
           /\ q.member = req[r].member => SamePlace(r)
<1>1. req'[r] = q
  BY DEF Moves, IInv, TypeOK
<1> QED BY <1>1 DEF Moves, Cfg, MembersOf, Provider, IsRelay, KeyList, Budget, SamePlace

(* The counters of a request can always grow.                             *)
LEMMA CountersGrow ==
    ASSUME NEW q \in Request
    PROVE  /\ q.headers + 1 \in Nat /\ q.calls + 1 \in Nat
           /\ q.rows + 1 \in Nat /\ q.attempt + 1 \in Nat
  BY DEF Request

(* A request starts: it takes the installed snapshot and a combo of it.    *)
LEMMA ArriveStep ==
    ASSUME IInv, NEW r \in Requests, NEW b \in Combos, NEW m \in Models \cup {NoModel},
           Arrive(r, b, m)
    PROVE  IInv'
<1> DEFINE q == [req[r] EXCEPT !.pc = "route", !.gen = service, !.combo = b, !.relayModel = m]
<1>0. /\ req[r] \in Request /\ RequestOK(r) /\ req[r].pc = "idle"
      /\ service \in Gens /\ service <= service
  BY GensAssumption DEF IInv, TypeOK, Arrive
<1>1. q \in Request
  BY <1>0 DEF Request, Phases
<1>2. Moves(r, q)
  BY DEF Arrive, Moves
<1>3. PoolTypeOK' /\ Router!RouterTypeOK'
  BY DEF Arrive, IInv, TypeOK, PoolTypeOK, Router!RouterTypeOK
<1>4. RequestOK(r)'
  <2>1. req'[r] = q /\ config' = config /\ service' = service
    BY <1>2 DEF Moves, IInv, TypeOK
  <2>2. MembersOf(r)' = Members[config[service]][b]
    BY <1>0, <2>1 DEF MembersOf, Cfg, Request
  <2>3. RoutedOK(r)'
    BY <1>0, <2>1, <2>2 DEF RoutedOK, Arrive, Request
  <2>4. MemberOK(r)' /\ KeyOK(r)' /\ AttemptOK(r)'
    BY <1>0, <2>1 DEF MemberOK, KeyOK, AttemptOK, Working, Keyed, Request
  <2>5. RepliesOK(r)' /\ CallsOK(r)' /\ ExhaustedOK(r)'
    BY <1>0, <2>1 DEF RequestOK, RepliesOK, CallsOK, ExhaustedOK, Request
  <2> QED BY <1>0, <2>1, <2>3, <2>4, <2>5 DEF RequestOK, Request
<1> QED BY <1>1, <1>2, <1>3, <1>4, MoveKeepsInvariant

(* A cooled or counted key is one of the pool: never the empty key of a    *)
(* relay attempt.                                                          *)
LEMMA KeyNamed ==
    ASSUME IInv, NEW r \in Requests, req[r].pc = "cool"
    PROVE  req[r].key \in Keys
  BY OfOwnMember DEF IInv, RequestOK, KeyOK, Listed, Keyed, Working

(* A success is counted, or not: the pools stay well formed.               *)
LEMMA SuccessKeepsPools ==
    ASSUME IInv, NEW r \in Requests, req[r].pc \in Keyed,
           \/ UNCHANGED poolVars
           \/ req[r].key # NoKey /\ RecordSuccess(req[r].gen, Provider(r), req[r].key)
    PROVE  PoolTypeOK'
<1>1. CASE UNCHANGED poolVars
  BY <1>1 DEF IInv, TypeOK, PoolTypeOK, poolVars
<1>2. CASE req[r].key # NoKey /\ RecordSuccess(req[r].gen, Provider(r), req[r].key)
  <2>1. req[r].key \in Keys
    BY <1>2 DEF IInv, TypeOK, Request
  <2>2. req[r].gen \in Gens /\ Provider(r) \in Providers /\ PoolTypeOK
    BY OfOwnMember, OfOwnSnapshot DEF IInv, TypeOK, Keyed, Working
  <2> QED BY <1>2, <2>1, <2>2, RecordSuccessType
<1> QED BY <1>1, <1>2

(* A request refused on arrival has its one response.                      *)
LEMMA RefuseStep ==
    ASSUME IInv, NEW r \in Requests, Refuse(r)
    PROVE  IInv'
<1> DEFINE q == [req[r] EXCEPT !.pc = "done", !.reply = "refused", !.headers = req[r].headers + 1]
<1>0. req[r] \in Request /\ RequestOK(r) /\ req[r].pc = "idle"
  BY DEF IInv, TypeOK, Refuse
<1>1. q \in Request
  BY <1>0, CountersGrow DEF Request, Phases, Replies
<1>2. Moves(r, q)
  BY DEF Refuse, Moves
<1>3. PoolTypeOK' /\ Router!RouterTypeOK'
  BY DEF Refuse, IInv, TypeOK, PoolTypeOK, Router!RouterTypeOK
<1>4. RequestOK(r)'
  <2>1. /\ q.gen = req[r].gen /\ q.combo = req[r].combo /\ service' = service
    BY <1>0, <1>2 DEF Request, Moves
  <2>2. /\ req'[r] = q /\ MembersOf(r)' = MembersOf(r)
        /\ q.member = req[r].member => SamePlace(r)
    BY <1>2, <2>1, MoveKeepsPlace
  <2> QED BY <1>0, <2>1, <2>2
           DEF RequestOK, RoutedOK, MemberOK, KeyOK, AttemptOK, RepliesOK, CallsOK, ExhaustedOK,
               Working, Keyed, SamePlace, Request
<1> QED BY <1>1, <1>2, <1>3, <1>4, MoveKeepsInvariant

(* 503 is sent only when no member is left.                                *)
LEMMA ExhaustStep ==
    ASSUME IInv, NEW r \in Requests, Exhaust(r)
    PROVE  IInv'
<1> DEFINE q == [req[r] EXCEPT !.pc = "done", !.reply = "exhausted", !.headers = req[r].headers + 1]
<1>0. req[r] \in Request /\ RequestOK(r) /\ req[r].pc = "route"
  BY DEF IInv, TypeOK, Exhaust
<1>1. \A i \in DOMAIN MembersOf(r) : MembersOf(r)[i] \in req[r].attemptedMembers
  BY NoNextMember DEF Exhaust
<1>2. q \in Request
  BY <1>0, CountersGrow DEF Request, Phases, Replies
<1>3. Moves(r, q)
  BY DEF Exhaust, Moves
<1>4. PoolTypeOK' /\ Router!RouterTypeOK'
  BY DEF Exhaust, IInv, TypeOK, PoolTypeOK, Router!RouterTypeOK
<1>5. RequestOK(r)'
  <2>1. /\ q.gen = req[r].gen /\ q.combo = req[r].combo /\ service' = service
    BY <1>0, <1>3 DEF Request, Moves
  <2>2. /\ req'[r] = q /\ MembersOf(r)' = MembersOf(r)
        /\ q.member = req[r].member => SamePlace(r)
    BY <1>3, <2>1, MoveKeepsPlace
  <2> QED BY <1>0, <2>1, <2>2, <1>1
           DEF RequestOK, RoutedOK, MemberOK, KeyOK, AttemptOK, RepliesOK, CallsOK, ExhaustedOK,
               Working, Keyed, SamePlace, Request
<1> QED BY <1>2, <1>3, <1>4, <1>5, MoveKeepsInvariant

(* Nothing was sent upstream, so no call is left unrecorded.               *)
LEMMA BuildFailsStep ==
    ASSUME IInv, NEW r \in Requests, BuildFails(r)
    PROVE  IInv'
<1> DEFINE q == [req[r] EXCEPT !.pc = "done", !.reply = "refused", !.headers = req[r].headers + 1]
<1>0. req[r] \in Request /\ RequestOK(r) /\ req[r].pc = "send"
  BY DEF IInv, TypeOK, BuildFails
<1>1. q \in Request
  BY <1>0, CountersGrow DEF Request, Phases, Replies
<1>2. Moves(r, q)
  BY DEF BuildFails, Moves
<1>3. PoolTypeOK' /\ Router!RouterTypeOK'
  BY DEF BuildFails, IInv, TypeOK, PoolTypeOK, Router!RouterTypeOK
<1>4. RequestOK(r)'
  <2>1. /\ q.gen = req[r].gen /\ q.combo = req[r].combo /\ service' = service
    BY <1>0, <1>2 DEF Request, Moves
  <2>2. /\ req'[r] = q /\ MembersOf(r)' = MembersOf(r)
        /\ q.member = req[r].member => SamePlace(r)
    BY <1>2, <2>1, MoveKeepsPlace
  <2> QED BY <1>0, <2>1, <2>2
           DEF RequestOK, RoutedOK, MemberOK, KeyOK, AttemptOK, RepliesOK, CallsOK, ExhaustedOK,
               Working, Keyed, SamePlace, Request
<1> QED BY <1>1, <1>2, <1>3, <1>4, MoveKeepsInvariant

(* The call that goes out is the one not yet recorded.                     *)
LEMMA SendStep ==
    ASSUME IInv, NEW r \in Requests, Send(r)
    PROVE  IInv'
<1> DEFINE q == [req[r] EXCEPT !.pc = "upstream", !.calls = req[r].calls + 1]
<1>0. req[r] \in Request /\ RequestOK(r) /\ req[r].pc = "send"
  BY DEF IInv, TypeOK, Send
<1>1. q \in Request
  BY <1>0, CountersGrow DEF Request, Phases
<1>2. Moves(r, q)
  BY DEF Send, Moves
<1>3. PoolTypeOK' /\ Router!RouterTypeOK'
  BY DEF Send, IInv, TypeOK, PoolTypeOK, Router!RouterTypeOK
<1>4. RequestOK(r)'
  <2>1. /\ q.gen = req[r].gen /\ q.combo = req[r].combo /\ service' = service
    BY <1>0, <1>2 DEF Request, Moves
  <2>2. /\ req'[r] = q /\ MembersOf(r)' = MembersOf(r)
        /\ q.member = req[r].member => SamePlace(r)
    BY <1>2, <2>1, MoveKeepsPlace
  <2> QED BY <1>0, <2>1, <2>2
           DEF RequestOK, RoutedOK, MemberOK, KeyOK, AttemptOK, RepliesOK, CallsOK, ExhaustedOK,
               Working, Keyed, SamePlace, Request
<1> QED BY <1>1, <1>2, <1>3, <1>4, MoveKeepsInvariant

(* A relay attempt carries no key of the pool.                             *)
LEMMA UseClientCredentialStep ==
    ASSUME IInv, NEW r \in Requests, UseClientCredential(r)
    PROVE  IInv'
<1> DEFINE q == [req[r] EXCEPT !.pc = "send", !.key = NoKey]
<1>0. req[r] \in Request /\ RequestOK(r) /\ req[r].pc = "key"
  BY DEF IInv, TypeOK, UseClientCredential
<1>1. IsRelay(r) /\ req[r].attempt < Budget(r)
  BY DEF UseClientCredential, Budget
<1>2. q \in Request
  BY <1>0, CountersGrow DEF Request, Phases
<1>3. Moves(r, q)
  BY DEF UseClientCredential, Moves
<1>4. PoolTypeOK' /\ Router!RouterTypeOK'
  BY DEF UseClientCredential, IInv, TypeOK, PoolTypeOK, Router!RouterTypeOK
<1>5. RequestOK(r)'
  <2>1. /\ q.gen = req[r].gen /\ q.combo = req[r].combo /\ service' = service
    BY <1>0, <1>3 DEF Request, Moves
  <2>2. /\ req'[r] = q /\ MembersOf(r)' = MembersOf(r)
        /\ q.member = req[r].member => SamePlace(r)
    BY <1>3, <2>1, MoveKeepsPlace
  <2> QED BY <1>0, <2>1, <2>2, <1>1
           DEF RequestOK, RoutedOK, MemberOK, KeyOK, AttemptOK, RepliesOK, CallsOK, ExhaustedOK,
               Working, Keyed, SamePlace, Request
<1> QED BY <1>2, <1>3, <1>4, <1>5, MoveKeepsInvariant

(* The member given up is one of the combo.                                *)
LEMMA GiveUpMemberStep ==
    ASSUME IInv, NEW r \in Requests, GiveUpMember(r)
    PROVE  IInv'
<1> DEFINE q == [req[r] EXCEPT !.pc = "route", !.attemptedMembers = req[r].attemptedMembers \cup {req[r].member}]
<1>0. req[r] \in Request /\ RequestOK(r) /\ req[r].pc = "key"
  BY DEF IInv, TypeOK, GiveUpMember
<1>1. req[r].member \in Pairs
  BY <1>0, OfOwnMember DEF Working
<1>2. q \in Request
  BY <1>0, CountersGrow, <1>1 DEF Request, Phases
<1>3. Moves(r, q)
  BY DEF GiveUpMember, Moves
<1>4. PoolTypeOK' /\ Router!RouterTypeOK'
  BY DEF GiveUpMember, IInv, TypeOK, PoolTypeOK, Router!RouterTypeOK
<1>5. RequestOK(r)'
  <2>1. /\ q.gen = req[r].gen /\ q.combo = req[r].combo /\ service' = service
    BY <1>0, <1>3 DEF Request, Moves
  <2>2. /\ req'[r] = q /\ MembersOf(r)' = MembersOf(r)
        /\ q.member = req[r].member => SamePlace(r)
    BY <1>3, <2>1, MoveKeepsPlace
  <2> QED BY <1>0, <2>1, <2>2
           DEF RequestOK, RoutedOK, MemberOK, KeyOK, AttemptOK, RepliesOK, CallsOK, ExhaustedOK,
               Working, Keyed, SamePlace, Request
<1> QED BY <1>2, <1>3, <1>4, <1>5, MoveKeepsInvariant

(* An error answer is the one response and is recorded.                    *)
LEMMA DeliverErrorStep ==
    ASSUME IInv, NEW r \in Requests, NEW kind, DeliverError(r, kind)
    PROVE  IInv'
<1> DEFINE q == [req[r] EXCEPT !.pc = "done", !.reply = kind,
                                !.headers = req[r].headers + 1, !.rows = req[r].rows + 1]
<1>0. req[r] \in Request /\ RequestOK(r) /\ req[r].pc = "upstream"
  BY DEF IInv, TypeOK, DeliverError
<1>1. kind \in {"error", "neterr"}
  BY DEF DeliverError
<1>2. q \in Request
  BY <1>0, CountersGrow, <1>1 DEF Request, Phases, Replies
<1>3. Moves(r, q)
  BY DEF DeliverError, Moves
<1>4. PoolTypeOK' /\ Router!RouterTypeOK'
  BY DEF DeliverError, IInv, TypeOK, PoolTypeOK, Router!RouterTypeOK
<1>5. RequestOK(r)'
  <2>1. /\ q.gen = req[r].gen /\ q.combo = req[r].combo /\ service' = service
    BY <1>0, <1>3 DEF Request, Moves
  <2>2. /\ req'[r] = q /\ MembersOf(r)' = MembersOf(r)
        /\ q.member = req[r].member => SamePlace(r)
    BY <1>3, <2>1, MoveKeepsPlace
  <2> QED BY <1>0, <2>1, <2>2, <1>1
           DEF RequestOK, RoutedOK, MemberOK, KeyOK, AttemptOK, RepliesOK, CallsOK, ExhaustedOK,
               Working, Keyed, SamePlace, Request
<1> QED BY <1>2, <1>3, <1>4, <1>5, MoveKeepsInvariant

(* A stream begins the one response; its call is not recorded yet.         *)
LEMMA StartStreamStep ==
    ASSUME IInv, NEW r \in Requests, NEW outcome, StartStream(r, outcome)
    PROVE  IInv'
<1> DEFINE q == [req[r] EXCEPT !.pc = "stream", !.reply = outcome, !.headers = req[r].headers + 1]
<1>0. req[r] \in Request /\ RequestOK(r) /\ req[r].pc = "upstream"
  BY DEF IInv, TypeOK, StartStream
<1>1. outcome \in {"ok", "error"}
  BY DEF StartStream
<1>2. q \in Request
  BY <1>0, CountersGrow, <1>1 DEF Request, Phases, Replies
<1>3. Moves(r, q)
  BY DEF StartStream, Moves
<1>4. PoolTypeOK' /\ Router!RouterTypeOK'
  BY DEF StartStream, IInv, TypeOK, PoolTypeOK, Router!RouterTypeOK
<1>5. RequestOK(r)'
  <2>1. /\ q.gen = req[r].gen /\ q.combo = req[r].combo /\ service' = service
    BY <1>0, <1>3 DEF Request, Moves
  <2>2. /\ req'[r] = q /\ MembersOf(r)' = MembersOf(r)
        /\ q.member = req[r].member => SamePlace(r)
    BY <1>3, <2>1, MoveKeepsPlace
  <2> QED BY <1>0, <2>1, <2>2, <1>1
           DEF RequestOK, RoutedOK, MemberOK, KeyOK, AttemptOK, RepliesOK, CallsOK, ExhaustedOK,
               Working, Keyed, SamePlace, Request
<1> QED BY <1>2, <1>3, <1>4, <1>5, MoveKeepsInvariant

(* A complete answer is the one response and is recorded.                  *)
LEMMA DeliverStep ==
    ASSUME IInv, NEW r \in Requests, Deliver(r)
    PROVE  IInv'
<1> DEFINE q == [req[r] EXCEPT !.pc = "done", !.reply = "ok",
                                !.headers = req[r].headers + 1, !.rows = req[r].rows + 1]
<1>0. req[r] \in Request /\ RequestOK(r) /\ req[r].pc = "upstream"
  BY DEF IInv, TypeOK, Deliver
<1>1. q \in Request
  BY <1>0, CountersGrow DEF Request, Phases, Replies
<1>2. Moves(r, q)
  BY DEF Deliver, Moves
<1>3. PoolTypeOK' /\ Router!RouterTypeOK'
  BY <1>0, SuccessKeepsPools DEF Deliver, IInv, TypeOK, Router!RouterTypeOK, Keyed
<1>4. RequestOK(r)'
  <2>1. /\ q.gen = req[r].gen /\ q.combo = req[r].combo /\ service' = service
    BY <1>0, <1>2 DEF Request, Moves
  <2>2. /\ req'[r] = q /\ MembersOf(r)' = MembersOf(r)
        /\ q.member = req[r].member => SamePlace(r)
    BY <1>2, <2>1, MoveKeepsPlace
  <2> QED BY <1>0, <2>1, <2>2
           DEF RequestOK, RoutedOK, MemberOK, KeyOK, AttemptOK, RepliesOK, CallsOK, ExhaustedOK,
               Working, Keyed, SamePlace, Request
<1> QED BY <1>1, <1>2, <1>3, <1>4, MoveKeepsInvariant

(* The end of a stream records its call and starts no response.            *)
LEMMA FinishStreamStep ==
    ASSUME IInv, NEW r \in Requests, NEW broken \in BOOLEAN, FinishStream(r, broken)
    PROVE  IInv'
<1> DEFINE q == [req[r] EXCEPT !.pc = "done", !.rows = req[r].rows + 1,
                                !.reply = IF broken THEN "error" ELSE req[r].reply]
<1>0. req[r] \in Request /\ RequestOK(r) /\ req[r].pc = "stream"
  BY DEF IInv, TypeOK, FinishStream
<1>1. q \in Request
  BY <1>0, CountersGrow DEF Request, Phases, Replies
<1>2. Moves(r, q)
  BY DEF FinishStream, Moves
<1>3. PoolTypeOK' /\ Router!RouterTypeOK'
  BY <1>0, SuccessKeepsPools DEF FinishStream, IInv, TypeOK, Router!RouterTypeOK, Keyed
<1>4. RequestOK(r)'
  <2>1. /\ q.gen = req[r].gen /\ q.combo = req[r].combo /\ service' = service
    BY <1>0, <1>2 DEF Request, Moves
  <2>2. /\ req'[r] = q /\ MembersOf(r)' = MembersOf(r)
        /\ q.member = req[r].member => SamePlace(r)
    BY <1>2, <2>1, MoveKeepsPlace
  <2> QED BY <1>0, <2>1, <2>2
           DEF RequestOK, RoutedOK, MemberOK, KeyOK, AttemptOK, RepliesOK, CallsOK, ExhaustedOK,
               Working, Keyed, SamePlace, Request
<1> QED BY <1>1, <1>2, <1>3, <1>4, MoveKeepsInvariant

(* The key that cools is one of the pool the request uses.                 *)
LEMMA CoolKeyStep ==
    ASSUME IInv, NEW r \in Requests, CoolKey(r)
    PROVE  IInv'
<1> DEFINE q == [req[r] EXCEPT !.pc = "key", !.attempt = req[r].attempt + 1, !.seconds = 0]
<1>0. req[r] \in Request /\ RequestOK(r) /\ req[r].pc = "cool"
  BY DEF IInv, TypeOK, CoolKey
<1>1. /\ Provider(r) \in Providers /\ Model(r) \in Models /\ req[r].gen \in Gens
      /\ req[r].key \in Keys /\ req[r].attempt \in Nat /\ Budget(r) \in Nat
  BY <1>0, OfOwnMember, OfOwnSnapshot, KeyNamed DEF Working, Keyed, CoolKey, Request, Budget
<1>2. q \in Request
  BY <1>0, CountersGrow DEF Request, Phases
<1>3. Moves(r, q)
  BY DEF CoolKey, Moves
<1>4. PoolTypeOK' /\ Router!RouterTypeOK'
  BY <1>0, <1>1, RecordErrorType DEF CoolKey, IInv, TypeOK, Router!RouterTypeOK, Request
<1>5. RequestOK(r)'
  <2>1. /\ q.gen = req[r].gen /\ q.combo = req[r].combo /\ service' = service
    BY <1>0, <1>3 DEF Request, Moves
  <2>2. /\ req'[r] = q /\ MembersOf(r)' = MembersOf(r)
        /\ q.member = req[r].member => SamePlace(r)
    BY <1>3, <2>1, MoveKeepsPlace
  <2> QED BY <1>0, <1>1, <2>1, <2>2
           DEF RequestOK, RoutedOK, MemberOK, KeyOK, AttemptOK, RepliesOK, CallsOK, ExhaustedOK,
               Working, Keyed, SamePlace, Request
<1> QED BY <1>2, <1>3, <1>4, <1>5, MoveKeepsInvariant

(* The router moves its index to the position it handed out.               *)
LEMMA TakeMemberType ==
    ASSUME IInv, NEW r \in Requests, req[r].pc = "route", NEW i \in NextMembers(r),
           TakeMember(r, i), UNCHANGED <<cool, keyRR, used, errs>>
    PROVE  PoolTypeOK' /\ Router!RouterTypeOK'
<1>1. i \in Nat \ {0}
  BY OfOwnSnapshot, NextMembersInCombo
<1>2. memberRR' = memberRR \/ memberRR' = [memberRR EXCEPT ![req[r].gen][req[r].combo] = i]
  BY DEF TakeMember, Router!NextMemberEffect
<1>3. req[r].gen \in Gens /\ req[r].combo \in Combos
  BY OfOwnSnapshot
<1>4. PoolTypeOK'
  BY DEF IInv, TypeOK, PoolTypeOK
<1> QED BY <1>1, <1>2, <1>3, <1>4 DEF IInv, TypeOK, Router!RouterTypeOK

(* The member a request goes on with is one of its combo.                  *)
LEMMA SelectMemberStep ==
    ASSUME IInv, NEW r \in Requests, SelectMember(r)
    PROVE  IInv'
<1>0. req[r] \in Request /\ RequestOK(r) /\ req[r].pc = "route"
  BY DEF IInv, TypeOK, SelectMember
<1>1. PICK i \in NextMembers(r) :
         /\ TakeMember(r, i)
         /\ req' = [req EXCEPT ![r] = [@ EXCEPT !.pc = "key", !.member = MembersOf(r)[i],
                                                !.attempt = 0, !.attemptedKeys = {}]]
  BY DEF SelectMember
<1> DEFINE q == [req[r] EXCEPT !.pc = "key", !.member = MembersOf(r)[i],
                               !.attempt = 0, !.attemptedKeys = {}]
<1>2. /\ i \in DOMAIN MembersOf(r) /\ MembersOf(r)[i] \in Pairs
  BY <1>0, OfOwnSnapshot, NextMembersInCombo
<1>3. q \in Request
  BY <1>0, <1>2 DEF Request, Phases
<1>4. Moves(r, q)
  BY <1>1 DEF SelectMember, Moves
<1>5. PoolTypeOK' /\ Router!RouterTypeOK'
  BY <1>0, <1>1, TakeMemberType DEF SelectMember
<1>6. RequestOK(r)'
  <2>1. /\ q.gen = req[r].gen /\ q.combo = req[r].combo /\ service' = service
    BY <1>0, <1>4 DEF Request, Moves
  <2>2. req'[r] = q /\ MembersOf(r)' = MembersOf(r)
    BY <1>4, <2>1, MoveKeepsPlace
  <2>3. MemberOK(r)'
    BY <1>0, <1>2, <2>2 DEF MemberOK, Request
  <2>4. AttemptOK(r)'
    <3>1. req'[r].pc = "key" /\ req'[r].attempt = 0 /\ req'[r].member \in Pairs
      BY <1>0, <1>2, <2>2 DEF Request
    <3>2. Cfg(r)' = Cfg(r) /\ Cfg(r) \in Configs
      BY <1>0, <1>4, <2>1, MoveKeepsPlace, OfOwnSnapshot
    <3>3. Provider(r)' \in Providers
      BY <3>1 DEF Provider, Pairs
    <3>4. Budget(r)' \in Nat
      BY <3>2, <3>3, RetriesAssumption DEF Budget, MaxAttempts
    <3> QED BY <3>1, <3>4 DEF AttemptOK, Keyed
  <2> QED BY <1>0, <2>1, <2>2, <2>3, <2>4
           DEF RequestOK, RoutedOK, KeyOK, RepliesOK, CallsOK, ExhaustedOK, Keyed, Request
<1> QED BY <1>3, <1>4, <1>5, <1>6, MoveKeepsInvariant

(* An unroutable member costs the request its one response.                *)
LEMMA UnroutableStep ==
    ASSUME IInv, NEW r \in Requests, Unroutable(r)
    PROVE  IInv'
<1> DEFINE q == [req[r] EXCEPT !.pc = "done", !.reply = "refused",
                               !.headers = req[r].headers + 1]
<1>0. req[r] \in Request /\ RequestOK(r) /\ req[r].pc = "route"
  BY DEF IInv, TypeOK, Unroutable
<1>1. q \in Request
  BY <1>0, CountersGrow DEF Request, Phases, Replies
<1>2. Moves(r, q)
  BY DEF Unroutable, Moves
<1>3. PoolTypeOK' /\ Router!RouterTypeOK'
  BY <1>0, TakeMemberType DEF Unroutable
<1>4. RequestOK(r)'
  <2>1. /\ q.gen = req[r].gen /\ q.combo = req[r].combo /\ service' = service
    BY <1>0, <1>2 DEF Request, Moves
  <2>2. req'[r] = q /\ MembersOf(r)' = MembersOf(r)
    BY <1>2, <2>1, MoveKeepsPlace
  <2> QED BY <1>0, <2>1, <2>2
           DEF RequestOK, RoutedOK, MemberOK, KeyOK, AttemptOK, RepliesOK, CallsOK, ExhaustedOK,
               Working, Keyed, SamePlace, Request
<1> QED BY <1>1, <1>2, <1>3, <1>4, MoveKeepsInvariant

(* The key a request goes on with is listed for the provider of its member.*)
LEMMA SelectKeyStep ==
    ASSUME IInv, NEW r \in Requests, SelectKey(r)
    PROVE  IInv'
<1>0. req[r] \in Request /\ RequestOK(r) /\ req[r].pc = "key" /\ ~IsRelay(r)
      /\ req[r].attempt < Budget(r)
  BY DEF IInv, TypeOK, SelectKey, Budget
<1>1. PICK i \in NextKeys(r) :
         /\ GetEffect(req[r].gen, Provider(r), KeyStrategy[Cfg(r)][Provider(r)], i)
         /\ req' = [req EXCEPT ![r] =
                       [@ EXCEPT !.pc = "send", !.key = KeyList(r)[i],
                                 !.attemptedKeys = req[r].attemptedKeys \cup {KeyList(r)[i]}]]
  BY DEF SelectKey
<1> DEFINE q == [req[r] EXCEPT !.pc = "send", !.key = KeyList(r)[i],
                               !.attemptedKeys = req[r].attemptedKeys \cup {KeyList(r)[i]}]
<1>2. /\ KeyList(r) \in Seq(Keys) /\ i \in DOMAIN KeyList(r)
      /\ req[r].gen \in Gens /\ Provider(r) \in Providers
  BY <1>0, OfOwnMember, OfOwnSnapshot, GetIsEligible DEF Working, NextKeys, Eligible
<1>3. KeyList(r)[i] \in Keys /\ i \in Nat \ {0}
  BY <1>2
<1>4. q \in Request
  BY <1>0, <1>3 DEF Request, Phases
<1>5. Moves(r, q)
  BY <1>1 DEF SelectKey, Moves
<1>6. PoolTypeOK' /\ Router!RouterTypeOK'
  BY <1>1, <1>2, <1>3, GetEffectType DEF SelectKey, IInv, TypeOK, Router!RouterTypeOK
<1>7. RequestOK(r)'
  <2>1. /\ q.gen = req[r].gen /\ q.combo = req[r].combo /\ q.member = req[r].member
        /\ q.key = KeyList(r)[i] /\ service' = service
    BY <1>0, <1>5 DEF Request, Moves
  <2>2. /\ req'[r] = q /\ MembersOf(r)' = MembersOf(r)
        /\ SamePlace(r)
    BY <1>5, <2>1, MoveKeepsPlace
  <2>3. KeyOK(r)'
    BY <1>0, <1>2, <2>1, <2>2 DEF KeyOK, Listed, SamePlace
  <2> QED BY <1>0, <2>1, <2>2, <2>3
           DEF RequestOK, RoutedOK, MemberOK, AttemptOK, RepliesOK, CallsOK, ExhaustedOK,
               Working, SamePlace, Request
<1> QED BY <1>4, <1>5, <1>6, <1>7, MoveKeepsInvariant

(* An attempt a health rule matched is recorded before the request goes on.*)
LEMMA RuleMatchedStep ==
    ASSUME IInv, NEW r \in Requests, RuleMatched(r)
    PROVE  IInv'
<1> DEFINE next == [req[r] EXCEPT !.pc = "route", !.rows = req[r].rows + 1,
                                  !.attemptedMembers =
                                      req[r].attemptedMembers \cup {req[r].member}]
           cooling(s) == [req[r] EXCEPT !.pc = "cool", !.rows = req[r].rows + 1,
                                        !.seconds = s]
<1>0. req[r] \in Request /\ RequestOK(r) /\ req[r].pc = "upstream"
  BY DEF IInv, TypeOK, RuleMatched
<1>1. /\ req[r].member \in Pairs
      /\ Rules[Cfg(r)][Provider(r)][Model(r)] \subseteq Nat
  BY <1>0, OfOwnMember, OfOwnSnapshot, RulesAssumption DEF Working
<1>2. PoolTypeOK' /\ Router!RouterTypeOK'
  BY DEF RuleMatched, IInv, TypeOK, PoolTypeOK, Router!RouterTypeOK
<1>3. CASE IsRelay(r)
  <2>1. next \in Request
    BY <1>0, <1>1, CountersGrow DEF Request, Phases
  <2>2. Moves(r, next)
    BY <1>3 DEF RuleMatched, Moves
  <2>3. /\ next.gen = req[r].gen /\ next.combo = req[r].combo /\ service' = service
    BY <1>0, <2>2 DEF Request, Moves
  <2>4. req'[r] = next /\ MembersOf(r)' = MembersOf(r)
    BY <2>2, <2>3, MoveKeepsPlace
  <2>5. RequestOK(r)'
    BY <1>0, <2>3, <2>4
    DEF RequestOK, RoutedOK, MemberOK, KeyOK, AttemptOK, RepliesOK, CallsOK, ExhaustedOK,
        Working, Keyed, SamePlace, Request
  <2> QED BY <1>2, <2>1, <2>2, <2>5, MoveKeepsInvariant
<1>4. CASE ~IsRelay(r)
  <2>1. PICK s \in Nat : req' = [req EXCEPT ![r] = cooling(s)]
    BY <1>1, <1>4 DEF RuleMatched
  <2> DEFINE q == cooling(s)
  <2>2. q \in Request
    BY <1>0, CountersGrow DEF Request, Phases
  <2>3. Moves(r, q)
    BY <2>1 DEF RuleMatched, Moves
  <2>4. /\ q.gen = req[r].gen /\ q.combo = req[r].combo /\ q.member = req[r].member
        /\ q.key = req[r].key /\ service' = service
    BY <1>0, <2>3 DEF Request, Moves
  <2>5. /\ req'[r] = q /\ MembersOf(r)' = MembersOf(r)
        /\ SamePlace(r)
    BY <2>3, <2>4, MoveKeepsPlace
  <2>6. RequestOK(r)'
    BY <1>0, <1>4, <2>4, <2>5
    DEF RequestOK, RoutedOK, MemberOK, KeyOK, AttemptOK, RepliesOK, CallsOK, ExhaustedOK,
        Working, Keyed, SamePlace, Request
  <2> QED BY <1>2, <2>2, <2>3, <2>6, MoveKeepsInvariant
<1> QED BY <1>3, <1>4

(* Steps that leave every request alone.                                   *)
LEMMA RequestsUntouched ==
    ASSUME IInv, UNCHANGED <<service, config, req>>, PoolTypeOK', Router!RouterTypeOK'
    PROVE  IInv'
<1>1. TypeOK'
  BY DEF IInv, TypeOK
<1>2. ASSUME NEW s \in Requests
      PROVE  RequestOK(s)'
  BY DEF IInv, RequestOK, RoutedOK, MemberOK, KeyOK, AttemptOK, RepliesOK, CallsOK, ExhaustedOK,
         MembersOf, IsRelay, KeyList, Budget, Provider, Cfg
<1> QED BY <1>1, <1>2 DEF IInv

----------------------------------------------------------------------------
(* Nobody has arrived at the start.                                        *)
LEMMA InitInvariant ==
    ASSUME Init
    PROVE  IInv
<1>1. Fresh \in Request
  BY GensAssumption DEF Fresh, Request, Phases, Replies
<1>2. PoolTypeOK
  BY DEF Init, PoolInit, PoolTypeOK, NoCooldowns, NoStats
<1>3. Router!RouterTypeOK
  BY DEF Init, Router!RouterInit, Router!RouterTypeOK
<1>4. TypeOK
  BY <1>1, <1>2, <1>3, GensAssumption DEF Init, TypeOK
<1>5. ASSUME NEW r \in Requests
      PROVE  RequestOK(r)
  <2>1. /\ req[r].pc = "idle" /\ req[r].gen = 1 /\ req[r].headers = 0 /\ req[r].calls = 0
        /\ req[r].rows = 0 /\ req[r].reply = "none" /\ service = 1
    BY DEF Init, Fresh
  <2> QED BY <2>1 DEF RequestOK, RoutedOK, MemberOK, KeyOK, AttemptOK, RepliesOK, CallsOK, ExhaustedOK,
                      Working, Keyed
<1> QED BY <1>4, <1>5 DEF IInv

(* One case per action of a request; the clock touches no request.         *)
LEMMA StepInvariant ==
    ASSUME IInv, [Next]_vars
    PROVE  IInv'
<1>1. CASE UNCHANGED vars
  BY <1>1, RequestsUntouched
  DEF vars, IInv, TypeOK, PoolTypeOK, Router!RouterTypeOK
<1>2. CASE Tick
  BY <1>2, RequestsUntouched, ElapseType DEF Tick, IInv, TypeOK, Router!RouterTypeOK
<1>3. ASSUME NEW r \in Requests, Accept(r)
      PROVE  IInv'
  BY <1>3, ArriveStep, RefuseStep DEF Accept
<1>4. ASSUME NEW r \in Requests, Proceed(r)
      PROVE  IInv'
  BY <1>4, SelectMemberStep, UnroutableStep, ExhaustStep, SelectKeyStep,
     UseClientCredentialStep, GiveUpMemberStep, BuildFailsStep, SendStep, DeliverStep,
     DeliverErrorStep, RuleMatchedStep, CoolKeyStep, StartStreamStep, FinishStreamStep
  DEF Proceed
<1> QED BY <1>1, <1>2, <1>3, <1>4 DEF Next

(* IInv is an invariant: true at the start and kept by every step.         *)
THEOREM InvariantHolds == Spec => []IInv
  BY InitInvariant, StepInvariant, PTL DEF Spec

(* Every variable keeps its type, the counters included: they never go     *)
(* below zero whatever the requests and the clock do.                      *)
THEOREM TypeCorrect == Spec => []TypeOK
<1>1. IInv => TypeOK
  BY DEF IInv
<1> QED BY <1>1, InvariantHolds, PTL

(* The client sees one response, with any number of members, keys, retries *)
(* and concurrent requests.                                                *)
THEOREM OneReply == Spec => []SingleReply
<1>1. IInv => SingleReply
  BY DEF IInv, RequestOK, RepliesOK, SingleReply
<1> QED BY <1>1, InvariantHolds, PTL

(* Every upstream call is handed to the recorder exactly once.             *)
THEOREM CallsRecorded == Spec => []EveryCallRecorded
<1>1. IInv => EveryCallRecorded
  BY DEF IInv, RequestOK, CallsOK, EveryCallRecorded
<1> QED BY <1>1, InvariantHolds, PTL

(* "all providers exhausted" is only ever said of a combo all of whose     *)
(* members this request tried.                                             *)
THEOREM ExhaustedIsTrue == Spec => []ExhaustedMeansAllTried
<1>1. IInv => ExhaustedMeansAllTried
  BY DEF IInv, RequestOK, ExhaustedOK, ExhaustedMeansAllTried
<1> QED BY <1>1, InvariantHolds, PTL

(* A request works with members and keys of its own snapshot only.         *)
THEOREM OwnSnapshot == Spec => []InFlightUsesOwnSnapshot
<1>1. IInv => InFlightUsesOwnSnapshot
  BY DEF IInv, RequestOK, MemberOK, KeyOK, InFlightUsesOwnSnapshot, Working, Keyed
<1> QED BY <1>1, InvariantHolds, PTL

----------------------------------------------------------------------------
(* A member is given up early only when each of its keys was tried or is   *)
(* cooling for the model: the scan of Get misses none of them.             *)
LEMMA GiveUpStep ==
    ASSUME IInv, NEW r \in Requests, GiveUpMember(r), ~IsRelay(r)
    PROVE  \/ req[r].attempt = MaxAttempts(Cfg(r), Provider(r))
           \/ \A i \in DOMAIN KeyList(r) :
                 \/ KeyList(r)[i] \in req[r].attemptedKeys
                 \/ cool[req[r].gen][Provider(r)][KeyList(r)[i]][Model(r)] > 0
<1>1. /\ Provider(r) \in Providers /\ Model(r) \in Models /\ KeyList(r) \in Seq(Keys)
      /\ MaxAttempts(Cfg(r), Provider(r)) \in Nat /\ req[r].gen \in Gens /\ PoolTypeOK
      /\ req[r].attempt \in Nat /\ req[r].attempt <= MaxAttempts(Cfg(r), Provider(r))
  BY OfOwnMember, OfOwnSnapshot
  DEF GiveUpMember, Working, IInv, TypeOK, Request, RequestOK, AttemptOK, Budget
<1>2. CASE req[r].attempt >= MaxAttempts(Cfg(r), Provider(r))
  BY <1>1, <1>2
<1>3. CASE NextKeys(r) = {}
  <2>1. Eligible(req[r].gen, Provider(r), KeyList(r), Model(r), req[r].attemptedKeys) = {}
    BY <1>1, <1>3, GetFailsOnlyIfNoneEligible DEF NextKeys
  <2>2. ASSUME NEW i \in DOMAIN KeyList(r), KeyList(r)[i] \notin req[r].attemptedKeys
        PROVE  cool[req[r].gen][Provider(r)][KeyList(r)[i]][Model(r)] > 0
    <3>1. KeyList(r)[i] \in Keys
      BY <1>1
    <3>2. cool[req[r].gen][Provider(r)][KeyList(r)[i]][Model(r)] \in Nat
      BY <1>1, <3>1 DEF PoolTypeOK
    <3>3. cool[req[r].gen][Provider(r)][KeyList(r)[i]][Model(r)] # 0
      BY <2>1, <2>2 DEF Eligible, isAvailable
    <3> QED BY <3>2, <3>3
  <2> QED BY <2>2
<1> QED BY <1>2, <1>3 DEF GiveUpMember

(* Only giving up takes a request from its keys back to the router.        *)
LEMMA GivesUp ==
    ASSUME IInv, Next, NEW r \in Requests, req[r].pc = "key", req'[r].pc = "route"
    PROVE  GiveUpMember(r)
<1>1. CASE Tick
  BY <1>1 DEF Tick
<1>2. ASSUME NEW s \in Requests, Accept(s) \/ Proceed(s), s # r
      PROVE  FALSE
  <2>1. \E q : req' = [req EXCEPT ![s] = q]
    BY <1>2 DEF Accept, Proceed, Arrive, Refuse, SelectMember, Unroutable, Exhaust,
        SelectKey, UseClientCredential, GiveUpMember, BuildFails, Send, Deliver,
        DeliverError, RuleMatched, CoolKey, StartStream, FinishStream
  <2> QED BY <1>2, <2>1 DEF IInv, TypeOK
<1>3. ASSUME Accept(r) \/ Proceed(r)
      PROVE  GiveUpMember(r)
  <2>1. req[r] \in Request /\ req \in [Requests -> Request]
    BY DEF IInv, TypeOK
  <2>2. ~Accept(r)
    BY DEF Accept, Arrive, Refuse
  <2>3. ~SelectKey(r)
    <3>1. SelectKey(r) =>
             \E k, q : req' = [req EXCEPT ![r] = [req[r] EXCEPT !.pc = "send", !.key = k, !.attemptedKeys = q]]
      BY DEF SelectKey
    <3>2. SelectKey(r) => req'[r].pc = "send"
      BY <2>1, <3>1 DEF Request
    <3> QED BY <3>2
  <2>4. ~UseClientCredential(r)
    BY <2>1 DEF UseClientCredential, Request
  <2> QED BY <1>3, <2>2, <2>3, <2>4
          DEF Proceed, SelectMember, Unroutable, Exhaust, BuildFails, Send, Deliver,
              DeliverError, RuleMatched, CoolKey, StartStream, FinishStream
<1> QED BY <1>1, <1>2, <1>3 DEF Next

(* No member is given up while one of its keys could still be used, with   *)
(* key lists and member lists of any length.                               *)
THEOREM GiveUpIsJustified == Spec => GiveUpJustified
<1>1. ASSUME IInv, [Next]_vars
      PROVE  [\A r \in Requests :
                 (req[r].pc = "key" /\ req'[r].pc = "route" /\ ~IsRelay(r)) =>
                    \/ req[r].attempt = MaxAttempts(Cfg(r), Provider(r))
                    \/ \A i \in DOMAIN KeyList(r) :
                          \/ KeyList(r)[i] \in req[r].attemptedKeys
                          \/ cool[req[r].gen][Provider(r)][KeyList(r)[i]][Model(r)] > 0]_vars
  <2>1. CASE UNCHANGED vars
    BY <2>1
  <2>2. CASE Next
    BY <1>1, <2>2, GivesUp, GiveUpStep
  <2> QED BY <1>1, <2>1, <2>2
<1> QED BY <1>1, InvariantHolds, PTL DEF Spec, GiveUpJustified

----------------------------------------------------------------------------
(* The budget of upstream calls.  The invariant IInv does not bound calls; *)
(* what does is a running account: at the router the members given up so   *)
(* far pay for every call, and while a member is at work, its attempts     *)
(* pay for the rest.                                                       *)

Allowed(r, members) == Cardinality(AttemptsAllowed(Cfg(r), members))

SpendingOK(r) ==
    /\ IsFiniteSet(AttemptsAllowed(Cfg(r), req[r].attemptedMembers))
    /\ req[r].pc = "idle" => req[r].calls = 0 /\ req[r].attemptedMembers = {}
    /\ req[r].pc = "route" => req[r].calls <= Allowed(r, req[r].attemptedMembers)
    /\ req[r].pc \in Working =>
          /\ req[r].member \notin req[r].attemptedMembers
          /\ req[r].calls <= Allowed(r, req[r].attemptedMembers) + req[r].attempt
                               + (IF req[r].pc \in {"upstream", "cool", "stream"} THEN 1 ELSE 0)
    /\ req[r].pc = "done" /\ req[r].member # NoMember =>
          req[r].calls <= Allowed(r, req[r].attemptedMembers \cup {req[r].member})

BudgetInv == IInv /\ \A r \in Requests : SpendingOK(r)

(* One member allows as many attempts as its provider.                     *)
LEMMA AllowedOfOne ==
    ASSUME NEW c \in Configs, NEW x \in Pairs
    PROVE  /\ MaxAttempts(c, x[1]) \in Nat
           /\ IsFiniteSet({x} \X (1 .. MaxAttempts(c, x[1])))
           /\ Cardinality({x} \X (1 .. MaxAttempts(c, x[1]))) = MaxAttempts(c, x[1])
<1> DEFINE n == MaxAttempts(c, x[1])
<1>1. x[1] \in Providers
  BY DEF Pairs
<1>2. n \in Nat
  BY <1>1, RetriesAssumption DEF MaxAttempts
<1> HIDE DEF n
<1>3. IsFiniteSet(1 .. n) /\ Cardinality(1 .. n) = n
  BY <1>2, FS_Interval
<1>4. IsFiniteSet({x}) /\ Cardinality({x}) = 1
  BY FS_Singleton
<1> DEFINE attempts == 1 .. n
<1> HIDE DEF attempts
<1>5. /\ IsFiniteSet({x} \X attempts)
      /\ Cardinality({x} \X attempts) = Cardinality({x}) * Cardinality(attempts)
  <2>1. IsFiniteSet({x}) /\ IsFiniteSet(attempts)
    BY <1>3, <1>4 DEF attempts
  <2> QED BY ONLY <2>1, FS_Product
<1>6. 1 * n = n
  BY <1>2
<1> QED BY <1>2, <1>3, <1>4, <1>5, <1>6 DEF n, attempts

(* One member more allows its own attempts more.                           *)
LEMMA AllowedWithOneMore ==
    ASSUME NEW c \in Configs, NEW S, IsFiniteSet(AttemptsAllowed(c, S)), NEW x \in Pairs
    PROVE  /\ IsFiniteSet(AttemptsAllowed(c, S \cup {x}))
           /\ Cardinality(AttemptsAllowed(c, S)) \in Nat
           /\ Cardinality(AttemptsAllowed(c, S \cup {x})) \in Nat
           /\ Cardinality(AttemptsAllowed(c, S \cup {x})) >= Cardinality(AttemptsAllowed(c, S))
           /\ x \notin S =>
                 Cardinality(AttemptsAllowed(c, S \cup {x}))
                     = Cardinality(AttemptsAllowed(c, S)) + MaxAttempts(c, x[1])
<1> DEFINE own == {x} \X (1 .. MaxAttempts(c, x[1]))
           before == AttemptsAllowed(c, S)
           after == AttemptsAllowed(c, S \cup {x})
<1>1. after = before \cup own
  BY DEF AttemptsAllowed
<1>2. IsFiniteSet(own) /\ Cardinality(own) = MaxAttempts(c, x[1]) /\ MaxAttempts(c, x[1]) \in Nat
  BY AllowedOfOne
<1>3. x \notin S => before \cap own = {}
  BY DEF AttemptsAllowed
<1> HIDE DEF own, before, after
<1>4. /\ IsFiniteSet(after)
      /\ Cardinality(after) = Cardinality(before) + Cardinality(own) - Cardinality(before \cap own)
  BY <1>1, <1>2, FS_Union DEF before
<1>5. Cardinality(before) \in Nat /\ Cardinality(after) \in Nat
  BY <1>4, FS_CardinalityType DEF before
<1>6. Cardinality(before) <= Cardinality(after)
  BY <1>1, <1>4, FS_Subset
<1>7. x \notin S => Cardinality(after) = Cardinality(before) + MaxAttempts(c, x[1])
  <2> SUFFICES ASSUME x \notin S
               PROVE  Cardinality(after) = Cardinality(before) + MaxAttempts(c, x[1])
    OBVIOUS
  <2>1. Cardinality(before \cap own) = 0
    BY <1>3, FS_EmptySet
  <2> QED BY <1>2, <1>4, <1>5, <2>1
<1> QED BY <1>4, <1>5, <1>6, <1>7 DEF before, after

(* What the steps of r need to know of its account.                        *)
LEMMA AccountOf ==
    ASSUME BudgetInv, NEW r \in Requests, req[r].pc # "idle"
    PROVE  /\ req[r].calls \in Nat /\ req[r].attempt \in Nat
           /\ Cfg(r) \in Configs
           /\ Allowed(r, req[r].attemptedMembers) \in Nat
           /\ IsFiniteSet(AttemptsAllowed(Cfg(r), req[r].attemptedMembers))
           /\ \A x \in Pairs :
                 /\ IsFiniteSet(AttemptsAllowed(Cfg(r), req[r].attemptedMembers \cup {x}))
                 /\ Allowed(r, req[r].attemptedMembers \cup {x}) \in Nat
                 /\ Allowed(r, req[r].attemptedMembers \cup {x})
                       >= Allowed(r, req[r].attemptedMembers)
                 /\ x \notin req[r].attemptedMembers =>
                       Allowed(r, req[r].attemptedMembers \cup {x})
                           = Allowed(r, req[r].attemptedMembers) + MaxAttempts(Cfg(r), x[1])
<1>1. req[r].calls \in Nat /\ req[r].attempt \in Nat /\ Cfg(r) \in Configs
  BY DEF BudgetInv, IInv, TypeOK, Request, Cfg
<1>2. IsFiniteSet(AttemptsAllowed(Cfg(r), req[r].attemptedMembers))
  BY DEF BudgetInv, SpendingOK
<1>3. Allowed(r, req[r].attemptedMembers) \in Nat
  BY <1>2, FS_CardinalityType DEF Allowed
<1> QED BY <1>1, <1>2, <1>3, AllowedWithOneMore DEF Allowed

(* A step of r leaves the accounts of the other requests alone.            *)
LEMMA MoveKeepsAccounts ==
    ASSUME BudgetInv, NEW r \in Requests, NEW q, Moves(r, q), IInv', SpendingOK(r)'
    PROVE  BudgetInv'
<1>1. ASSUME NEW s \in Requests, s # r
      PROVE  SpendingOK(s)'
  <2>1. req'[s] = req[s] /\ Cfg(s)' = Cfg(s)
    BY <1>1 DEF Moves, BudgetInv, IInv, TypeOK, Cfg
  <2> QED BY <2>1 DEF BudgetInv, SpendingOK, Allowed
<1> QED BY <1>1 DEF BudgetInv

(* The account after a step that stays in the same snapshot.               *)
LEMMA AccountAfter ==
    ASSUME BudgetInv, NEW r \in Requests, NEW q, Moves(r, q), q.gen = req[r].gen,
           q.combo = req[r].combo
    PROVE  /\ req'[r] = q /\ Cfg(r)' = Cfg(r)
           /\ \A S : Allowed(r, S)' = Allowed(r, S)
<1>1. req'[r] = q /\ Cfg(r)' = Cfg(r)
  BY MoveKeepsPlace DEF BudgetInv
<1> QED BY <1>1 DEF Allowed

(* The attempts of a member at work pay for the calls made with it.        *)
LEMMA Paid ==
    ASSUME BudgetInv, NEW r \in Requests, req[r].pc \in Working
    PROVE  /\ req[r].member \in Pairs
           /\ req[r].calls <= Allowed(r, req[r].attemptedMembers \cup {req[r].member})
<1> DEFINE before == Allowed(r, req[r].attemptedMembers)
           after  == Allowed(r, req[r].attemptedMembers \cup {req[r].member})
<1>1. req[r].member \in Pairs /\ Budget(r) \in Nat
  BY OfOwnMember DEF BudgetInv, Budget
<1>2. req[r].pc # "idle"
  BY DEF Working
<1>3. /\ req[r].calls \in Nat /\ req[r].attempt \in Nat /\ before \in Nat /\ after \in Nat
      /\ req[r].member \notin req[r].attemptedMembers => after = before + Budget(r)
  BY <1>1, <1>2, AccountOf DEF Budget, Provider
<1>4. /\ req[r].member \notin req[r].attemptedMembers
      /\ req[r].calls <= before + req[r].attempt
                           + (IF req[r].pc \in {"upstream", "cool", "stream"} THEN 1 ELSE 0)
  BY DEF BudgetInv, SpendingOK
<1>5. /\ req[r].pc = "key" => req[r].attempt <= Budget(r)
      /\ req[r].pc # "key" => req[r].attempt < Budget(r)
  BY DEF BudgetInv, IInv, RequestOK, AttemptOK, Working, Keyed
<1> HIDE DEF before, after
<1>6. req[r].calls <= after
  BY <1>1, <1>3, <1>4, <1>5
<1> QED BY <1>1, <1>6 DEF after

(* A request begins with no call to its account.                           *)
LEMMA ArriveAccount ==
    ASSUME BudgetInv, NEW r \in Requests, NEW b, NEW m, Arrive(r, b, m)
    PROVE  SpendingOK(r)'
<1> DEFINE q == [req[r] EXCEPT !.pc = "route", !.gen = service, !.combo = b, !.relayModel = m]
<1>1. /\ req'[r] = q /\ req[r] \in Request /\ req[r].calls = 0
      /\ req[r].attemptedMembers = {}
  BY DEF Arrive, BudgetInv, IInv, TypeOK, SpendingOK
<1>2. /\ req'[r].pc = "route" /\ req'[r].calls = 0 /\ req'[r].attemptedMembers = {}
  BY <1>1 DEF Request
<1>3. AttemptsAllowed(Cfg(r)', {}) = {}
  BY DEF AttemptsAllowed
<1>4. Cardinality({}) = 0 /\ IsFiniteSet({})
  BY FS_EmptySet
<1> QED BY <1>2, <1>3, <1>4 DEF SpendingOK, Allowed, Working

(* A request that goes on with the same member stays within its account if *)
(* each call is matched by an attempt begun.                               *)
LEMMA WorkAccount ==
    ASSUME BudgetInv, NEW r \in Requests, NEW q \in Request, Moves(r, q),
           req[r].pc \in Working, q.pc \in Working,
           q.gen = req[r].gen, q.combo = req[r].combo, q.member = req[r].member,
           q.attemptedMembers = req[r].attemptedMembers,
           q.calls + req[r].attempt
               + (IF req[r].pc \in {"upstream", "cool", "stream"} THEN 1 ELSE 0)
             <= req[r].calls + q.attempt
               + (IF q.pc \in {"upstream", "cool", "stream"} THEN 1 ELSE 0)
    PROVE  SpendingOK(r)'
<1> DEFINE before == Allowed(r, req[r].attemptedMembers)
           credit(pc) == IF pc \in {"upstream", "cool", "stream"} THEN 1 ELSE 0
<1>1. /\ req'[r] = q /\ Cfg(r)' = Cfg(r)
      /\ Allowed(r, req[r].attemptedMembers)' = before
  <2>1. /\ req'[r] = q /\ Cfg(r)' = Cfg(r)
    BY AccountAfter
  <2>2. req'[r].attemptedMembers = req[r].attemptedMembers
    BY <2>1
  <2> QED BY <2>1, <2>2 DEF Allowed
<1>2. /\ req[r].calls \in Nat /\ req[r].attempt \in Nat /\ before \in Nat
      /\ IsFiniteSet(AttemptsAllowed(Cfg(r), req[r].attemptedMembers))
  BY AccountOf DEF Working
<1>3. q.calls \in Nat /\ q.attempt \in Nat
  BY DEF Request
<1>4. /\ req[r].member \notin req[r].attemptedMembers
      /\ req[r].calls <= before + req[r].attempt + credit(req[r].pc)
  BY DEF BudgetInv, SpendingOK
<1>5. credit(req[r].pc) \in Nat /\ credit(q.pc) \in Nat
  OBVIOUS
<1>6. q.calls <= before + q.attempt + credit(q.pc)
  <2> HIDE DEF before, credit
  <2>1. q.calls + req[r].attempt + credit(req[r].pc) <= req[r].calls + q.attempt + credit(q.pc)
    BY DEF credit
  <2> QED BY <1>2, <1>3, <1>4, <1>5, <2>1
<1>7. Allowed(r, q.attemptedMembers)' = before
  BY <1>1 DEF Allowed
<1>8. q.pc \notin {"idle", "route", "done"}
  BY DEF Working
<1> QED BY <1>1, <1>2, <1>4, <1>6, <1>7, <1>8 DEF SpendingOK, Allowed

(* A request that leaves its member, or answers, has paid for its calls.   *)
LEMMA SettledAccount ==
    ASSUME BudgetInv, NEW r \in Requests, NEW q \in Request, Moves(r, q),
           req[r].pc \in Working,
           q.gen = req[r].gen, q.combo = req[r].combo, q.member = req[r].member,
           q.calls = req[r].calls,
           \/ q.pc = "done" /\ q.attemptedMembers = req[r].attemptedMembers
           \/ q.pc = "route" /\ q.attemptedMembers = req[r].attemptedMembers \cup {req[r].member}
    PROVE  SpendingOK(r)'
<1>1. /\ req'[r] = q /\ Cfg(r)' = Cfg(r)
      /\ \A S : Allowed(r, S)' = Allowed(r, S)
  BY AccountAfter
<1>2. /\ req[r].member \in Pairs
      /\ req[r].calls <= Allowed(r, req[r].attemptedMembers \cup {req[r].member})
  BY Paid
<1>3. /\ IsFiniteSet(AttemptsAllowed(Cfg(r), req[r].attemptedMembers))
      /\ IsFiniteSet(AttemptsAllowed(Cfg(r), req[r].attemptedMembers \cup {req[r].member}))
  BY <1>2, AccountOf DEF Working
<1> QED BY <1>1, <1>2, <1>3 DEF SpendingOK, Allowed, Working

(* A request answered at the router has paid already.                      *)
LEMMA RouterAnswerAccount ==
    ASSUME BudgetInv, NEW r \in Requests, NEW q \in Request, Moves(r, q),
           req[r].pc = "route", q.pc = "done",
           q.gen = req[r].gen, q.combo = req[r].combo, q.member = req[r].member,
           q.calls = req[r].calls, q.attemptedMembers = req[r].attemptedMembers
    PROVE  SpendingOK(r)'
<1> DEFINE before == Allowed(r, req[r].attemptedMembers)
           after  == Allowed(r, req[r].attemptedMembers \cup {req[r].member})
<1>1. /\ req'[r] = q /\ Cfg(r)' = Cfg(r)
      /\ \A S : Allowed(r, S)' = Allowed(r, S)
  BY AccountAfter
<1>2. /\ IsFiniteSet(AttemptsAllowed(Cfg(r), req[r].attemptedMembers))
      /\ req[r].calls <= before /\ req[r].calls \in Nat /\ before \in Nat
  BY AccountOf DEF BudgetInv, SpendingOK
<1>3. req[r].member # NoMember => after \in Nat /\ after >= before
  BY AccountOf DEF BudgetInv, IInv, TypeOK, Request
<1>4. req[r].member # NoMember => req[r].calls <= after
  <2> HIDE DEF before, after
  <2> QED BY <1>2, <1>3
<1> QED BY <1>1, <1>2, <1>4 DEF SpendingOK, Allowed, Working

(* The router hands out a member whose attempts are not spent.             *)
LEMMA SelectMemberAccount ==
    ASSUME BudgetInv, NEW r \in Requests, SelectMember(r)
    PROVE  SpendingOK(r)' /\ \E q : Moves(r, q)
<1> DEFINE q(i) == [req[r] EXCEPT !.pc = "key", !.member = MembersOf(r)[i],
                                  !.attempt = 0, !.attemptedKeys = {}]
<1>1. PICK i \in NextMembers(r) : req' = [req EXCEPT ![r] = q(i)]
  BY DEF SelectMember
<1>2. Moves(r, q(i)) /\ req[r] \in Request /\ req[r].pc = "route"
  BY <1>1 DEF SelectMember, Moves, BudgetInv, IInv, TypeOK
<1>3. MembersOf(r)[i] \notin req[r].attemptedMembers
  BY NextMembersInCombo
<1>4. /\ q(i).pc = "key" /\ q(i).attempt = 0 /\ q(i).member = MembersOf(r)[i]
      /\ q(i).calls = req[r].calls /\ q(i).attemptedMembers = req[r].attemptedMembers
      /\ q(i).gen = req[r].gen /\ q(i).combo = req[r].combo
  BY <1>2 DEF Request
<1>5. /\ req'[r] = q(i) /\ Cfg(r)' = Cfg(r)
      /\ \A S : Allowed(r, S)' = Allowed(r, S)
  BY <1>2, <1>4, AccountAfter
<1>6. /\ req[r].calls <= Allowed(r, req[r].attemptedMembers)
      /\ Allowed(r, req[r].attemptedMembers) \in Nat
      /\ IsFiniteSet(AttemptsAllowed(Cfg(r), req[r].attemptedMembers))
  BY <1>2, AccountOf DEF BudgetInv, SpendingOK
<1> HIDE DEF q
<1>7. SpendingOK(r)'
  BY <1>3, <1>4, <1>5, <1>6 DEF SpendingOK, Allowed, Working
<1> QED BY <1>2, <1>7

(* The steps between attempts: one call per attempt.                       *)
LEMMA AttemptAccount ==
    ASSUME BudgetInv, NEW r \in Requests, IInv',
           \/ SelectKey(r) \/ UseClientCredential(r) \/ Send(r) \/ CoolKey(r)
           \/ (\E outcome \in {"ok", "error"} : StartStream(r, outcome))
           \/ (RuleMatched(r) /\ ~IsRelay(r))
    PROVE  SpendingOK(r)' /\ \E q : Moves(r, q)
<1> DEFINE q == req'[r]
           Within(pc, qc) ==
               /\ req[r].pc = pc /\ q.pc \in qc
               /\ q.gen = req[r].gen /\ q.combo = req[r].combo /\ q.member = req[r].member
               /\ q.attemptedMembers = req[r].attemptedMembers
<1>0. /\ req \in [Requests -> Request] /\ req' \in [Requests -> Request]
      /\ req[r] \in Request /\ q \in Request
  BY DEF BudgetInv, IInv, TypeOK
<1>1. /\ q.calls \in Nat /\ q.attempt \in Nat /\ req[r].calls \in Nat /\ req[r].attempt \in Nat
  BY <1>0 DEF Request
<1>2. Moves(r, q)
  <2>1. UNCHANGED <<service, config>>
    BY DEF SelectKey, UseClientCredential, Send, CoolKey, StartStream, RuleMatched
  <2>2. \E z : req' = [req EXCEPT ![r] = z]
    BY DEF SelectKey, UseClientCredential, Send, CoolKey, StartStream, RuleMatched
  <2> QED BY <1>0, <2>1, <2>2 DEF Moves
<1>3. CASE SelectKey(r)
  <2>1. PICK i : req' = [req EXCEPT ![r] = [@ EXCEPT !.pc = "send", !.key = KeyList(r)[i],
                   !.attemptedKeys = req[r].attemptedKeys \cup {KeyList(r)[i]}]]
    BY <1>3 DEF SelectKey
  <2>2. Within("key", {"send"}) /\ q.calls = req[r].calls /\ q.attempt = req[r].attempt
    BY <1>0, <1>3, <2>1 DEF SelectKey, Request
  <2> QED BY <1>0, <1>1, <1>2, <2>2, WorkAccount DEF Working
<1>8. CASE UseClientCredential(r)
  <2>1. Within("key", {"send"}) /\ q.calls = req[r].calls /\ q.attempt = req[r].attempt
    BY <1>0, <1>8 DEF UseClientCredential, Request
  <2> QED BY <1>0, <1>1, <1>2, <2>1, WorkAccount DEF Working
<1>4. CASE Send(r)
  <2>1. Within("send", {"upstream"}) /\ q.calls = req[r].calls + 1 /\ q.attempt = req[r].attempt
    BY <1>0, <1>4 DEF Send, Request
  <2> QED BY <1>0, <1>1, <1>2, <2>1, WorkAccount DEF Working
<1>5. CASE CoolKey(r)
  <2>1. Within("cool", {"key"}) /\ q.calls = req[r].calls /\ q.attempt = req[r].attempt + 1
    BY <1>0, <1>5 DEF CoolKey, Request
  <2> QED BY <1>0, <1>1, <1>2, <2>1, WorkAccount DEF Working
<1>6. CASE \E outcome \in {"ok", "error"} : StartStream(r, outcome)
  <2>1. Within("upstream", {"stream"}) /\ q.calls = req[r].calls /\ q.attempt = req[r].attempt
    BY <1>0, <1>6 DEF StartStream, Request
  <2> QED BY <1>0, <1>1, <1>2, <2>1, WorkAccount DEF Working
<1>7. CASE RuleMatched(r) /\ ~IsRelay(r)
  <2>0. PICK n : req' = [req EXCEPT ![r] = [@ EXCEPT !.pc = "cool", !.rows = req[r].rows + 1,
                                                     !.seconds = n]]
    BY <1>7 DEF RuleMatched
  <2>1. Within("upstream", {"cool"}) /\ q.calls = req[r].calls /\ q.attempt = req[r].attempt
    BY <1>0, <1>7, <2>0 DEF RuleMatched, Request
  <2> QED BY <1>0, <1>1, <1>2, <2>1, WorkAccount DEF Working
<1> QED BY <1>3, <1>4, <1>5, <1>6, <1>7, <1>8

(* The steps that end the work with a member.                              *)
LEMMA SettlingAccount ==
    ASSUME BudgetInv, NEW r \in Requests, IInv',
           \/ GiveUpMember(r) \/ (RuleMatched(r) /\ IsRelay(r))
           \/ BuildFails(r) \/ Deliver(r)
           \/ (\E kind \in {"error", "neterr"} : DeliverError(r, kind))
           \/ (\E broken \in BOOLEAN : FinishStream(r, broken))
    PROVE  SpendingOK(r)' /\ \E q : Moves(r, q)
<1> DEFINE q == req'[r]
           Kept == /\ req[r].pc \in Working
                   /\ q.gen = req[r].gen /\ q.combo = req[r].combo
                   /\ q.member = req[r].member /\ q.calls = req[r].calls
<1>0. /\ req \in [Requests -> Request] /\ req' \in [Requests -> Request]
      /\ req[r] \in Request /\ q \in Request
  BY DEF BudgetInv, IInv, TypeOK
<1>1. Moves(r, q)
  <2>1. UNCHANGED <<service, config>>
    BY DEF GiveUpMember, BuildFails, Deliver, DeliverError, FinishStream, RuleMatched
  <2>2. \E z : req' = [req EXCEPT ![r] = z]
    BY DEF GiveUpMember, BuildFails, Deliver, DeliverError, FinishStream, RuleMatched
  <2> QED BY <1>0, <2>1, <2>2 DEF Moves
<1>2. CASE GiveUpMember(r) \/ (RuleMatched(r) /\ IsRelay(r))
  <2>0. /\ req[r].pc \in {"key", "upstream"}
        /\ \/ req' = [req EXCEPT ![r] = [@ EXCEPT !.pc = "route",
                         !.attemptedMembers = req[r].attemptedMembers \cup {req[r].member}]]
           \/ req' = [req EXCEPT ![r] = [@ EXCEPT !.pc = "route", !.rows = req[r].rows + 1,
                         !.attemptedMembers = req[r].attemptedMembers \cup {req[r].member}]]
    BY <1>2 DEF GiveUpMember, RuleMatched
  <2>1. /\ Kept /\ q.pc = "route"
        /\ q.attemptedMembers = req[r].attemptedMembers \cup {req[r].member}
    <3>1. CASE req' = [req EXCEPT ![r] = [@ EXCEPT !.pc = "route",
                         !.attemptedMembers = req[r].attemptedMembers \cup {req[r].member}]]
      BY <1>0, <2>0, <3>1 DEF Request, Working
    <3>2. CASE req' = [req EXCEPT ![r] = [@ EXCEPT !.pc = "route", !.rows = req[r].rows + 1,
                         !.attemptedMembers = req[r].attemptedMembers \cup {req[r].member}]]
      BY <1>0, <2>0, <3>2 DEF Request, Working
    <3> QED BY <2>0, <3>1, <3>2
  <2> QED BY <1>0, <1>1, <2>1, SettledAccount
<1>3. CASE BuildFails(r) \/ Deliver(r)
  <2>1. Kept /\ q.pc = "done" /\ q.attemptedMembers = req[r].attemptedMembers
    <3>1. CASE BuildFails(r)
      BY <1>0, <3>1 DEF BuildFails, Request, Working
    <3>2. CASE Deliver(r)
      <4>1. /\ req[r].pc = "upstream"
            /\ req' = [req EXCEPT ![r] = [@ EXCEPT !.pc = "done", !.reply = "ok",
                         !.headers = req[r].headers + 1, !.rows = req[r].rows + 1]]
        BY <3>2 DEF Deliver
      <4> QED BY <1>0, <4>1 DEF Request, Working
    <3> QED BY <1>3, <3>1, <3>2
  <2> QED BY <1>0, <1>1, <2>1, SettledAccount
<1>4. CASE (\E kind \in {"error", "neterr"} : DeliverError(r, kind))
  <2>1. Kept /\ q.pc = "done" /\ q.attemptedMembers = req[r].attemptedMembers
    BY <1>0, <1>4 DEF DeliverError, Request, Working
  <2> QED BY <1>0, <1>1, <2>1, SettledAccount
<1>5. CASE (\E broken \in BOOLEAN : FinishStream(r, broken))
  <2>1. Kept /\ q.pc = "done" /\ q.attemptedMembers = req[r].attemptedMembers
    <3>1. /\ req[r].pc = "stream"
          /\ \E z : req' = [req EXCEPT ![r] = [@ EXCEPT !.pc = "done", !.rows = req[r].rows + 1,
                                                        !.reply = z]]
      BY <1>5 DEF FinishStream
    <3> QED BY <1>0, <3>1 DEF Request, Working
  <2> QED BY <1>0, <1>1, <2>1, SettledAccount
<1> QED BY <1>2, <1>3, <1>4, <1>5

(* The steps before a member is at work, the answers of the router included*)
LEMMA RouterAccount ==
    ASSUME BudgetInv, NEW r \in Requests, IInv',
           \/ (\E b \in Combos, m \in Models \cup {NoModel} : Arrive(r, b, m))
           \/ Refuse(r) \/ SelectMember(r) \/ Unroutable(r) \/ Exhaust(r)
    PROVE  SpendingOK(r)' /\ \E q : Moves(r, q)
<1> DEFINE q == req'[r]
<1>0. /\ req \in [Requests -> Request] /\ req' \in [Requests -> Request]
      /\ req[r] \in Request /\ q \in Request
  BY DEF BudgetInv, IInv, TypeOK
<1>1. CASE SelectMember(r)
  BY <1>1, SelectMemberAccount
<1>2. CASE \E b \in Combos, m \in Models \cup {NoModel} : Arrive(r, b, m)
  <2>1. \E z : Moves(r, z)
    BY <1>2 DEF Arrive, Moves
  <2> QED BY <1>2, <2>1, ArriveAccount
<1>3. CASE Refuse(r)
  <2>1. Moves(r, q)
    BY <1>0, <1>3 DEF Refuse, Moves
  <2>2. /\ req[r].pc = "idle" /\ q.pc = "done" /\ q.calls = req[r].calls
        /\ q.attemptedMembers = req[r].attemptedMembers
    BY <1>0, <1>3 DEF Refuse, Request
  <2>3. req[r].calls = 0 /\ req[r].attemptedMembers = {}
    BY <2>2 DEF BudgetInv, SpendingOK
  <2>4. AttemptsAllowed(Cfg(r)', {}) = {} /\ IsFiniteSet({})
    BY FS_EmptySet DEF AttemptsAllowed
  <2>5. q.member # NoMember => (Allowed(r, req[r].attemptedMembers \cup {req[r].member}))' >= 0
    <3>1. ASSUME q.member # NoMember
          PROVE  /\ q.member \in Pairs /\ Cfg(r)' \in Configs
                 /\ AttemptsAllowed(Cfg(r)', q.attemptedMembers) = {}
      BY <1>0, <2>2, <2>3, <2>4, <3>1 DEF Request, IInv, TypeOK, Cfg
    <3>2. ASSUME NEW c \in Configs, NEW x \in Pairs
          PROVE  Cardinality(AttemptsAllowed(c, {} \cup {x})) >= 0
      <4>1. IsFiniteSet(AttemptsAllowed(c, {}))
        BY FS_EmptySet DEF AttemptsAllowed
      <4>2. Cardinality(AttemptsAllowed(c, {} \cup {x})) \in Nat
        BY <4>1, AllowedWithOneMore
      <4> QED BY <4>2
    <3> QED BY <2>2, <2>3, <3>1, <3>2 DEF Allowed
  <2> QED BY <2>1, <2>2, <2>3, <2>4, <2>5 DEF SpendingOK, Working
<1>4. CASE Unroutable(r) \/ Exhaust(r)
  <2>1. Moves(r, q)
    BY <1>0, <1>4 DEF Unroutable, Exhaust, Moves
  <2>2. /\ req[r].pc = "route" /\ q.pc = "done" /\ q.calls = req[r].calls
        /\ q.gen = req[r].gen /\ q.combo = req[r].combo /\ q.member = req[r].member
        /\ q.attemptedMembers = req[r].attemptedMembers
    <3>1. /\ req[r].pc = "route"
          /\ \E z : req' = [req EXCEPT ![r] = [@ EXCEPT !.pc = "done", !.reply = z,
                                                        !.headers = req[r].headers + 1]]
      BY <1>4 DEF Unroutable, Exhaust
    <3> QED BY <1>0, <3>1 DEF Request
  <2> QED BY <1>0, <2>1, <2>2, RouterAnswerAccount
<1> QED BY <1>1, <1>2, <1>3, <1>4

(* The account is kept by every step.                                      *)
LEMMA StepBudget ==
    ASSUME BudgetInv, [Next]_vars
    PROVE  BudgetInv'
<1>1. IInv'
  BY StepInvariant DEF BudgetInv
<1>2. CASE UNCHANGED vars \/ Tick
  <2>1. UNCHANGED <<config, req>>
    BY <1>2 DEF vars, Tick
  <2> QED BY <1>1, <2>1 DEF BudgetInv, SpendingOK, Allowed, Cfg
<1>3. ASSUME NEW r \in Requests, Accept(r) \/ Proceed(r)
      PROVE  BudgetInv'
  <2>1. SpendingOK(r)' /\ \E q : Moves(r, q)
    <3>1. CASE Accept(r) \/ SelectMember(r) \/ Unroutable(r) \/ Exhaust(r)
      BY <1>1, <3>1, RouterAccount DEF Accept
    <3>2. CASE \/ SelectKey(r) \/ UseClientCredential(r) \/ Send(r) \/ CoolKey(r)
               \/ (\E outcome \in {"ok", "error"} : StartStream(r, outcome))
               \/ (RuleMatched(r) /\ ~IsRelay(r))
      BY <1>1, <3>2, AttemptAccount
    <3>3. CASE \/ GiveUpMember(r) \/ (RuleMatched(r) /\ IsRelay(r))
               \/ BuildFails(r) \/ Deliver(r)
               \/ (\E kind \in {"error", "neterr"} : DeliverError(r, kind))
               \/ (\E broken \in BOOLEAN : FinishStream(r, broken))
      BY <1>1, <3>3, SettlingAccount
    <3> QED BY <1>3, <3>1, <3>2, <3>3 DEF Proceed
  <2> QED BY <1>1, <2>1, MoveKeepsAccounts
<1> QED BY <1>2, <1>3 DEF Next

(* No account is open at the start.                                        *)
LEMMA InitBudget ==
    ASSUME Init
    PROVE  BudgetInv
<1>1. ASSUME NEW r \in Requests
      PROVE  SpendingOK(r)
  <2>1. /\ req[r].pc = "idle" /\ req[r].calls = 0 /\ req[r].attemptedMembers = {}
    BY DEF Init, Fresh
  <2>2. AttemptsAllowed(Cfg(r), {}) = {} /\ IsFiniteSet({})
    BY FS_EmptySet DEF AttemptsAllowed
  <2> QED BY <2>1, <2>2 DEF SpendingOK, Working
<1> QED BY <1>1, InitInvariant DEF BudgetInv

(* The account bounds the calls.                                           *)
LEMMA BudgetBoundsCalls ==
    ASSUME BudgetInv
    PROVE  CallsWithinBudget
<1> SUFFICES ASSUME NEW r \in Requests, req[r].member # NoMember
             PROVE  req[r].calls <= Allowed(r, req[r].attemptedMembers \cup {req[r].member})
  BY DEF CallsWithinBudget, Allowed
<1>0. req[r] \in Request /\ req[r].member \in Pairs
  BY DEF BudgetInv, IInv, TypeOK, Request
<1>1. CASE req[r].pc \in Working
  BY <1>1, Paid
<1>2. CASE req[r].pc = "route"
  <2>1. /\ req[r].calls \in Nat /\ Allowed(r, req[r].attemptedMembers) \in Nat
        /\ Allowed(r, req[r].attemptedMembers \cup {req[r].member}) \in Nat
        /\ Allowed(r, req[r].attemptedMembers)
              <= Allowed(r, req[r].attemptedMembers \cup {req[r].member})
        /\ req[r].calls <= Allowed(r, req[r].attemptedMembers)
    BY <1>0, <1>2, AccountOf DEF BudgetInv, SpendingOK
  <2> QED BY <2>1
<1>3. CASE req[r].pc = "done"
  BY <1>3 DEF BudgetInv, SpendingOK
<1>4. CASE req[r].pc = "idle"
  <2>1. /\ req[r].calls = 0 /\ Cfg(r) \in Configs
        /\ IsFiniteSet(AttemptsAllowed(Cfg(r), req[r].attemptedMembers))
    BY <1>4 DEF BudgetInv, SpendingOK, IInv, TypeOK, Request, Cfg
  <2>2. Allowed(r, req[r].attemptedMembers \cup {req[r].member}) \in Nat
    BY <1>0, <2>1, AllowedWithOneMore DEF Allowed
  <2> QED BY <2>1, <2>2
<1> QED BY <1>0, <1>1, <1>2, <1>3, <1>4 DEF Request, Phases, Working

(* A request never asks upstream more often than the members it visited    *)
(* allow, for combos, key lists and max_retries of any size.               *)
THEOREM CallsAreWithinBudget == Spec => []CallsWithinBudget
  BY BudgetBoundsCalls, InitBudget, StepBudget, PTL DEF Spec

----------------------------------------------------------------------------
(* Hot reload.                                                             *)


InBoth(p, k) ==
    /\ Listed(k, KeysOf[config[service]][p])
    /\ Listed(k, KeysOf[config[Successor]][p])

(* The part of the new pool that has been copied.                          *)
CopiesOK ==
    \A p \in copied, k \in Keys, m \in Models :
        IF InBoth(p, k)
        THEN <<p, k, m>> \in late \/ cool[Successor][p][k][m] = cool[service][p][k][m]
        ELSE cool[Successor][p][k][m] = 0

HInv ==
    /\ IInv
    /\ HotTypeOK
    /\ building => Successor \in Gens
    /\ CopiesOK

----------------------------------------------------------------------------
(* The steps of State.Reload leave every request where it is: what they    *)
(* change of the configurations is beyond the generation of any request.   *)
LEMMA RequestsAside ==
    ASSUME IInv, TypeOK', service' >= service, req' = req,
           \A g \in Gens : g <= service => config'[g] = config[g]
    PROVE  IInv'
<1>1. ASSUME NEW s \in Requests
      PROVE  RequestOK(s)'
  <2>1. req[s].gen \in Gens /\ req[s].gen <= service /\ service \in Gens /\ service' \in Gens
        /\ req[s].gen \in Nat /\ service \in Nat /\ service' \in Nat
    BY GensAssumption DEF IInv, TypeOK, Request, RequestOK
  <2>2. /\ Cfg(s)' = Cfg(s)
        /\ req'[s].gen <= service'
    BY <2>1 DEF Cfg
  <2> QED BY <2>2 DEF IInv, RequestOK, RoutedOK, MemberOK, KeyOK, AttemptOK, RepliesOK,
                      CallsOK, ExhaustedOK, MembersOf, IsRelay, KeyList, Budget, Provider
<1> QED BY <1>1 DEF IInv

(* A reload starts: only the configuration of the new generation is set.   *)
LEMMA BeginReloadStep ==
    ASSUME HInv, NEW c \in Configs, BeginReload(c)
    PROVE  HInv'
<1>1. TypeOK'
  BY DEF HInv, IInv, TypeOK, PoolTypeOK, Router!RouterTypeOK, BeginReload
<1>2. \A g \in Gens : g <= service => config'[g] = config[g]
  BY GensAssumption DEF HInv, IInv, TypeOK, BeginReload, Successor
<1>3. service' >= service
  BY GensAssumption DEF HInv, IInv, TypeOK, BeginReload
<1>4. IInv'
  BY <1>1, <1>2, <1>3, RequestsAside DEF HInv, BeginReload
<1> QED BY <1>1, <1>4 DEF HInv, HotTypeOK, BeginReload, CopiesOK, Successor

(* The cooldowns of one provider are copied: MergeStats, first half.       *)
LEMMA CopyCooldownsStep ==
    ASSUME HInv, NEW p \in Providers, CopyCooldowns(p)
    PROVE  HInv'
<1> DEFINE col == [k \in Keys |-> IF InBoth(p, k) THEN cool[service][p][k]
                                                  ELSE [m \in Models |-> 0]]
<1>1. /\ PoolTypeOK /\ service \in Gens /\ Successor \in Gens /\ Successor # service
  BY GensAssumption DEF HInv, HotTypeOK, IInv, TypeOK, CopyCooldowns, Successor
<1>2. col \in [Keys -> [Models -> Nat]]
  BY <1>1 DEF PoolTypeOK
<1>3. cool' = [cool EXCEPT ![Successor][p] = col]
  BY DEF CopyCooldowns, MergeCooldowns, InBoth
<1>4. cool' \in [Gens -> [Providers -> [Keys -> [Models -> Nat]]]]
  <2> HIDE DEF col
  <2> QED BY <1>1, <1>2, <1>3 DEF PoolTypeOK
<1>5. TypeOK'
  BY <1>4 DEF HInv, IInv, TypeOK, PoolTypeOK, Router!RouterTypeOK, CopyCooldowns, MergeCooldowns
<1>6. IInv'
  BY <1>1, <1>5, GensAssumption, RequestsAside DEF HInv, CopyCooldowns
<1>7. CopiesOK'
  <2>1. ASSUME NEW pp \in copied', NEW k \in Keys, NEW m \in Models
        PROVE  IF InBoth(pp, k)
               THEN \/ <<pp, k, m>> \in late
                    \/ cool'[Successor][pp][k][m] = cool'[service][pp][k][m]
               ELSE cool'[Successor][pp][k][m] = 0
    <3>1. cool'[service][pp] = cool[service][pp]
      BY <1>1, <1>3 DEF PoolTypeOK
    <3>2. CASE pp = p
      <4>1. cool'[Successor][p][k] = col[k]
        <5> HIDE DEF col
        <5> QED BY <1>1, <1>3 DEF PoolTypeOK
      <4> QED BY <3>1, <3>2, <4>1
    <3>3. CASE pp # p
      <4>1. pp \in copied /\ pp \in Providers
        BY <3>3 DEF CopyCooldowns, HInv, HotTypeOK
      <4>2. cool'[Successor][pp] = cool[Successor][pp]
        <5> HIDE DEF col
        <5> QED BY <1>1, <1>3, <3>3 DEF PoolTypeOK
      <4> QED BY <3>1, <4>1, <4>2 DEF HInv, CopiesOK
    <3> QED BY <3>2, <3>3
  <2> QED BY <2>1 DEF CopiesOK, InBoth, CopyCooldowns, Successor
<1> QED BY <1>1, <1>5, <1>6, <1>7 DEF HInv, HotTypeOK, CopyCooldowns, Successor

(* The counters of one provider are copied: no cooldown changes.           *)
LEMMA CopyCountersStep ==
    ASSUME HInv, NEW p \in Providers, CopyCounters(p)
    PROVE  HInv'
<1> DEFINE count(f) == [k \in Keys |-> IF InBoth(p, k) THEN f[service][p][k] ELSE 0]
<1>1. PoolTypeOK /\ service \in Gens
  BY DEF HInv, IInv, TypeOK
<1>2. count(used) \in [Keys -> Nat] /\ count(errs) \in [Keys -> Nat]
  BY <1>1 DEF PoolTypeOK
<1>3. /\ used' = [used EXCEPT ![Successor][p] = count(used)]
      /\ errs' = [errs EXCEPT ![Successor][p] = count(errs)]
  BY DEF CopyCounters, MergeCounters, InBoth
<1>4. /\ used' \in [Gens -> [Providers -> [Keys -> Nat]]]
      /\ errs' \in [Gens -> [Providers -> [Keys -> Nat]]]
  <2> HIDE DEF count
  <2> QED BY <1>1, <1>2, <1>3 DEF PoolTypeOK
<1>5. TypeOK'
  BY <1>4 DEF HInv, IInv, TypeOK, PoolTypeOK, Router!RouterTypeOK, CopyCounters, MergeCounters
<1>6. IInv'
  BY <1>1, <1>5, GensAssumption, RequestsAside DEF HInv, CopyCounters
<1>7. CopiesOK'
  BY DEF HInv, CopiesOK, InBoth, CopyCounters, MergeCounters, Successor
<1> QED BY <1>5, <1>6, <1>7 DEF HInv, HotTypeOK, CopyCounters, Successor

(* The service pointer moves to the new generation.                        *)
LEMMA InstallStep ==
    ASSUME HInv, Install
    PROVE  HInv'
<1>1. service \in Nat /\ Successor \in Gens /\ service' = Successor /\ config' = config
  BY GensAssumption DEF HInv, IInv, TypeOK, Install
<1>2. TypeOK'
  BY <1>1 DEF HInv, IInv, TypeOK, PoolTypeOK, Router!RouterTypeOK, Install
<1>3. service' >= service
  BY <1>1 DEF Successor
<1>4. IInv'
  BY <1>1, <1>2, <1>3, RequestsAside DEF HInv, Install
<1> QED BY <1>2, <1>4 DEF HInv, HotTypeOK, Install, CopiesOK

(* A reload that fails throws the new pool away.                           *)
LEMMA ReloadFailsStep ==
    ASSUME HInv, ReloadFails
    PROVE  HInv'
<1>1. PoolTypeOK /\ service \in Gens
  BY DEF HInv, IInv, TypeOK
<1>2. /\ [p \in Providers |-> NoCooldowns] \in [Providers -> [Keys -> [Models -> Nat]]]
      /\ [p \in Providers |-> NoStats] \in [Providers -> [Keys -> Nat]]
  BY DEF NoCooldowns, NoStats
<1>3. PoolTypeOK'
  BY <1>1, <1>2 DEF PoolTypeOK, ReloadFails, Discard
<1>4. TypeOK'
  BY <1>3 DEF HInv, IInv, TypeOK, Router!RouterTypeOK, ReloadFails
<1>5. IInv'
  BY <1>1, <1>4, GensAssumption, RequestsAside DEF HInv, ReloadFails
<1> QED BY <1>4, <1>5 DEF HInv, HotTypeOK, ReloadFails, CopiesOK

----------------------------------------------------------------------------
(* A request cools keys of its own generation, and only after a rule       *)
(* matched.                                                                *)
LEMMA CoolsOwnPool ==
    ASSUME NEW r \in Requests, Accept(r) \/ Proceed(r)
    PROVE  \/ cool' = cool
           \/ /\ req[r].pc = "cool"
              /\ cool' = [cool EXCEPT ![req[r].gen][Provider(r)][req[r].key][Model(r)] =
                              req[r].seconds]
<1>1. CASE Accept(r)
  BY <1>1 DEF Accept, Arrive, Refuse
<1>2. CASE CoolKey(r)
  BY <1>2 DEF CoolKey, RecordError
<1>3. CASE Proceed(r) /\ ~CoolKey(r)
  BY <1>3 DEF Proceed, SelectMember, Unroutable, Exhaust, SelectKey, GetEffect,
     UseClientCredential, GiveUpMember, BuildFails, Send, Deliver, RecordSuccess,
     DeliverError, RuleMatched, StartStream, FinishStream, poolVars
<1> QED BY <1>1, <1>2, <1>3

(* A request never writes to the pool under construction, and what it      *)
(* writes to the current one after the copy is remembered in late.         *)
LEMMA RequestStepKeeps ==
    ASSUME HInv, NEW r \in Requests, RequestStep(r)
    PROVE  HInv'
<1>1. IInv'
  BY StepInvariant DEF HInv, RequestStep, Next
<1>2. UNCHANGED <<service, config, building, copied, merged>>
  BY DEF RequestStep, Accept, Proceed, Arrive, Refuse, SelectMember, Unroutable, Exhaust,
     SelectKey, UseClientCredential, GiveUpMember, BuildFails, Send, Deliver, DeliverError,
     RuleMatched, CoolKey, StartStream, FinishStream
<1>3. CASE cool' = cool /\ late' = late
  BY <1>1, <1>2, <1>3
  DEF HInv, HotTypeOK, IInv, CopiesOK, InBoth, Successor
<1>4. CASE /\ req[r].pc = "cool"
           /\ cool' = [cool EXCEPT ![req[r].gen][Provider(r)][req[r].key][Model(r)] =
                           req[r].seconds]
  <2>1. /\ req[r].gen \in Gens /\ req[r].gen \in Nat /\ service \in Nat /\ PoolTypeOK
        /\ req[r].gen <= service /\ service \in Gens
    BY GensAssumption DEF HInv, IInv, TypeOK, Request, RequestOK
  <2>2. Provider(r) \in Providers /\ Model(r) \in Models /\ req[r].key \in Keys
    BY <1>4, OfOwnMember, KeyNamed DEF HInv, Working
  <2>3. /\ late \subseteq late'
        /\ late' \subseteq Providers \X Keys \X Models
        /\ req[r].gen = service /\ Provider(r) \in copied =>
              <<Provider(r), req[r].key, Model(r)>> \in late'
    BY <1>4, <2>2 DEF RequestStep, HInv, HotTypeOK
  <2>4. CopiesOK'
    <3>1. ASSUME NEW p \in copied, NEW k \in Keys, NEW m \in Models
          PROVE  IF InBoth(p, k)
                 THEN \/ <<p, k, m>> \in late'
                      \/ cool'[Successor][p][k][m] = cool'[service][p][k][m]
                 ELSE cool'[Successor][p][k][m] = 0
      <4>1. building /\ Successor \in Gens /\ p \in Providers
        BY DEF HInv, HotTypeOK
      <4>2. cool'[Successor] = cool[Successor]
        BY <1>4, <2>1, <4>1 DEF PoolTypeOK, Successor
      <4>3. \/ cool'[service][p][k][m] = cool[service][p][k][m]
            \/ req[r].gen = service /\ <<p, k, m>> = <<Provider(r), req[r].key, Model(r)>>
        <5>1. CASE req[r].gen # service
          BY <1>4, <2>1, <5>1 DEF PoolTypeOK
        <5>2. CASE req[r].gen = service
          <6>1. cool'[service] = [cool[service] EXCEPT ![Provider(r)][req[r].key][Model(r)] = req[r].seconds]
            BY <1>4, <2>1, <5>2 DEF PoolTypeOK
          <6>2. cool[service] \in [Providers -> [Keys -> [Models -> Nat]]]
            BY <2>1 DEF PoolTypeOK
          <6> QED BY <4>1, <5>2, <6>1, <6>2
        <5> QED BY <5>1, <5>2
      <4> QED BY <2>3, <4>2, <4>3 DEF HInv, CopiesOK
    <3> QED BY <1>2, <3>1 DEF CopiesOK, InBoth, Successor
  <2> QED BY <1>1, <1>2, <2>3, <2>4 DEF HInv, HotTypeOK, IInv, Successor
<1>5. CASE cool' = cool /\ late' # late
  <2>1. /\ req[r].pc = "cool"
        /\ late' = late \cup {<<Provider(r), req[r].key, Model(r)>>}
    BY <1>5 DEF RequestStep
  <2>2. Provider(r) \in Providers /\ Model(r) \in Models /\ req[r].key \in Keys
    BY <2>1, OfOwnMember, KeyNamed DEF HInv, Working
  <2> QED BY <1>1, <1>2, <1>5, <2>1, <2>2
          DEF HInv, HotTypeOK, IInv, CopiesOK, InBoth, Successor
<1> QED BY <1>3, <1>4, <1>5, CoolsOwnPool DEF RequestStep

(* Time passes for both pools alike.                                       *)
LEMMA TickKeeps ==
    ASSUME HInv, Tick, UNCHANGED reloadVars
    PROVE  HInv'
<1>1. IInv' /\ PoolTypeOK /\ service \in Gens
  BY StepInvariant DEF HInv, Next, IInv, TypeOK
<1>2. ASSUME NEW g \in Gens, NEW p \in Providers, NEW k \in Keys, NEW m \in Models
      PROVE  cool'[g][p][k][m] = IF cool[g][p][k][m] = 0 THEN 0 ELSE cool[g][p][k][m] - 1
  BY DEF Tick, Elapse
<1>3. ASSUME NEW p \in copied, NEW k \in Keys, NEW m \in Models
      PROVE  IF InBoth(p, k)
             THEN \/ <<p, k, m>> \in late
                  \/ cool'[Successor][p][k][m] = cool'[service][p][k][m]
             ELSE cool'[Successor][p][k][m] = 0
  <2>1. Successor \in Gens /\ p \in Providers
    BY DEF HInv, HotTypeOK
  <2> QED BY <1>1, <1>2, <2>1 DEF HInv, CopiesOK
<1>4. CopiesOK'
  BY <1>3 DEF CopiesOK, InBoth, Successor, Tick, reloadVars
<1> QED BY <1>1, <1>4 DEF HInv, HotTypeOK, IInv, Tick, reloadVars, Successor

----------------------------------------------------------------------------
(* No reload is under way at the start.                                    *)
LEMMA HotInitInvariant ==
    ASSUME HotInit
    PROVE  HInv
  BY InitInvariant DEF HotInit, HInv, HotTypeOK, IInv, CopiesOK

(* One case per step of the reload, of a request, of the clock.            *)
LEMMA HotStepInvariant ==
    ASSUME HInv, [HotNext]_allVars
    PROVE  HInv'
<1>1. CASE UNCHANGED allVars
  <2>1. IInv'
    BY <1>1, StepInvariant DEF HInv, allVars
  <2> QED BY <1>1, <2>1 DEF HInv, HotTypeOK, IInv, CopiesOK, InBoth, Successor,
                            allVars, vars, reloadVars
<1>2. CASE HotNext
  BY <1>2, TickKeeps, RequestStepKeeps, BeginReloadStep, CopyCooldownsStep, CopyCountersStep,
     InstallStep, ReloadFailsStep DEF HotNext
<1> QED BY <1>1, <1>2

(* HInv is an invariant of requests and reloads together.                  *)
THEOREM HotInvariantHolds == HotSpec => []HInv
  BY HotInitInvariant, HotStepInvariant, PTL DEF HotSpec

(* Types hold through any number of reloads.                               *)
THEOREM HotTypeCorrect == HotSpec => []HotTypeOK
<1>1. HInv => HotTypeOK
  BY DEF HInv
<1> QED BY <1>1, HotInvariantHolds, PTL

(* Whatever is installed while it runs, a request works with members and   *)
(* keys of the configuration it started with.                              *)
THEOREM SnapshotKept == HotSpec => []InFlightUsesOwnSnapshot
<1>1. HInv => InFlightUsesOwnSnapshot
  BY DEF HInv, IInv, RequestOK, MemberOK, KeyOK, InFlightUsesOwnSnapshot, Working, Keyed
<1> QED BY <1>1, HotInvariantHolds, PTL

(* A step is one of the requests or the clock, or a step of a reload that  *)
(* leaves every request and the configuration it works with alone.         *)
LEMMA RequestsOrReload ==
    ASSUME HInv, [HotNext]_allVars
    PROVE  \/ [Next]_vars
           \/ req' = req /\ \A r \in Requests : Cfg(r)' = Cfg(r)
<1>1. CASE UNCHANGED allVars
  BY <1>1 DEF allVars, vars
<1>2. CASE Tick \/ \E r \in Requests : RequestStep(r)
  BY <1>2 DEF RequestStep, Next
<1>3. ASSUME NEW c \in Configs, BeginReload(c), NEW r \in Requests
      PROVE  Cfg(r)' = Cfg(r)
  <2>1. /\ req[r].gen \in Gens /\ req[r].gen <= service
        /\ service \in Gens /\ config \in [Gens -> Configs]
    BY DEF HInv, IInv, TypeOK, Request, RequestOK
  <2>2. req[r].gen # Successor
    BY <2>1, GensAssumption DEF Successor
  <2> QED BY <1>3, <2>1, <2>2 DEF BeginReload, Cfg
<1>4. ASSUME NEW c \in Configs, BeginReload(c)
      PROVE  req' = req
  BY <1>4 DEF BeginReload
<1>5. CASE (\E p \in Providers : CopyCooldowns(p) \/ CopyCounters(p)) \/ Install \/ ReloadFails
  <2>1. UNCHANGED <<config, req>>
    BY <1>5 DEF CopyCooldowns, CopyCounters, Install, ReloadFails
  <2> QED BY <2>1 DEF Cfg
<1> QED BY <1>1, <1>2, <1>3, <1>4, <1>5 DEF HotNext

(* The account of upstream calls is kept across reloads.                   *)
LEMMA HotStepBudget ==
    ASSUME HInv, BudgetInv, [HotNext]_allVars
    PROVE  BudgetInv'
<1>1. CASE [Next]_vars
  BY <1>1, StepBudget
<1>2. CASE req' = req /\ \A r \in Requests : Cfg(r)' = Cfg(r)
  <2>1. IInv'
    BY HotStepInvariant DEF HInv
  <2> QED BY <1>2, <2>1 DEF BudgetInv, SpendingOK, Allowed
<1> QED BY <1>1, <1>2, RequestsOrReload

(* What a client and the recorder are promised holds through any number of *)
(* reloads: one reply, a row per call, "all providers exhausted" only when *)
(* all were tried, and no more calls than the members visited allow.       *)
THEOREM ReloadsKeepPromises ==
    HotSpec => [](/\ SingleReply
                  /\ EveryCallRecorded
                  /\ ExhaustedMeansAllTried
                  /\ CallsWithinBudget)
<1>1. HotInit => BudgetInv
  BY InitBudget DEF HotInit
<1>2. HInv => SingleReply /\ EveryCallRecorded /\ ExhaustedMeansAllTried
  BY DEF HInv, IInv, RequestOK, RepliesOK, CallsOK, ExhaustedOK,
         SingleReply, EveryCallRecorded, ExhaustedMeansAllTried
<1>3. HotSpec => []BudgetInv
  BY <1>1, HotStepBudget, HotInvariantHolds, PTL DEF HotSpec
<1> QED BY <1>2, <1>3, BudgetBoundsCalls, HotInvariantHolds, PTL

(* A reload makes no request give up a member it could still use.          *)
THEOREM ReloadsKeepMembers == HotSpec => GiveUpJustified
<1>1. ASSUME HInv, [HotNext]_allVars
      PROVE  [\A r \in Requests :
                 (req[r].pc = "key" /\ req'[r].pc = "route" /\ ~IsRelay(r)) =>
                    \/ req[r].attempt = MaxAttempts(Cfg(r), Provider(r))
                    \/ \A i \in DOMAIN KeyList(r) :
                          \/ KeyList(r)[i] \in req[r].attemptedKeys
                          \/ cool[req[r].gen][Provider(r)][KeyList(r)[i]][Model(r)] > 0]_vars
  <2>1. CASE req' = req \/ UNCHANGED vars
    BY <2>1
  <2>2. CASE Next
    BY <1>1, <2>2, GivesUp, GiveUpStep DEF HInv
  <2> QED BY <1>1, <2>1, <2>2, RequestsOrReload
<1> QED BY <1>1, HotInvariantHolds, PTL DEF HotSpec, GiveUpJustified

(* Only Install moves the pointer, and by one.                             *)
LEMMA MovedByInstall ==
    ASSUME HInv, [HotNext]_allVars, service' # service
    PROVE  Install
<1>1. ASSUME NEW r \in Requests, RequestStep(r)
      PROVE  service' = service
  BY <1>1 DEF RequestStep, Accept, Proceed, Arrive, Refuse, SelectMember, Unroutable, Exhaust,
     SelectKey, UseClientCredential, GiveUpMember, BuildFails, Send, Deliver, DeliverError,
     RuleMatched, CoolKey, StartStream, FinishStream
<1> QED BY <1>1 DEF HotNext, Tick, BeginReload, CopyCooldowns, CopyCounters, ReloadFails,
                    allVars, vars

(* A reload does not set a cooling key free.                               *)
THEOREM CooldownsSurvive == HotSpec => CooldownsSurviveReload
<1>1. ASSUME HInv, [HotNext]_allVars, service' # service,
             NEW p \in Providers, NEW k \in Keys, NEW m \in Models,
             Listed(k, KeysOf[config[service]][p]), Listed(k, KeysOf[config[service']][p]),
             <<p, k, m>> \notin late
      PROVE  cool'[service'][p][k][m] = cool[service][p][k][m]
  <2>1. Install
    BY <1>1, MovedByInstall
  <2>2. service' = Successor /\ cool' = cool /\ p \in copied
    BY <1>1, <2>1 DEF Install, HInv, HotTypeOK
  <2> QED BY <1>1, <2>2 DEF HInv, CopiesOK, InBoth
<1>2. HInv /\ [HotNext]_allVars =>
         [service' # service =>
            \A p \in Providers, k \in Keys, m \in Models :
               (/\ Listed(k, KeysOf[config[service]][p])
                /\ Listed(k, KeysOf[config[service']][p])
                /\ <<p, k, m>> \notin late)
               => cool'[service'][p][k][m] = cool[service][p][k][m]]_allVars
  BY <1>1
<1> QED BY <1>2, HotInvariantHolds, PTL DEF HotSpec, CooldownsSurviveReload

(* And it does not invent one: what cools in the new pool is a key of the  *)
(* new configuration that was cooling when the pointer moved, or that was  *)
(* cooled and released between the copy and the move.                      *)
THEOREM CooldownsNotInvented == HotSpec => NoInventedCooldowns
<1>1. ASSUME HInv, [HotNext]_allVars, service' # service,
             NEW p \in Providers, NEW k \in Keys, NEW m \in Models,
             cool'[service'][p][k][m] > 0
      PROVE  /\ Listed(k, KeysOf[config[service']][p])
             /\ cool[service][p][k][m] > 0 \/ <<p, k, m>> \in late
  <2>1. Install
    BY <1>1, MovedByInstall
  <2>2. service' = Successor /\ cool' = cool /\ p \in copied
    BY <1>1, <2>1 DEF Install, HInv, HotTypeOK
  <2>3. cool[Successor][p][k][m] > 0
    BY <1>1, <2>2
  <2>4. cool[Successor][p][k][m] # 0
    BY <2>3
  <2>5. IF InBoth(p, k)
        THEN <<p, k, m>> \in late \/ cool[Successor][p][k][m] = cool[service][p][k][m]
        ELSE cool[Successor][p][k][m] = 0
    BY <1>1, <2>2 DEF HInv, CopiesOK
  <2>6. Listed(k, KeysOf[config[Successor]][p])
    BY <2>4, <2>5 DEF InBoth
  <2>7. config' = config
    BY <2>1 DEF Install
  <2> QED BY <2>2, <2>3, <2>4, <2>5, <2>6, <2>7
<1>2. HInv /\ [HotNext]_allVars =>
         [service' # service =>
            \A p \in Providers, k \in Keys, m \in Models :
               cool'[service'][p][k][m] > 0 =>
                   /\ Listed(k, KeysOf[config[service']][p])
                   /\ (cool[service][p][k][m] > 0 \/ <<p, k, m>> \in late)]_allVars
  BY <1>1
<1> QED BY <1>2, HotInvariantHolds, PTL DEF HotSpec, NoInventedCooldowns

=============================================================================
