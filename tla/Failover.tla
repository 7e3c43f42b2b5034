------------------------------ MODULE Failover ------------------------------
(***************************************************************************)
(* proxy.Service.Handle (internal/proxy/proxy.go, stream.go): concurrent   *)
(* client requests, each running the two-level retry over the members of   *)
(* its combo and the keys of each member's provider.  Requests share the   *)
(* key pools (KeyPool) and the rotation index (ComboRouter); everything    *)
(* else is local to one call of Handle.                                    *)
(*                                                                         *)
(* A request takes the service snapshot once, when it arrives; config says *)
(* which configuration each generation was built from.  HotReload adds the *)
(* steps that install new generations.                                     *)
(***************************************************************************)
EXTENDS KeyPool, FiniteSets

CONSTANTS
    Combos,
    Requests,
    Configs,        \* configurations an operator may install
    Members,        \* Members[c][b]: sequence of <<provider, model>>, <<>> if c has no b
    ComboStrategy,  \* ComboStrategy[c][b]
    KeysOf,         \* KeysOf[c][p]: the key list, <<>> for a relay provider
    KeyStrategy,    \* KeyStrategy[c][p]
    MaxRetries,     \* MaxRetries[c][p]
    Relay,          \* Relay[c]: the relay providers
    Rules,          \* Rules[c][p][m]: cooldowns of the health rules that cover model m
    Timed,          \* configurations that bound an upstream call (request_timeout_seconds)
    NoModel,        \* the configured model of a member of a relay combo
    NoKey,
    NoMember,
    NoCombo

Pairs == Providers \X (Models \cup {NoModel})

ASSUME GensAssumption == Gens \subseteq Nat /\ 1 \in Gens
ASSUME NamesDistinct ==
    NoModel \notin Models /\ NoKey \notin Keys /\ NoMember \notin Pairs /\ NoCombo \notin Combos
ASSUME MembersAssumption == Members \in [Configs -> [Combos -> Seq(Pairs)]]
ASSUME StrategyAssumption ==
    /\ ComboStrategy \in [Configs -> [Combos -> Strategies]]
    /\ KeyStrategy \in [Configs -> [Providers -> Strategies]]
ASSUME KeysAssumption == KeysOf \in [Configs -> [Providers -> Seq(Keys)]]
(* buildProvider does not refuse a key listed twice; see the README.        *)
ASSUME KeysDistinct ==
    \A c \in Configs, p \in Providers : \A i, j \in DOMAIN KeysOf[c][p] :
        KeysOf[c][p][i] = KeysOf[c][p][j] => i = j
ASSUME RetriesAssumption == MaxRetries \in [Configs -> [Providers -> Nat]]
ASSUME RelayAssumption == Relay \in [Configs -> SUBSET Providers]
ASSUME TimedAssumption == Timed \subseteq Configs
ASSUME RulesAssumption == Rules \in [Configs -> [Providers -> [Models -> SUBSET Nat]]]

VARIABLES
    memberRR,
    service,    \* the generation State.Service() returns
    config,     \* config[g]: what generation g was built from
    req         \* req[r]: the local variables of the Handle call for r

Router == INSTANCE ComboRouter WITH Generations <- Gens

vars == <<cool, keyRR, used, errs, memberRR, service, config, req>>

Phases == {"idle", "route", "key", "send", "upstream", "cool", "stream", "done"}
Replies == {"none", "refused", "exhausted", "ok", "error", "neterr"}

Request == [
    pc               : Phases,
    gen              : Gens,
    combo            : Combos \cup {NoCombo},
    relayModel       : Models \cup {NoModel},
    attemptedMembers : SUBSET Pairs,
    member           : Pairs \cup {NoMember},
    attempt          : Nat,             \* i of the key loop
    attemptedKeys    : SUBSET Keys,
    key              : Keys \cup {NoKey},
    seconds          : Nat,             \* cooldown of the rule that matched
    headers          : Nat,             \* responses begun towards the client
    calls            : Nat,             \* requests sent upstream
    rows             : Nat,             \* rows handed to the recorder
    reply            : Replies]

TypeOK ==
    /\ PoolTypeOK
    /\ Router!RouterTypeOK
    /\ service \in Gens
    /\ config \in [Gens -> Configs]
    /\ req \in [Requests -> Request]

Fresh == [
    pc |-> "idle", gen |-> 1, combo |-> NoCombo, relayModel |-> NoModel,
    attemptedMembers |-> {}, member |-> NoMember, attempt |-> 0, attemptedKeys |-> {},
    key |-> NoKey, seconds |-> 0, headers |-> 0, calls |-> 0, rows |-> 0, reply |-> "none"]

Init ==
    /\ PoolInit
    /\ Router!RouterInit
    /\ service = 1
    /\ config \in {[g \in Gens |-> c] : c \in Configs}
    /\ req = [r \in Requests |-> Fresh]

----------------------------------------------------------------------------
(* Mutated form: the configuration is looked up at each use, not taken     *)
(* with the snapshot.                                                      *)
CfgOfService(r) == config[service]

(* What a request reads of its own snapshot.                               *)

Cfg(r)      == config[req[r].gen]
MembersOf(r) == Members[Cfg(r)][req[r].combo]
Provider(r) == req[r].member[1]
IsRelay(r)  == Provider(r) \in Relay[Cfg(r)]

(* Relay combos forward the model the client named after the prefix.       *)
Model(r) == IF req[r].member[2] = NoModel THEN req[r].relayModel ELSE req[r].member[2]

KeyList(r) == KeysOf[Cfg(r)][Provider(r)]

MaxAttempts(c, p) == IF p \in Relay[c] THEN 1 ELSE MaxRetries[c][p] + 1

NextKeys(r) ==
    Get(req[r].gen, Provider(r), KeyList(r), KeyStrategy[Cfg(r)][Provider(r)],
        Model(r), req[r].attemptedKeys)

NextMembers(r) ==
    Router!NextMember(req[r].gen, req[r].combo, MembersOf(r),
                      ComboStrategy[Cfg(r)][req[r].combo], req[r].attemptedMembers)

----------------------------------------------------------------------------
(* Steps of a request.                                                     *)

(* The handler takes the snapshot and resolves the combo; from here on it  *)
(* never looks at State again.                                             *)
Arrive(r, b, m) ==
    /\ req[r].pc = "idle"
    /\ Members[config[service]][b] # <<>>
    /\ m = NoModel <=> ~\E i \in DOMAIN Members[config[service]][b] :
                          Members[config[service]][b][i][2] = NoModel
    /\ req' = [req EXCEPT ![r] = [@ EXCEPT !.pc = "route", !.gen = service, !.combo = b,
                                           !.relayModel = m]]
    /\ UNCHANGED <<cool, keyRR, used, errs, memberRR, service, config>>

(* 400 or 501: unreadable body, unknown combo, unsupported format...       *)
Refuse(r) ==
    /\ req[r].pc = "idle"
    /\ req' = [req EXCEPT ![r] = [@ EXCEPT !.pc = "done", !.reply = "refused",
                                           !.headers = req[r].headers + 1]]
    /\ UNCHANGED <<cool, keyRR, used, errs, memberRR, service, config>>

(* The router hands out the member in position i.                          *)
TakeMember(r, i) ==
    Router!NextMemberEffect(req[r].gen, req[r].combo,
                            ComboStrategy[Cfg(r)][req[r].combo], i)

SelectMember(r) ==
    /\ req[r].pc = "route"
    /\ \E i \in NextMembers(r) :
          /\ TakeMember(r, i)
          /\ req' = [req EXCEPT ![r] = [@ EXCEPT !.pc = "key",
                                                 !.member = MembersOf(r)[i],
                                                 !.attempt = 0, !.attemptedKeys = {}]]
    /\ UNCHANGED <<cool, keyRR, used, errs, service, config>>

(* The member has no usable endpoint, no translator or the body cannot be  *)
(* rewritten: the whole request fails, other members are not tried.        *)
Unroutable(r) ==
    /\ req[r].pc = "route"
    /\ \E i \in NextMembers(r) : TakeMember(r, i)
    /\ req' = [req EXCEPT ![r] = [@ EXCEPT !.pc = "done", !.reply = "refused",
                                           !.headers = req[r].headers + 1]]
    /\ UNCHANGED <<cool, keyRR, used, errs, service, config>>

Exhaust(r) ==
    /\ req[r].pc = "route"
    /\ NextMembers(r) = {}
    /\ req' = [req EXCEPT ![r] = [@ EXCEPT !.pc = "done", !.reply = "exhausted",
                                           !.headers = req[r].headers + 1]]
    /\ UNCHANGED <<cool, keyRR, used, errs, memberRR, service, config>>

(* Mutated form: one attempt too many.                                     *)
SelectKeyOnceMore(r) ==
    /\ req[r].pc = "key"
    /\ req[r].attempt <= MaxAttempts(Cfg(r), Provider(r))
    /\ ~IsRelay(r)
    /\ \E i \in NextKeys(r) :
          /\ GetEffect(req[r].gen, Provider(r), KeyStrategy[Cfg(r)][Provider(r)], i)
          /\ req' = [req EXCEPT ![r] = [@ EXCEPT !.pc = "send", !.key = KeyList(r)[i],
                                                 !.attemptedKeys = req[r].attemptedKeys \cup {KeyList(r)[i]}]]
    /\ UNCHANGED <<memberRR, service, config>>

SelectKey(r) ==
    /\ req[r].pc = "key"
    /\ req[r].attempt < MaxAttempts(Cfg(r), Provider(r))
    /\ ~IsRelay(r)
    /\ \E i \in NextKeys(r) :
          /\ GetEffect(req[r].gen, Provider(r), KeyStrategy[Cfg(r)][Provider(r)], i)
          /\ req' = [req EXCEPT ![r] = [@ EXCEPT !.pc = "send", !.key = KeyList(r)[i],
                                                 !.attemptedKeys = req[r].attemptedKeys \cup {KeyList(r)[i]}]]
    /\ UNCHANGED <<memberRR, service, config>>

UseClientCredential(r) ==
    /\ req[r].pc = "key"
    /\ req[r].attempt < MaxAttempts(Cfg(r), Provider(r))
    /\ IsRelay(r)
    /\ req' = [req EXCEPT ![r] = [@ EXCEPT !.pc = "send", !.key = NoKey]]
    /\ UNCHANGED <<cool, keyRR, used, errs, memberRR, service, config>>

(* Mutated form: using up the attempts does not end the key loop.          *)
GiveUpMemberWhenKeyless(r) ==
    /\ req[r].pc = "key"
    /\ ~IsRelay(r) /\ NextKeys(r) = {}
    /\ req' = [req EXCEPT ![r] = [@ EXCEPT !.pc = "route",
                                           !.attemptedMembers = req[r].attemptedMembers \cup {req[r].member}]]
    /\ UNCHANGED <<cool, keyRR, used, errs, memberRR, service, config>>

(* The key loop ends without an answer: attempts used up, or no key left.  *)
GiveUpMember(r) ==
    /\ req[r].pc = "key"
    /\ \/ req[r].attempt >= MaxAttempts(Cfg(r), Provider(r))
       \/ ~IsRelay(r) /\ NextKeys(r) = {}
    /\ req' = [req EXCEPT ![r] = [@ EXCEPT !.pc = "route",
                                           !.attemptedMembers = req[r].attemptedMembers \cup {req[r].member}]]
    /\ UNCHANGED <<cool, keyRR, used, errs, memberRR, service, config>>

(* http.NewRequest fails: 500, nothing was sent, nothing is recorded.      *)
BuildFails(r) ==
    /\ req[r].pc = "send"
    /\ req' = [req EXCEPT ![r] = [@ EXCEPT !.pc = "done", !.reply = "refused",
                                           !.headers = req[r].headers + 1]]
    /\ UNCHANGED <<cool, keyRR, used, errs, memberRR, service, config>>

Send(r) ==
    /\ req[r].pc = "send"
    /\ req' = [req EXCEPT ![r] = [@ EXCEPT !.pc = "upstream", !.calls = req[r].calls + 1]]
    /\ UNCHANGED <<cool, keyRR, used, errs, memberRR, service, config>>

(* A complete answer below 400 that no health rule matches.                *)
Deliver(r) ==
    /\ req[r].pc = "upstream"
    /\ IF req[r].key = NoKey
       THEN UNCHANGED poolVars
       ELSE RecordSuccess(req[r].gen, Provider(r), req[r].key)
    /\ req' = [req EXCEPT ![r] = [@ EXCEPT !.pc = "done", !.reply = "ok",
                                           !.headers = req[r].headers + 1, !.rows = req[r].rows + 1]]
    /\ UNCHANGED <<memberRR, service, config>>

(* An upstream error no rule matches is passed on, and a network error is  *)
(* answered 502 or 504: neither rotates the key or the member.             *)
DeliverError(r, kind) ==
    /\ req[r].pc = "upstream"
    /\ kind \in {"error", "neterr"}
    /\ req' = [req EXCEPT ![r] = [@ EXCEPT !.pc = "done", !.reply = kind,
                                           !.headers = req[r].headers + 1, !.rows = req[r].rows + 1]]
    /\ UNCHANGED <<cool, keyRR, used, errs, memberRR, service, config>>

(* Mutated form: the rotation event of a keyed attempt is not recorded.    *)
RuleMatchedUnrecorded(r) ==
    /\ req[r].pc = "upstream"
    /\ \E s \in Rules[Cfg(r)][Provider(r)][Model(r)] :
          req' = IF IsRelay(r)
                 THEN [req EXCEPT ![r] = [@ EXCEPT !.pc = "route", !.rows = req[r].rows + 1,
                                                   !.attemptedMembers = req[r].attemptedMembers \cup {req[r].member}]]
                 ELSE [req EXCEPT ![r] = [@ EXCEPT !.pc = "cool", !.seconds = s]]
    /\ UNCHANGED <<cool, keyRR, used, errs, memberRR, service, config>>

(* A health rule matched before anything was written to the client: the    *)
(* row is recorded; a relay attempt moves on to the next member, a keyed   *)
(* one goes on to cool its key.                                            *)
RuleMatched(r) ==
    /\ req[r].pc = "upstream"
    /\ \E s \in Rules[Cfg(r)][Provider(r)][Model(r)] :
          req' = IF IsRelay(r)
                 THEN [req EXCEPT ![r] = [@ EXCEPT !.pc = "route", !.rows = req[r].rows + 1,
                                                   !.attemptedMembers = req[r].attemptedMembers \cup {req[r].member}]]
                 ELSE [req EXCEPT ![r] = [@ EXCEPT !.pc = "cool", !.rows = req[r].rows + 1,
                                                   !.seconds = s]]
    /\ UNCHANGED <<cool, keyRR, used, errs, memberRR, service, config>>

(* RecordError on the pool of the request's own generation, next attempt.  *)
CoolKey(r) ==
    /\ req[r].pc = "cool"
    /\ RecordError(req[r].gen, Provider(r), req[r].key, Model(r), req[r].seconds)
    /\ req' = [req EXCEPT ![r] = [@ EXCEPT !.pc = "key", !.attempt = req[r].attempt + 1,
                                           !.seconds = 0]]
    /\ UNCHANGED <<memberRR, service, config>>

(* The first frame passed the rules: the status line is written and frames *)
(* flow.  A status of 400 or more is streamed too, as a failure.           *)
StartStream(r, outcome) ==
    /\ req[r].pc = "upstream"
    /\ outcome \in {"ok", "error"}
    /\ req' = [req EXCEPT ![r] = [@ EXCEPT !.pc = "stream", !.reply = outcome,
                                           !.headers = req[r].headers + 1]]
    /\ UNCHANGED <<cool, keyRR, used, errs, memberRR, service, config>>

(* Mutated form: a broken stream is retried with the next key.             *)
FinishStreamRetrying(r, broken) ==
    /\ req[r].pc = "stream"
    /\ UNCHANGED poolVars
    /\ req' = [req EXCEPT ![r] = [@ EXCEPT !.pc = IF broken THEN "key" ELSE "done",
                                           !.attempt = req[r].attempt + 1, !.rows = req[r].rows + 1]]
    /\ UNCHANGED <<memberRR, service, config>>

(* The stream ends, or breaks (scanner error): one row either way, and no  *)
(* retry once bytes have gone out.                                         *)
FinishStream(r, broken) ==
    /\ req[r].pc = "stream"
    /\ IF req[r].reply = "ok" /\ ~broken /\ req[r].key # NoKey
       THEN RecordSuccess(req[r].gen, Provider(r), req[r].key)
       ELSE UNCHANGED poolVars
    /\ req' = [req EXCEPT ![r] = [@ EXCEPT !.pc = "done", !.rows = req[r].rows + 1,
                                           !.reply = IF broken THEN "error" ELSE req[r].reply]]
    /\ UNCHANGED <<memberRR, service, config>>

Accept(r) ==
    \/ \E b \in Combos, m \in Models \cup {NoModel} : Arrive(r, b, m)
    \/ Refuse(r)

(* What Handle does by itself or when the upstream answers.                *)
Proceed(r) ==
    \/ SelectMember(r)
    \/ Unroutable(r)
    \/ Exhaust(r)
    \/ SelectKey(r)
    \/ UseClientCredential(r)
    \/ GiveUpMember(r)
    \/ BuildFails(r)
    \/ Send(r)
    \/ Deliver(r)
    \/ \E kind \in {"error", "neterr"} : DeliverError(r, kind)
    \/ RuleMatched(r)
    \/ CoolKey(r)
    \/ \E outcome \in {"ok", "error"} : StartStream(r, outcome)
    \/ \E broken \in BOOLEAN : FinishStream(r, broken)

(* Time passes for every cooldown.                                         *)
Tick ==
    /\ Elapse
    /\ UNCHANGED <<memberRR, service, config, req>>

Next == Tick \/ \E r \in Requests : Accept(r) \/ Proceed(r)

(* http.Client.Timeout bounds an upstream call, the reading of its answer  *)
(* included: 10 minutes if request_timeout_seconds is left out.  An        *)
(* explicit 0 disables it, and the upstream may then never answer.         *)
MayHang(r) == req[r].pc \in {"upstream", "stream"} /\ Cfg(r) \notin Timed

(* Every Handle call runs in its own goroutine, and an upstream call that  *)
(* is bounded returns; of one that is not, nothing is assumed.             *)
Fairness == \A r \in Requests : WF_vars(~MayHang(r) /\ Proceed(r))

Spec == Init /\ [][Next]_vars /\ Fairness

----------------------------------------------------------------------------
(* Properties.                                                             *)

(* The client sees one response: no retry, no failover and no error body   *)
(* follows once a response has begun, a stream cut short included.         *)
SingleReply ==
    \A r \in Requests :
        req[r].headers = IF req[r].pc \in {"stream", "done"} THEN 1 ELSE 0

(* Every request sent upstream is handed to the recorder exactly once,     *)
(* whichever way the attempt ends: rotation, error, network failure, broken*)
(* stream or success.                                                      *)
EveryCallRecorded ==
    \A r \in Requests :
        req[r].calls =
            req[r].rows + IF req[r].pc \in {"upstream", "stream"} THEN 1 ELSE 0

(* 503 "all providers exhausted" is true: every member of the combo was    *)
(* tried by this request, however other requests moved the shared index.   *)
ExhaustedMeansAllTried ==
    \A r \in Requests :
        req[r].reply = "exhausted" =>
            \A i \in DOMAIN MembersOf(r) : MembersOf(r)[i] \in req[r].attemptedMembers

(* In-flight requests use the snapshot they took: the member and the key a *)
(* request works with belong to the configuration of its own generation,   *)
(* whatever has been installed since.                                      *)
InFlightUsesOwnSnapshot ==
    \A r \in Requests :
        /\ req[r].gen <= service
        /\ req[r].pc \in {"key", "send", "upstream", "cool", "stream"} =>
              \E i \in DOMAIN MembersOf(r) : MembersOf(r)[i] = req[r].member
        /\ req[r].pc \in {"send", "upstream", "cool", "stream"} =>
              IF IsRelay(r) THEN req[r].key = NoKey ELSE Listed(req[r].key, KeyList(r))

(* The attempts the retry loops allow for a set of members: max_retries + 1*)
(* of a keyed provider, one of a relay provider.                           *)
AttemptsAllowed(c, members) ==
    UNION {{x} \X (1 .. MaxAttempts(c, x[1])) : x \in members}

(* A request never asks upstream more often than the members it visited    *)
(* allow together, however the two loops and the other requests interleave.*)
CallsWithinBudget ==
    \A r \in Requests :
        req[r].member # NoMember =>
            req[r].calls <= Cardinality(AttemptsAllowed(Cfg(r),
                                req[r].attemptedMembers \cup {req[r].member}))

(* A member with attempts left is abandoned only if each of its keys was   *)
(* tried by this request or is cooling for this very model at that moment, *)
(* in the pool of the request's own generation.                            *)
GiveUpJustified ==
    [][\A r \in Requests :
         (req[r].pc = "key" /\ req'[r].pc = "route" /\ ~IsRelay(r)) =>
            \/ req[r].attempt = MaxAttempts(Cfg(r), Provider(r))
            \/ \A i \in DOMAIN KeyList(r) :
                  \/ KeyList(r)[i] \in req[r].attemptedKeys
                  \/ cool[req[r].gen][Provider(r)][KeyList(r)[i]][Model(r)] > 0]_vars

(* What config-schema.yaml:50 and README.md:144 say of max_retries: the    *)
(* most attempts within one provider, the first included.                  *)
AttemptsWithinMaxRetries ==
    \A r \in Requests :
        req[r].pc = "upstream" /\ ~IsRelay(r) =>
            req[r].attempt + 1 <= MaxRetries[Cfg(r)][Provider(r)]

(* Every accepted request is answered: rotation and failover terminate     *)
(* even though other requests keep cooling keys and moving the indices.    *)
(* Only a request whose own configuration has no timeout may be left, and  *)
(* then it waits for one upstream call for good: it is in no endless round.*)
EveryRequestAnswered ==
    \A r \in Requests :
        [](req[r].pc # "idle" => <>[](req[r].pc = "done" \/ MayHang(r)))
=============================================================================
