------------------------------- MODULE KeyPool -------------------------------
(***************************************************************************)
(* keys.Manager (internal/keys/manager.go): the key pools of the proxy.    *)
(* One pool per (generation, provider): every hot reload builds new        *)
(* managers, and requests in flight keep the ones they started with.       *)
(*                                                                         *)
(* The code stores (LastErrorAt, CooldownSeconds) and compares it with the *)
(* clock; the model stores the seconds that remain, 0 when the key is      *)
(* available, so time needs no absolute clock and no bound.  Keys of one   *)
(* pool are distinct here (KeysDistinct in Failover), so the slot index of *)
(* the code and the key name the same entry.                               *)
(***************************************************************************)
EXTENDS Rotation, Integers, Sequences

CONSTANTS
    Gens,       \* generations of the service: 1, 2, ...
    Providers,
    Keys,       \* every key of every provider
    Models

VARIABLES
    cool,       \* cool[g][p][k][m]: seconds of cooldown left
    keyRR,      \* keyRR[g][p]: rrIndex, the position returned last
    used,       \* used[g][p][k]: UseCount
    errs        \* errs[g][p][k]: ErrorCount

poolVars == <<cool, keyRR, used, errs>>

NoCooldowns == [k \in Keys |-> [m \in Models |-> 0]]
NoStats     == [k \in Keys |-> 0]

PoolTypeOK ==
    /\ cool  \in [Gens -> [Providers -> [Keys -> [Models -> Nat]]]]
    /\ keyRR \in [Gens -> [Providers -> Nat \ {0}]]
    /\ used  \in [Gens -> [Providers -> [Keys -> Nat]]]
    /\ errs  \in [Gens -> [Providers -> [Keys -> Nat]]]

PoolInit ==
    /\ cool  = [g \in Gens |-> [p \in Providers |-> NoCooldowns]]
    /\ keyRR = [g \in Gens |-> [p \in Providers |-> 1]]
    /\ used  = [g \in Gens |-> [p \in Providers |-> NoStats]]
    /\ errs  = [g \in Gens |-> [p \in Providers |-> NoStats]]

isAvailable(g, p, k, m) == cool[g][p][k][m] = 0

(* Positions of the key list a Get may return.                             *)
Eligible(g, p, keys, m, attempted) ==
    {i \in DOMAIN keys : keys[i] \notin attempted /\ isAvailable(g, p, keys[i], m)}

(* Mutated form of Get: the round-robin scan stops one position early.     *)
GetShortScan(g, p, keys, strategy, m, attempted) ==
    {i \in FirstFrom(Eligible(g, p, keys, m, attempted),
                     ScanStart(strategy, keyRR[g][p], Len(keys)), Len(keys)) :
        strategy = "round-robin" => i # keyRR[g][p]}

(* Get: the position of the key returned, {} when the code returns "".     *)
Get(g, p, keys, strategy, m, attempted) ==
    FirstFrom(Eligible(g, p, keys, m, attempted),
              ScanStart(strategy, keyRR[g][p], Len(keys)), Len(keys))

(* What Get leaves behind when it returns position i.  An unsuccessful     *)
(* round-robin scan advances rrIndex len(keys) times, back to where it was.*)
GetEffect(g, p, strategy, i) ==
    /\ keyRR' = IF strategy = "fill-first"
                THEN keyRR ELSE [keyRR EXCEPT ![g][p] = i]
    /\ UNCHANGED <<cool, used, errs>>

(* RecordError overwrites whatever cooldown the pair had.                  *)
RecordError(g, p, k, m, seconds) ==
    /\ cool' = [cool EXCEPT ![g][p][k][m] = seconds]
    /\ errs' = [errs EXCEPT ![g][p][k] = @ + 1]
    /\ UNCHANGED <<keyRR, used>>

RecordSuccess(g, p, k) ==
    /\ used' = [used EXCEPT ![g][p][k] = @ + 1]
    /\ UNCHANGED <<cool, keyRR, errs>>

(* Mutated form of the merge: matched by position instead of by key.       *)
MergeCooldownsByPosition(old, new, p, oldKeys, newKeys) ==
    /\ cool' = [cool EXCEPT ![new][p] = [k \in Keys |->
                   IF \E i \in DOMAIN newKeys : newKeys[i] = k /\ i \in DOMAIN oldKeys
                   THEN cool[old][p][oldKeys[CHOOSE i \in DOMAIN newKeys : newKeys[i] = k]]
                   ELSE [m \in Models |-> 0]]]
    /\ UNCHANGED <<keyRR, used, errs>>

Listed(k, keys) == \E i \in DOMAIN keys : keys[i] = k

(* MergeStats, first half, under the old manager's lock: the unexpired     *)
(* cooldowns of the keys both lists hold are taken over by key string.     *)
MergeCooldowns(old, new, p, oldKeys, newKeys) ==
    /\ cool' = [cool EXCEPT ![new][p] = [k \in Keys |->
                   IF Listed(k, oldKeys) /\ Listed(k, newKeys)
                   THEN cool[old][p][k] ELSE [m \in Models |-> 0]]]
    /\ UNCHANGED <<keyRR, used, errs>>

(* Second half, after that lock is released: the counters as they are then.*)
MergeCounters(old, new, p, oldKeys, newKeys) ==
    /\ used' = [used EXCEPT ![new][p] = [k \in Keys |->
                   IF Listed(k, oldKeys) /\ Listed(k, newKeys) THEN used[old][p][k] ELSE 0]]
    /\ errs' = [errs EXCEPT ![new][p] = [k \in Keys |->
                   IF Listed(k, oldKeys) /\ Listed(k, newKeys) THEN errs[old][p][k] ELSE 0]]
    /\ UNCHANGED <<cool, keyRR>>

(* A reload that fails drops the managers it built.                        *)
Discard(g) ==
    /\ cool'  = [cool  EXCEPT ![g] = [p \in Providers |-> NoCooldowns]]
    /\ used'  = [used  EXCEPT ![g] = [p \in Providers |-> NoStats]]
    /\ errs'  = [errs  EXCEPT ![g] = [p \in Providers |-> NoStats]]
    /\ UNCHANGED keyRR

(* A second passes: now - LastErrorAt grows for every cooldown.            *)
Elapse ==
    /\ cool' = [g \in Gens |-> [p \in Providers |-> [k \in Keys |-> [m \in Models |->
                  IF cool[g][p][k][m] = 0 THEN 0 ELSE cool[g][p][k][m] - 1]]]]
    /\ UNCHANGED <<keyRR, used, errs>>
=============================================================================
