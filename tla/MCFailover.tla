----------------------------- MODULE MCFailover -----------------------------
(***************************************************************************)
(* Failover and HotReload on small configurations.  "ff": a fill-first     *)
(* combo of a keyed provider and a relay provider.  "rr": round-robin      *)
(* combo and keys, more retries than keys, and a rule whose cooldown is 0; *)
(* its second combo is a relay combo over the keyed provider.  "before" is *)
(* replaced by "after" while it is in use: that one drops k1, moves k2 to  *)
(* the front, adds k3 and renames the combo's model.  Upstream calls of    *)
(* "ff" and "before" have no timeout.                                      *)
(***************************************************************************)
EXTENDS HotReload

CONSTANTS k1, k2, k3

MCMembers ==
    [c \in Configs |-> [b \in Combos |->
        CASE c = "rr" /\ b = "relay" -> <<<<"keyed", NoModel>>>>
          [] c # "rr" /\ b = "relay" -> <<>>
          [] c \in {"ff", "rr"} /\ b = "main" -> <<<<"keyed", "m1">>, <<"other", "m1">>>>
          [] c = "before" /\ b = "main" -> <<<<"keyed", "m1">>>>
          [] c = "after" /\ b = "main"  -> <<<<"keyed", "m2">>>>]]
MCComboStrategy ==
    [c \in Configs |-> [b \in Combos |->
        IF c = "rr" THEN "round-robin" ELSE "fill-first"]]
MCKeysOf ==
    [c \in Configs |-> [p \in Providers |->
        CASE p = "keyed" /\ c = "ff"     -> <<k1, k2, k3>>
          [] p = "keyed" /\ c = "rr"     -> <<k1, k2>>
          [] p = "keyed" /\ c = "before" -> <<k1, k2>>
          [] p = "keyed" /\ c = "after"  -> <<k2, k3>>
          [] p = "other" -> IF c = "rr" THEN <<k3>> ELSE <<>>]]
MCKeyStrategy ==
    [c \in Configs |-> [p \in Providers |->
        IF c \in {"rr", "after"} THEN "round-robin" ELSE "fill-first"]]
MCMaxRetries ==
    [c \in Configs |-> [p \in Providers |->
        CASE c = "rr" -> 2 [] c = "after" -> 0 [] OTHER -> 1]]
MCRelay == [c \in Configs |-> IF c = "ff" THEN {"other"} ELSE {}]
MCRules ==
    [c \in Configs |-> [p \in Providers |-> [m \in Models |->
        CASE c = "ff" -> {1, 2}
          [] c = "rr" -> IF p = "keyed" THEN {0, 1} ELSE {}
          [] OTHER    -> {2}]]]

(* Bound: the one reload installs "after" over "before".                   *)
OnlyAfterBefore ==
    building' /\ ~building =>
        config[service] = "before" /\ config'[Successor] = "after"
=============================================================================
