----------------------------- MODULE ComboRouter -----------------------------
(***************************************************************************)
(* combos.Router (internal/combos/router.go): which member of a combo a    *)
(* request tries next.  The router is rebuilt with every generation, its   *)
(* rotation index is the only state that changes afterwards.               *)
(***************************************************************************)
EXTENDS Rotation, Sequences

CONSTANTS
    Generations,    \* generations of the service
    Combos

VARIABLE memberRR   \* memberRR[g][b]: rrIndices, the position returned last

RouterTypeOK == memberRR \in [Generations -> [Combos -> Nat \ {0}]]

RouterInit == memberRR = [g \in Generations |-> [b \in Combos |-> 1]]

(* Members are compared as (provider, model) pairs.                        *)
NotAttempted(members, attempted) == {i \in DOMAIN members : members[i] \notin attempted}

(* Mutated form: a round-robin scan that stops at the end of the list.     *)
NextMemberNoWrap(g, b, members, strategy, attempted) ==
    {i \in FirstFrom(NotAttempted(members, attempted),
                     ScanStart(strategy, memberRR[g][b], Len(members)), Len(members)) :
        strategy = "round-robin" => i > memberRR[g][b]}

(* NextMemberWithFmt: the position returned, {} when the code returns "".  *)
NextMember(g, b, members, strategy, attempted) ==
    FirstFrom(NotAttempted(members, attempted),
              ScanStart(strategy, memberRR[g][b], Len(members)), Len(members))

NextMemberEffect(g, b, strategy, i) ==
    memberRR' = IF strategy = "fill-first"
                THEN memberRR ELSE [memberRR EXCEPT ![g][b] = i]
=============================================================================
