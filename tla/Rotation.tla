------------------------------ MODULE Rotation ------------------------------
(***************************************************************************)
(* The scan that both rotation points of ccrouter share: keys.Manager.Get  *)
(* walks the key list, combos.Router.NextMemberWithFmt walks the member    *)
(* list.  Positions are 1..n here and 0..n-1 in the code.                  *)
(***************************************************************************)
EXTENDS Naturals

Strategies == {"fill-first", "round-robin"}

(* Steps needed to reach position i when a cyclic scan of n positions      *)
(* starts at position start.                                               *)
Distance(i, start, n) == ((i + n) - start) % n

(* The position of S met first by that scan: a singleton, {} iff S = {}.   *)
FirstFrom(S, start, n) ==
    {i \in S : \A j \in S : Distance(i, start, n) <= Distance(j, start, n)}

(* Where the scan starts: fill-first always at the head of the list,       *)
(* round-robin just after the position returned last.                      *)
ScanStart(strategy, last, n) ==
    IF strategy = "fill-first" THEN 1 ELSE (last % n) + 1
=============================================================================
