------------------------------ MODULE AppendLog ------------------------------
(***************************************************************************)
(* What the report log promises of its records, whatever it does with      *)
(* batches, files and directories: a record that was accepted waits in     *)
(* memory and leaves it once, in the order of acceptance, for the disk or  *)
(* for nowhere; what has left the disk never comes back.  ReportLog        *)
(* implements this.                                                        *)
(***************************************************************************)
EXTENDS Naturals

VARIABLES
    calls,      \* calls of Log; a record is named after its number
    pending,    \* records that wait in memory
    kept        \* records on disk

Init == calls = 0 /\ pending = {} /\ kept = {}

(* Log: accepted, or refused because the queue is full.                    *)
Log ==
    /\ calls' = calls + 1
    /\ pending' \in {pending, pending \cup {calls'}}
    /\ UNCHANGED kept

(* The records of S are next in line.                                      *)
NextInLine(S) == S # {} /\ \A r \in S, s \in pending \ S : r < s

(* A batch reaches the disk as a whole, or is lost as a whole.             *)
Leave(S) ==
    /\ NextInLine(S)
    /\ pending' = pending \ S
    /\ kept' \in {kept, kept \cup S}
    /\ UNCHANGED calls

(* A rotation deletes the oldest file.                                     *)
Discard(S) ==
    /\ kept' = kept \ S
    /\ UNCHANGED <<calls, pending>>

Next ==
    \/ Log
    \/ \E S \in SUBSET pending : Leave(S)
    \/ \E S \in SUBSET kept : Discard(S)

Spec == Init /\ [][Next]_<<calls, pending, kept>>
=============================================================================
