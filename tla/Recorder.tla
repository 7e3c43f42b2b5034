------------------------------ MODULE Recorder ------------------------------
(***************************************************************************)
(* db.Recorder (internal/db/recorder.go): request rows and MCP rows go     *)
(* into two bounded channels without ever blocking the caller; one writer  *)
(* goroutine inserts them into SQLite; Flush compares two atomic counters; *)
(* Close stops the writer.  Callers, writer, Flush and Close interleave    *)
(* between any two of their channel and atomic operations.                 *)
(***************************************************************************)
EXTENDS Naturals, Sequences, FiniteSets, SequencesExt

CONSTANTS
    Rows,           \* one call of Record or RecordMcp each
    Kinds,          \* the two channels
    KindOf,         \* KindOf[r]: the channel the call sends on
    Capacity,       \* of each channel, 10000 in the code
    NoRow

ASSUME RowsAssumption == IsFiniteSet(Rows)
ASSUME KindAssumption == KindOf \in [Rows -> Kinds]
ASSUME CapacityAssumption == Capacity \in Nat \ {0}
ASSUME NoRowAssumption == NoRow \notin Rows

VARIABLES
    call,       \* call[r]: how far the call of Record is
    chan,       \* chan[k]: the rows buffered
    writer,     \* the loop run is in, and the row it holds
    stored,     \* rows inserted
    failed,     \* rows whose insert returned an error
    queued, written, dropped,
    flush,      \* Flush: position, written as loaded, and history (see Flush)
    close       \* Close: position, and the rows sent before it began

vars == <<call, chan, writer, stored, failed, queued, written, dropped, flush, close>>

Calls == {"new", "sent", "accepted", "refused"}
Modes == {"loop", "drain", "final", "exited"}
FlushPhases == {"idle", "load", "compare", "returned", "timedout"}

TypeOK ==
    /\ call \in [Rows -> Calls]
    /\ \A k \in Kinds : chan[k] \in BoundedSeq(Rows, Capacity)
    /\ writer \in [mode : Modes, row : Rows \cup {NoRow}]
    /\ stored \subseteq Rows /\ failed \subseteq Rows
    /\ {queued, written, dropped} \subseteq 0 .. Cardinality(Rows)
    /\ flush \in [pc : FlushPhases, seen : Nat, due : SUBSET Rows, quiet : BOOLEAN]
    /\ close \in [pc : {"open", "closing", "closed"}, due : SUBSET Rows]

Init ==
    /\ call = [r \in Rows |-> "new"]
    /\ chan = [k \in Kinds |-> <<>>]
    /\ writer = [mode |-> "loop", row |-> NoRow]
    /\ stored = {} /\ failed = {}
    /\ queued = 0 /\ written = 0 /\ dropped = 0
    /\ flush = [pc |-> "idle", seen |-> 0, due |-> {}, quiet |-> TRUE]
    /\ close = [pc |-> "open", due |-> {}]

Flushing == flush.pc \in {"load", "compare"}
Sent(r) == call[r] \in {"sent", "accepted"}

----------------------------------------------------------------------------
(* Record and RecordMcp.                                                   *)

Send(r) ==
    /\ call[r] = "new"
    /\ Len(chan[KindOf[r]]) < Capacity
    /\ chan' = [chan EXCEPT ![KindOf[r]] = Append(@, r)]
    /\ call' = [call EXCEPT ![r] = "sent"]
    /\ flush' = [flush EXCEPT !.quiet = @ /\ ~Flushing]
    /\ UNCHANGED <<writer, stored, failed, queued, written, dropped, close>>

(* The counter moves only after the writer may have seen the row.          *)
Count(r) ==
    /\ call[r] = "sent"
    /\ queued' = queued + 1
    /\ call' = [call EXCEPT ![r] = "accepted"]
    /\ UNCHANGED <<chan, writer, stored, failed, written, dropped, flush, close>>

(* Mutated form: a full channel loses its oldest row instead.              *)
DropOldest(r) ==
    /\ call[r] = "new"
    /\ Len(chan[KindOf[r]]) >= Capacity
    /\ dropped' = dropped + 1
    /\ chan' = [chan EXCEPT ![KindOf[r]] = Append(Tail(@), r)]
    /\ call' = [call EXCEPT ![r] = "sent"]
    /\ UNCHANGED <<writer, stored, failed, queued, written, flush, close>>

Drop(r) ==
    /\ call[r] = "new"
    /\ Len(chan[KindOf[r]]) >= Capacity
    /\ dropped' = dropped + 1
    /\ call' = [call EXCEPT ![r] = "refused"]
    /\ UNCHANGED <<chan, writer, stored, failed, queued, written, flush, close>>

----------------------------------------------------------------------------
(* The writer goroutine, run.                                              *)

Buffered == \E k \in Kinds : chan[k] # <<>>

(* A select of run or of drain receives a row.                             *)
Receive(k) ==
    /\ writer.mode # "exited" /\ writer.row = NoRow
    /\ chan[k] # <<>>
    /\ writer' = [writer EXCEPT !.row = Head(chan[k])]
    /\ chan' = [chan EXCEPT ![k] = Tail(@)]
    /\ UNCHANGED <<call, stored, failed, queued, written, dropped, flush, close>>

(* Mutated form: an insert that failed is counted as written.              *)
InsertCountingFailures(ok) ==
    /\ writer.row # NoRow
    /\ IF ok
       THEN stored' = stored \cup {writer.row} /\ UNCHANGED failed
       ELSE failed' = failed \cup {writer.row} /\ UNCHANGED stored
    /\ written' = written + 1
    /\ writer' = [writer EXCEPT !.row = NoRow]
    /\ UNCHANGED <<call, chan, queued, dropped, flush, close>>

(* insert and insertMcp: SQLite may refuse a row (busy, disk full); that   *)
(* row is gone and no counter tells.                                       *)
Insert(ok) ==
    /\ writer.row # NoRow
    /\ IF ok
       THEN stored' = stored \cup {writer.row} /\ written' = written + 1 /\ UNCHANGED failed
       ELSE failed' = failed \cup {writer.row} /\ UNCHANGED <<stored, written>>
    /\ writer' = [writer EXCEPT !.row = NoRow]
    /\ UNCHANGED <<call, chan, queued, dropped, flush, close>>

(* The ticker fires; a drain that finds nothing would change nothing.      *)
StartDrain ==
    /\ writer = [mode |-> "loop", row |-> NoRow]
    /\ Buffered
    /\ writer' = [writer EXCEPT !.mode = "drain"]
    /\ UNCHANGED <<call, chan, stored, failed, queued, written, dropped, flush, close>>

SeeDone ==
    /\ writer = [mode |-> "loop", row |-> NoRow]
    /\ close.pc = "closing"
    /\ writer' = [writer EXCEPT !.mode = "final"]
    /\ UNCHANGED <<call, chan, stored, failed, queued, written, dropped, flush, close>>

(* Mutated form: drain stops when one of the channels is empty.            *)
DrainEndsEarly ==
    /\ writer.mode \in {"drain", "final"} /\ writer.row = NoRow
    /\ \E k \in Kinds : chan[k] = <<>>
    /\ writer' = [writer EXCEPT !.mode = IF @ = "final" THEN "exited" ELSE "loop"]
    /\ UNCHANGED <<call, chan, stored, failed, queued, written, dropped, flush, close>>

(* Mutated form: the final drain does not return from run.                 *)
DrainEndsInLoop ==
    /\ writer.mode \in {"drain", "final"} /\ writer.row = NoRow
    /\ ~Buffered
    /\ writer' = [writer EXCEPT !.mode = "loop"]
    /\ UNCHANGED <<call, chan, stored, failed, queued, written, dropped, flush, close>>

(* The default case of drain.                                              *)
DrainEnds ==
    /\ writer.mode \in {"drain", "final"} /\ writer.row = NoRow
    /\ ~Buffered
    /\ writer' = [writer EXCEPT !.mode = IF @ = "final" THEN "exited" ELSE "loop"]
    /\ UNCHANGED <<call, chan, stored, failed, queued, written, dropped, flush, close>>

----------------------------------------------------------------------------
(* Flush.  History: due is what had been accepted when it was called,      *)
(* quiet says that no call of Record overlapped it so far.                 *)

StartFlush ==
    /\ flush.pc = "idle"
    /\ flush' = [flush EXCEPT !.pc = "load",
                              !.due = {r \in Rows : call[r] = "accepted"},
                              !.quiet = \A r \in Rows : call[r] # "sent"]
    /\ UNCHANGED <<call, chan, writer, stored, failed, queued, written, dropped, close>>

LoadWritten ==
    /\ flush.pc = "load"
    /\ flush' = [flush EXCEPT !.pc = "compare", !.seen = written]
    /\ UNCHANGED <<call, chan, writer, stored, failed, queued, written, dropped, close>>

CompareWithQueued ==
    /\ flush.pc = "compare"
    /\ flush' = [flush EXCEPT !.pc = IF flush.seen >= queued THEN "returned" ELSE "load",
                              !.seen = 0]
    /\ UNCHANGED <<call, chan, writer, stored, failed, queued, written, dropped, close>>

(* Mutated form: the deadline is looked at when the loop is left.          *)
TimeOutAfterLoop ==
    /\ flush.pc = "compare" /\ flush.seen >= queued
    /\ flush' = [flush EXCEPT !.pc = "timedout", !.seen = 0]
    /\ UNCHANGED <<call, chan, writer, stored, failed, queued, written, dropped, close>>

(* The counters still differ and five seconds have passed.                 *)
TimeOut ==
    /\ flush.pc = "compare" /\ flush.seen < queued
    /\ flush' = [flush EXCEPT !.pc = "timedout", !.seen = 0]
    /\ UNCHANGED <<call, chan, writer, stored, failed, queued, written, dropped, close>>

----------------------------------------------------------------------------
(* Close: main calls it when Flush has returned, whether or not handlers   *)
(* still run (Shutdown gives up on them after 15 seconds).                 *)

StartClose ==
    /\ close.pc = "open"
    /\ flush.pc \in {"returned", "timedout"}
    /\ close' = [pc |-> "closing", due |-> {r \in Rows : Sent(r)}]
    /\ UNCHANGED <<call, chan, writer, stored, failed, queued, written, dropped, flush>>

FinishClose ==
    /\ close.pc = "closing"
    /\ writer.mode = "exited"
    /\ close' = [close EXCEPT !.pc = "closed"]
    /\ UNCHANGED <<call, chan, writer, stored, failed, queued, written, dropped, flush>>

WriterStep ==
    \/ \E k \in Kinds : Receive(k)
    \/ \E ok \in BOOLEAN : Insert(ok)
    \/ SeeDone \/ DrainEnds

Flusher == LoadWritten \/ CompareWithQueued

Next ==
    \/ \E r \in Rows : Send(r) \/ Count(r) \/ Drop(r)
    \/ WriterStep \/ StartDrain
    \/ StartFlush \/ Flusher \/ TimeOut
    \/ StartClose \/ FinishClose

(* The writer runs whenever a case of its select is ready (which case, the *)
(* Go runtime picks), Flush polls every 2 ms and its deadline comes.       *)
Fairness ==
    /\ WF_vars(WriterStep)
    /\ WF_vars(FinishClose)
    /\ WF_vars(Flusher) /\ SF_vars(TimeOut)

Spec == Init /\ [][Next]_vars /\ Fairness

----------------------------------------------------------------------------
(* Properties.                                                             *)

InChannel(r) == \E i \in DOMAIN chan[KindOf[r]] : chan[KindOf[r]][i] = r

(* No row is lost, duplicated or written twice while calls, writer and     *)
(* Close interleave: a row that was sent is in its channel, in the         *)
(* writer's hand, stored or refused by SQLite, in exactly one of them.     *)
RowsAccounted ==
    /\ \A r \in Rows : Sent(r) <=>
          r \in stored \/ r \in failed \/ writer.row = r \/ InChannel(r)
    /\ stored \cap failed = {}
    /\ \A r \in stored \cup failed : writer.row # r /\ ~InChannel(r)
    /\ writer.row # NoRow => ~InChannel(writer.row)
    /\ \A k \in Kinds : IsInjective(chan[k])

(* Close flushes the queue: what had been sent when Close was called is    *)
(* stored (or refused by SQLite) when it returns, from both channels.      *)
CloseFlushesQueue ==
    close.pc = "closed" => close.due \subseteq stored \cup failed

(* Flush, with no call of Record overlapping it (main calls it after the   *)
(* handlers are done), returns before its deadline only when everything    *)
(* accepted is in the database.                                            *)
FlushCoversQuietCallers ==
    (flush.pc = "returned" /\ flush.quiet) => flush.due \subseteq stored

(* Flush returns even if inserts fail and the counters never meet.         *)
FlushReturns == Flushing ~> flush.pc \in {"returned", "timedout"}

(* Close returns once callers stop: the last drain comes to an end.        *)
CloseReturns == close.pc = "closing" ~> close.pc = "closed"
=============================================================================
