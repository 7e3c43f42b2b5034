--------------------------- MODULE RecorderProofs ---------------------------
(***************************************************************************)
(* Safety of Recorder for any finite number of calls, any number of        *)
(* channels and channels of any capacity.  What RowsAccounted needs to be  *)
(* inductive is that a row is only in the channel of its kind; what Flush  *)
(* needs is that the two counters count sets of rows; what Close needs is  *)
(* that the writer leaves its loop for good only in front of empty         *)
(* channels.                                                               *)
(***************************************************************************)
EXTENDS Recorder, FiniteSetTheorems, TLAPS

In(s, r) == \E i \in DOMAIN s : s[i] = r

(* The variables have their types; a channel is a sequence of rows of its  *)
(* own kind, and never longer than its capacity.                           *)
RTypes ==
    /\ call \in [Rows -> Calls]
    /\ chan \in [Kinds -> Seq(Rows)]
    /\ \A k \in Kinds : Len(chan[k]) <= Capacity
    /\ writer \in [mode : Modes, row : Rows \cup {NoRow}]
    /\ stored \in SUBSET Rows /\ failed \in SUBSET Rows
    /\ flush \in [pc : FlushPhases, seen : Nat, due : SUBSET Rows, quiet : BOOLEAN]
    /\ close \in [pc : {"open", "closing", "closed"}, due : SUBSET Rows]

OwnKind == \A k \in Kinds : \A r \in Rows : In(chan[k], r) => KindOf[r] = k

(* The counters are what they count.                                       *)
Accepted == {r \in Rows : call[r] = "accepted"}
Refused  == {r \in Rows : call[r] = "refused"}
CountersCount ==
    /\ queued = Cardinality(Accepted)
    /\ written = Cardinality(stored)
    /\ dropped = Cardinality(Refused)

(* While nobody else calls Record, what Flush is to wait for is what was   *)
(* counted, and every row counted as written is one of these.              *)
FlushTracks ==
    /\ flush.seen <= written
    /\ (Flushing /\ flush.quiet) =>
          /\ flush.due = Accepted
          /\ \A r \in Rows : call[r] # "sent"
    /\ FlushCoversQuietCallers

(* Only Close ends the writer, and it ends with nothing left to do.        *)
CloseTracks ==
    /\ writer.mode \in {"final", "exited"} => close.pc # "open"
    /\ close.pc = "closed" => writer.mode = "exited"
    /\ \A r \in close.due : Sent(r)
    /\ writer.mode = "exited" => close.due \subseteq stored \cup failed /\ writer.row = NoRow

RInv ==
    /\ RTypes
    /\ OwnKind
    /\ RowsAccounted
    /\ CountersCount
    /\ FlushTracks
    /\ CloseTracks

----------------------------------------------------------------------------
(* Queues without duplicates: a row that is appended is in the queue then, *)
(* and nothing else changes.                                               *)
LEMMA AppendRow ==
    ASSUME NEW s \in Seq(Rows), NEW r \in Rows
    PROVE  /\ Append(s, r) \in Seq(Rows) /\ Len(Append(s, r)) = Len(s) + 1
           /\ \A q : In(Append(s, r), q) <=> In(s, q) \/ q = r
           /\ (IsInjective(s) /\ ~In(s, r)) => IsInjective(Append(s, r))
<1>1. Append(s, r) \in Seq(Rows) /\ Len(Append(s, r)) = Len(s) + 1 /\ Len(s) \in Nat
  OBVIOUS
<1>2. DOMAIN s = 1 .. Len(s) /\ DOMAIN Append(s, r) = 1 .. (Len(s) + 1)
  BY <1>1
<1>3. \A i \in 1 .. Len(s) : Append(s, r)[i] = s[i]
  OBVIOUS
<1>4. Append(s, r)[Len(s) + 1] = r
  OBVIOUS
<1>5. \A i \in 1 .. (Len(s) + 1) : i \in 1 .. Len(s) \/ i = Len(s) + 1
  BY <1>1
<1>6. \A q : In(Append(s, r), q) <=> In(s, q) \/ q = r
  BY <1>1, <1>2, <1>3, <1>4, <1>5 DEF In
<1>7. (IsInjective(s) /\ ~In(s, r)) => IsInjective(Append(s, r))
  BY <1>1, <1>2, <1>3, <1>4, <1>5 DEF In, IsInjective
<1> QED BY <1>1, <1>6, <1>7

(* The row that is received was the only one of its name.                  *)
LEMMA TakeRow ==
    ASSUME NEW s \in Seq(Rows), s # <<>>, IsInjective(s)
    PROVE  /\ Head(s) \in Rows /\ Tail(s) \in Seq(Rows) /\ Len(Tail(s)) = Len(s) - 1
           /\ In(s, Head(s)) /\ ~In(Tail(s), Head(s))
           /\ \A q : In(s, q) <=> In(Tail(s), q) \/ q = Head(s)
           /\ IsInjective(Tail(s))
<1>1. Len(s) \in Nat \ {0} /\ DOMAIN s = 1 .. Len(s)
  OBVIOUS
<1>2. Tail(s) \in Seq(Rows) /\ Len(Tail(s)) = Len(s) - 1 /\ Head(s) = s[1] /\ Head(s) \in Rows
  BY <1>1
<1>3. DOMAIN Tail(s) = 1 .. (Len(s) - 1)
  BY <1>1, <1>2
<1>4. \A i \in 1 .. (Len(s) - 1) : Tail(s)[i] = s[i + 1] /\ i + 1 \in 1 .. Len(s) /\ i + 1 # 1
  BY <1>1
<1>5. \A i \in 1 .. Len(s) : i = 1 \/ (i - 1 \in 1 .. (Len(s) - 1) /\ (i - 1) + 1 = i)
  BY <1>1
<1>6. 1 \in 1 .. Len(s)
  BY <1>1
<1>7. \A i, j \in 1 .. Len(s) : s[i] = s[j] => i = j
  BY <1>1 DEF IsInjective
<1>8. In(s, Head(s)) /\ ~In(Tail(s), Head(s))
  BY <1>1, <1>2, <1>3, <1>4, <1>6, <1>7 DEF In
<1>9. \A q : In(s, q) <=> In(Tail(s), q) \/ q = Head(s)
  <2>1. ASSUME NEW q, In(s, q), q # Head(s)
        PROVE  In(Tail(s), q)
    <3>1. PICK i \in 1 .. Len(s) : s[i] = q
      BY <2>1, <1>1 DEF In
    <3>2. i - 1 \in 1 .. (Len(s) - 1) /\ Tail(s)[i - 1] = q
      BY <3>1, <2>1, <1>2, <1>4, <1>5
    <3> QED BY <3>2, <1>3 DEF In
  <2>2. ASSUME NEW q, In(Tail(s), q)
        PROVE  In(s, q)
    BY <2>2, <1>1, <1>3, <1>4 DEF In
  <2> QED BY <2>1, <2>2, <1>8
<1>10. IsInjective(Tail(s))
  <2> SUFFICES ASSUME NEW i \in 1 .. (Len(s) - 1), NEW j \in 1 .. (Len(s) - 1),
                      Tail(s)[i] = Tail(s)[j]
               PROVE  i = j
    BY <1>3 DEF IsInjective
  <2>1. i + 1 = j + 1
    BY <1>4, <1>7
  <2> QED BY <2>1, <1>1
<1> QED BY <1>2, <1>8, <1>9, <1>10

LEMMA InChannelIsIn ==
    ASSUME NEW r \in Rows
    PROVE  InChannel(r) <=> In(chan[KindOf[r]], r)
  BY DEF InChannel, In

(* The counters stay what they count as long as no row is accepted or      *)
(* stored, and never exceed what they count towards.                       *)
LEMMA SetsAreFinite ==
    ASSUME RTypes
    PROVE  /\ IsFiniteSet(Accepted) /\ Cardinality(Accepted) \in Nat
           /\ IsFiniteSet(stored) /\ Cardinality(stored) \in Nat
           /\ IsFiniteSet(Refused) /\ Cardinality(Refused) \in Nat
<1>1. Accepted \in SUBSET Rows /\ stored \in SUBSET Rows /\ Refused \in SUBSET Rows
  BY DEF Accepted, Refused, RTypes
<1>2. IsFiniteSet(Accepted) /\ IsFiniteSet(stored) /\ IsFiniteSet(Refused)
  BY <1>1, RowsAssumption, FS_Subset
<1> QED BY <1>2, FS_CardinalityType

----------------------------------------------------------------------------
LEMMA InitRInv ==
    ASSUME Init
    PROVE  RInv
<1>1. RTypes
  BY CapacityAssumption DEF Init, RTypes, Calls, Modes, FlushPhases
<1>2. OwnKind
  BY DEF Init, OwnKind, In
<1>3. RowsAccounted
  BY NoRowAssumption, KindAssumption DEF Init, RowsAccounted, Sent, InChannel, IsInjective
<1>4. Accepted = {} /\ Refused = {}
  BY DEF Init, Accepted, Refused
<1>5. CountersCount
  BY <1>4, FS_EmptySet DEF Init, CountersCount
<1>6. FlushTracks
  BY DEF Init, FlushTracks, Flushing, FlushCoversQuietCallers
<1>7. CloseTracks
  BY DEF Init, CloseTracks
<1> QED BY <1>1, <1>2, <1>3, <1>5, <1>6, <1>7 DEF RInv

(* A row is sent: it is new, so it is nowhere yet.                         *)
LEMMA SendKeeps ==
    ASSUME RInv, NEW r \in Rows, Send(r)
    PROVE  RInv'
<1> DEFINE k == KindOf[r]
<1>1. k \in Kinds /\ chan[k] \in Seq(Rows) /\ chan \in [Kinds -> Seq(Rows)]
  BY KindAssumption DEF RInv, RTypes
<1>2. chan' = [chan EXCEPT ![k] = Append(chan[k], r)] /\ call' = [call EXCEPT ![r] = "sent"]
  BY DEF Send
<1>3. ~Sent(r) /\ ~InChannel(r) /\ ~In(chan[k], r)
  BY InChannelIsIn DEF Send, Sent, RInv, RowsAccounted
<1>4. /\ chan'[k] \in Seq(Rows) /\ Len(chan'[k]) = Len(chan[k]) + 1
      /\ \A q : In(chan'[k], q) <=> In(chan[k], q) \/ q = r
      /\ IsInjective(chan'[k])
  BY <1>1, <1>2, <1>3, AppendRow DEF RInv, RowsAccounted
<1>5. \A l \in Kinds \ {k} : chan'[l] = chan[l]
  BY <1>1, <1>2
<1>6. RTypes'
  <2>1. call' \in [Rows -> Calls] /\ chan' \in [Kinds -> Seq(Rows)]
    BY <1>1, <1>2, <1>4 DEF RInv, RTypes, Calls
  <2>2. flush' \in [pc : FlushPhases, seen : Nat, due : SUBSET Rows, quiet : BOOLEAN]
    BY DEF Send, RInv, RTypes, Flushing
  <2>3. \A l \in Kinds : Len(chan'[l]) <= Capacity
    BY <1>1, <1>4, <1>5, CapacityAssumption DEF Send, RInv, RTypes
  <2> QED BY <2>1, <2>2, <2>3 DEF Send, RInv, RTypes
<1>7. OwnKind'
  BY <1>1, <1>4, <1>5 DEF RInv, OwnKind
<1>8. \A q \in Rows : (InChannel(q))' <=> InChannel(q) \/ q = r
  <2> TAKE q \in Rows
  <2>1. KindOf[q] \in Kinds
    BY KindAssumption
  <2>2. (InChannel(q))' <=> In(chan'[KindOf[q]], q)
    BY DEF InChannel, In
  <2>3. KindOf[q] = k \/ chan'[KindOf[q]] = chan[KindOf[q]]
    BY <1>5, <2>1
  <2>4. q = r => KindOf[q] = k
    OBVIOUS
  <2> QED BY <2>2, <2>3, <2>4, <1>4, InChannelIsIn
<1>9. \A q \in Rows : (Sent(q))' <=> Sent(q) \/ q = r
  BY <1>2 DEF Sent, RInv, RTypes
<1>10. RowsAccounted'
  <2>1. \A q \in Rows : (Sent(q))' <=>
          q \in stored' \/ q \in failed' \/ writer'.row = q \/ (InChannel(q))'
    BY <1>8, <1>9 DEF Send, RInv, RowsAccounted
  <2>2. r \notin stored \/ r \notin failed
    BY DEF RInv, RowsAccounted
  <2>3. \A q \in stored' \cup failed' : writer'.row # q /\ ~(InChannel(q))'
    BY <1>3, <1>8 DEF Send, RInv, RowsAccounted, RTypes
  <2>4. writer'.row # NoRow => ~(InChannel(writer.row))'
    BY <1>3, <1>8 DEF Send, RInv, RowsAccounted, RTypes
  <2>5. \A l \in Kinds : IsInjective(chan'[l])
    BY <1>4, <1>5 DEF RInv, RowsAccounted
  <2> QED BY <2>1, <2>3, <2>4, <2>5 DEF Send, RInv, RowsAccounted
<1>11. CountersCount'
  <2>1. Accepted' = Accepted /\ Refused' = Refused
    BY <1>2 DEF Send, Accepted, Refused, RInv, RTypes
  <2> QED BY <2>1 DEF Send, RInv, CountersCount
<1>12. FlushTracks'
  BY <1>2 DEF Send, RInv, RTypes, FlushTracks, Flushing, FlushCoversQuietCallers
<1>13. CloseTracks'
  BY <1>9 DEF Send, RInv, RTypes, CloseTracks
<1> QED BY <1>6, <1>7, <1>10, <1>11, <1>12, <1>13 DEF RInv

(* Rows that stay where they are stay accounted for.                       *)
LEMMA RowsStay ==
    ASSUME RInv, UNCHANGED <<chan, stored, failed>>, writer'.row = writer.row,
           \A q \in Rows : (Sent(q))' <=> Sent(q)
    PROVE  OwnKind' /\ RowsAccounted'
<1>1. OwnKind'
  BY DEF RInv, OwnKind
<1>2. \A q : (InChannel(q))' <=> InChannel(q)
  BY DEF InChannel
<1> QED BY <1>1, <1>2 DEF RInv, RowsAccounted, RTypes

(* A row that was sent is counted once.                                    *)
LEMMA CountKeeps ==
    ASSUME RInv, NEW r \in Rows, Count(r)
    PROVE  RInv'
<1>1. call' = [call EXCEPT ![r] = "accepted"] /\ call \in [Rows -> Calls] /\ call[r] = "sent"
  BY DEF Count, RInv, RTypes
<1>2. RTypes'
  BY <1>1 DEF Count, RInv, RTypes, Calls
<1>3. \A q \in Rows : (Sent(q))' <=> Sent(q)
  BY <1>1 DEF Sent
<1>4. OwnKind' /\ RowsAccounted'
  BY <1>3, RowsStay DEF Count
<1>5. Accepted' = Accepted \cup {r} /\ r \notin Accepted /\ Refused' = Refused
  BY <1>1 DEF Accepted, Refused
<1>6. CountersCount'
  BY <1>5, SetsAreFinite, FS_AddElement DEF Count, RInv, CountersCount
<1>7. FlushTracks'
  BY <1>1 DEF Count, RInv, RTypes, FlushTracks, Flushing, FlushCoversQuietCallers
<1>8. CloseTracks'
  BY <1>3 DEF Count, RInv, RTypes, CloseTracks
<1> QED BY <1>2, <1>4, <1>6, <1>7, <1>8 DEF RInv

(* A row that is refused was never sent.                                   *)
LEMMA DropKeeps ==
    ASSUME RInv, NEW r \in Rows, Drop(r)
    PROVE  RInv'
<1>1. call' = [call EXCEPT ![r] = "refused"] /\ call \in [Rows -> Calls] /\ call[r] = "new"
  BY DEF Drop, RInv, RTypes
<1>2. RTypes'
  BY <1>1 DEF Drop, RInv, RTypes, Calls
<1>3. \A q \in Rows : (Sent(q))' <=> Sent(q)
  BY <1>1 DEF Sent
<1>4. OwnKind' /\ RowsAccounted'
  BY <1>3, RowsStay DEF Drop
<1>5. Accepted' = Accepted /\ Refused' = Refused \cup {r} /\ r \notin Refused
  BY <1>1 DEF Accepted, Refused
<1>6. CountersCount'
  BY <1>5, SetsAreFinite, FS_AddElement DEF Drop, RInv, CountersCount
<1>7. FlushTracks'
  BY <1>1, <1>5 DEF Drop, RInv, RTypes, FlushTracks, Flushing, FlushCoversQuietCallers
<1>8. CloseTracks'
  BY <1>3 DEF Drop, RInv, RTypes, CloseTracks
<1> QED BY <1>2, <1>4, <1>6, <1>7, <1>8 DEF RInv

(* The writer has the row that was at the head, and no channel has it.     *)
LEMMA ReceiveKeeps ==
    ASSUME RInv, NEW k \in Kinds, Receive(k)
    PROVE  RInv'
<1> DEFINE r == Head(chan[k])
<1>1. chan[k] \in Seq(Rows) /\ chan \in [Kinds -> Seq(Rows)] /\ chan[k] # <<>>
  BY DEF Receive, RInv, RTypes
<1>2. chan' = [chan EXCEPT ![k] = Tail(chan[k])] /\ writer' = [writer EXCEPT !.row = r]
  BY DEF Receive
<1>3. /\ r \in Rows /\ chan'[k] \in Seq(Rows) /\ Len(chan'[k]) = Len(chan[k]) - 1
      /\ In(chan[k], r) /\ ~In(chan'[k], r)
      /\ \A q : In(chan[k], q) <=> In(chan'[k], q) \/ q = r
      /\ IsInjective(chan'[k])
  BY <1>1, <1>2, TakeRow DEF RInv, RowsAccounted
<1>4. \A l \in Kinds \ {k} : chan'[l] = chan[l]
  BY <1>1, <1>2
<1>5. KindOf[r] = k /\ InChannel(r)
  BY <1>3, InChannelIsIn DEF RInv, OwnKind
<1>6. writer'.row = r /\ r # NoRow /\ writer'.mode = writer.mode
  BY <1>2, <1>3, NoRowAssumption DEF RInv, RTypes
<1>7. RTypes'
  <2>1. chan' \in [Kinds -> Seq(Rows)]
    BY <1>1, <1>2, <1>3
  <2>2. writer' \in [mode : Modes, row : Rows \cup {NoRow}]
    BY <1>2, <1>3 DEF RInv, RTypes
  <2>3. \A l \in Kinds : Len(chan'[l]) <= Capacity
    BY <1>1, <1>3, <1>4, CapacityAssumption DEF RInv, RTypes
  <2> QED BY <2>1, <2>2, <2>3 DEF Receive, RInv, RTypes
<1>8. OwnKind'
  BY <1>3, <1>4 DEF RInv, OwnKind
<1>9. \A q \in Rows : (InChannel(q))' <=> InChannel(q) /\ q # r
  <2> TAKE q \in Rows
  <2>1. KindOf[q] \in Kinds
    BY KindAssumption
  <2>2. (InChannel(q))' <=> In(chan'[KindOf[q]], q)
    BY DEF InChannel, In
  <2>3. KindOf[q] = k \/ (chan'[KindOf[q]] = chan[KindOf[q]] /\ q # r)
    BY <1>4, <1>5, <2>1
  <2> QED BY <2>2, <2>3, <1>3, InChannelIsIn
<1>10. RowsAccounted'
  <2>1. writer.row = NoRow
    BY DEF Receive
  <2>2. \A q \in Rows : (Sent(q))' <=>
          q \in stored' \/ q \in failed' \/ writer'.row = q \/ (InChannel(q))'
    BY <1>5, <1>6, <1>9, <2>1, NoRowAssumption DEF Receive, Sent, RInv, RowsAccounted
  <2>3. \A q \in stored' \cup failed' : writer'.row # q /\ ~(InChannel(q))'
    BY <1>5, <1>6, <1>9 DEF Receive, RInv, RowsAccounted, RTypes
  <2>4. \A l \in Kinds : IsInjective(chan'[l])
    BY <1>3, <1>4 DEF RInv, RowsAccounted
  <2> QED BY <1>3, <1>6, <1>9, <2>2, <2>3, <2>4 DEF Receive, RInv, RowsAccounted
<1>11. CountersCount'
  BY DEF Receive, RInv, CountersCount, Accepted, Refused
<1>12. FlushTracks'
  BY DEF Receive, RInv, FlushTracks, Flushing, FlushCoversQuietCallers, Accepted
<1>13. CloseTracks'
  BY <1>6 DEF Receive, RInv, CloseTracks, Sent
<1> QED BY <1>7, <1>8, <1>10, <1>11, <1>12, <1>13 DEF RInv

(* The row leaves the writer's hand for the table, or for nowhere.         *)
LEMMA InsertKeeps ==
    ASSUME RInv, NEW ok \in BOOLEAN, Insert(ok)
    PROVE  RInv'
<1> DEFINE r == writer.row
<1>1. r \in Rows /\ r # NoRow /\ r \notin stored /\ r \notin failed /\ ~InChannel(r) /\ Sent(r)
  BY DEF Insert, RInv, RTypes, RowsAccounted
<1>2. writer'.row = NoRow /\ writer'.mode = writer.mode
  BY DEF Insert, RInv, RTypes
<1>3. /\ stored' \cup failed' = stored \cup failed \cup {r}
      /\ stored' \cap failed' = {} /\ stored \subseteq stored'
  BY <1>1 DEF Insert, RInv, RowsAccounted
<1>4. RTypes'
  <2>1. writer' \in [mode : Modes, row : Rows \cup {NoRow}]
    BY DEF Insert, RInv, RTypes
  <2> QED BY <1>1, <2>1 DEF Insert, RInv, RTypes
<1>5. OwnKind'
  BY DEF Insert, RInv, OwnKind
<1>6. RowsAccounted'
  <2>1. \A q : (InChannel(q))' <=> InChannel(q)
    BY DEF Insert, InChannel
  <2>2. \A q \in Rows : (Sent(q))' <=>
          q \in stored' \/ q \in failed' \/ writer'.row = q \/ (InChannel(q))'
    BY <1>1, <1>2, <1>3, <2>1, NoRowAssumption DEF Insert, Sent, RInv, RowsAccounted
  <2>3. \A q \in stored' \cup failed' : writer'.row # q /\ ~(InChannel(q))'
    BY <1>1, <1>2, <1>3, <2>1, NoRowAssumption DEF RInv, RowsAccounted, RTypes
  <2> QED BY <1>2, <1>3, <2>2, <2>3 DEF Insert, RInv, RowsAccounted
<1>7. CountersCount' /\ (written' = written \/ written' = written + 1)
  <2>1. Accepted' = Accepted /\ Refused' = Refused
    BY DEF Insert, Accepted, Refused
  <2>2. CASE ok
    BY <1>1, <2>1, <2>2, SetsAreFinite, FS_AddElement DEF Insert, RInv, CountersCount
  <2>3. CASE ~ok
    BY <2>1, <2>3 DEF Insert, RInv, CountersCount
  <2> QED BY <2>2, <2>3
<1>8. FlushTracks'
  <2>1. flush'.seen <= written'
    BY <1>7, SetsAreFinite DEF Insert, RInv, RTypes, FlushTracks, CountersCount
  <2> QED BY <2>1, <1>3 DEF Insert, RInv, FlushTracks, Flushing, FlushCoversQuietCallers, Accepted
<1>9. CloseTracks'
  BY <1>2, <1>3 DEF Insert, RInv, CloseTracks, Sent
<1> QED BY <1>4, <1>5, <1>6, <1>7, <1>8, <1>9 DEF RInv

(* The loop is left for a drain, and entered again.                        *)
LEMMA ModeKeeps ==
    ASSUME RInv, StartDrain \/ SeeDone
    PROVE  RInv'
<1>1. writer' \in [mode : Modes, row : Rows \cup {NoRow}] /\ writer'.row = writer.row
  BY DEF StartDrain, SeeDone, RInv, RTypes, Modes
<1>2. RTypes'
  BY <1>1 DEF StartDrain, SeeDone, RInv, RTypes
<1>3. OwnKind' /\ RowsAccounted'
  BY <1>1, RowsStay DEF StartDrain, SeeDone, Sent
<1>4. CountersCount' /\ FlushTracks'
  BY DEF StartDrain, SeeDone, RInv, CountersCount, FlushTracks, Flushing,
         FlushCoversQuietCallers, Accepted, Refused
<1>5. CloseTracks'
  BY DEF StartDrain, SeeDone, RInv, RTypes, CloseTracks, Sent
<1> QED BY <1>2, <1>3, <1>4, <1>5 DEF RInv

(* The writer returns only when every row that was sent has been tried.    *)
LEMMA DrainEndsKeeps ==
    ASSUME RInv, DrainEnds
    PROVE  RInv'
<1>1. writer' \in [mode : Modes, row : Rows \cup {NoRow}] /\ writer'.row = writer.row
  BY DEF DrainEnds, RInv, RTypes, Modes
<1>2. RTypes'
  BY <1>1 DEF DrainEnds, RInv, RTypes
<1>3. OwnKind' /\ RowsAccounted'
  BY <1>1, RowsStay DEF DrainEnds, Sent
<1>4. CountersCount' /\ FlushTracks'
  BY DEF DrainEnds, RInv, CountersCount, FlushTracks, Flushing, FlushCoversQuietCallers,
         Accepted, Refused
<1>5. \A r \in Rows : Sent(r) => r \in stored \cup failed
  <2>1. \A r \in Rows : ~InChannel(r)
    BY KindAssumption DEF DrainEnds, Buffered, InChannel
  <2> QED BY <2>1, NoRowAssumption DEF DrainEnds, RInv, RowsAccounted
<1>6. CloseTracks'
  BY <1>5 DEF DrainEnds, RInv, RTypes, CloseTracks, Sent, Modes
<1> QED BY <1>2, <1>3, <1>4, <1>6 DEF RInv

(* What a step of Flush leaves alone.                                      *)
LEMMA FlushLeavesRest ==
    ASSUME RInv, UNCHANGED <<call, chan, writer, stored, failed, queued, written, dropped, close>>
    PROVE  /\ OwnKind' /\ RowsAccounted' /\ CountersCount' /\ CloseTracks'
           /\ Accepted' = Accepted
<1>1. OwnKind' /\ RowsAccounted'
  BY RowsStay DEF Sent
<1>2. CountersCount' /\ CloseTracks' /\ Accepted' = Accepted
  BY DEF RInv, CountersCount, CloseTracks, Accepted, Refused, Sent
<1> QED BY <1>1, <1>2

(* Flush begins and loads written.                                         *)
LEMMA FlushGoesOn ==
    ASSUME RInv, StartFlush \/ LoadWritten
    PROVE  RInv'
<1>1. written \in Nat
  BY SetsAreFinite DEF RInv, CountersCount
<1>2. RTypes'
  <2>1. RTypes /\ UNCHANGED <<call, chan, writer, stored, failed, close>>
    BY DEF RInv, StartFlush, LoadWritten
  <2>2. flush' \in [pc : FlushPhases, seen : Nat, due : SUBSET Rows, quiet : BOOLEAN]
    <3>1. CASE StartFlush
      <4>1. {r \in Rows : call[r] = "accepted"} \in SUBSET Rows
            /\ (\A r \in Rows : call[r] # "sent") \in BOOLEAN /\ "load" \in FlushPhases
        BY DEF FlushPhases
      <4> QED BY <2>1, <3>1, <4>1 DEF StartFlush, RTypes
    <3>2. CASE LoadWritten
      BY <1>1, <2>1, <3>2 DEF LoadWritten, RTypes, FlushPhases
    <3> QED BY <3>1, <3>2
  <2> QED BY <2>1, <2>2 DEF RTypes
<1>3. FlushTracks'
  <2>1. CASE StartFlush
    <3>1. /\ flush'.seen = flush.seen /\ flush'.pc = "load" /\ flush'.due = Accepted
          /\ flush'.quiet = \A r \in Rows : call[r] # "sent"
      BY <2>1 DEF StartFlush, RInv, RTypes, Accepted
    <3>2. Accepted' = Accepted /\ call' = call /\ written' = written
      BY <2>1 DEF StartFlush, Accepted
    <3> QED BY <3>1, <3>2 DEF RInv, FlushTracks, Flushing, FlushCoversQuietCallers
  <2>2. CASE LoadWritten
    BY <1>1, <2>2 DEF LoadWritten, RInv, RTypes, FlushTracks, Flushing,
                      FlushCoversQuietCallers, Accepted
  <2> QED BY <2>1, <2>2
<1> QED BY <1>2, <1>3, FlushLeavesRest DEF StartFlush, LoadWritten, RInv

(* As many rows were stored as were accepted, and every stored one was     *)
(* accepted: they are the same.                                            *)
LEMMA FlushEnds ==
    ASSUME RInv, CompareWithQueued \/ TimeOut
    PROVE  RInv'
<1>1. PICK pc \in {"load", "returned", "timedout"} :
         /\ flush' = [flush EXCEPT !.pc = pc, !.seen = 0]
         /\ pc = "returned" => flush.pc = "compare" /\ flush.seen >= queued
         /\ pc = "load" => flush.pc = "compare"
  BY DEF CompareWithQueued, TimeOut
<1>2. RTypes'
  <2>1. flush \in [pc : FlushPhases, seen : Nat, due : SUBSET Rows, quiet : BOOLEAN]
    BY DEF RInv, RTypes
  <2>2. flush' = [flush EXCEPT !.pc = pc, !.seen = 0] /\ pc \in FlushPhases
    BY <1>1 DEF FlushPhases
  <2>3. flush' \in [pc : FlushPhases, seen : Nat, due : SUBSET Rows, quiet : BOOLEAN]
    BY <2>1, <2>2
  <2> QED BY <2>3 DEF CompareWithQueued, TimeOut, RInv, RTypes
<1>3. /\ OwnKind' /\ RowsAccounted' /\ CountersCount' /\ CloseTracks'
      /\ Accepted' = Accepted
  BY FlushLeavesRest DEF CompareWithQueued, TimeOut
<1>4. written \in Nat
  BY SetsAreFinite DEF RInv, CountersCount
<1>5. ASSUME flush.pc = "compare", flush.quiet, flush.seen >= queued
      PROVE  flush.due \subseteq stored
  <2>1. flush.due = Accepted /\ \A r \in Rows : call[r] # "sent"
    BY <1>5 DEF RInv, FlushTracks, Flushing
  <2>2. stored \subseteq Accepted
    BY <2>1 DEF RInv, RTypes, RowsAccounted, Sent, Accepted
  <2>3. /\ queued = Cardinality(Accepted) /\ written = Cardinality(stored)
        /\ queued \in Nat /\ flush.seen <= written /\ flush.seen \in Nat
    BY SetsAreFinite DEF RInv, RTypes, CountersCount, FlushTracks
  <2>4. Cardinality(stored) >= Cardinality(Accepted)
    BY <2>3, <1>4, <1>5
  <2>5. Cardinality(stored) <= Cardinality(Accepted) /\ IsFiniteSet(Accepted)
    BY <2>2, SetsAreFinite, FS_Subset DEF RInv
  <2>6. Cardinality(stored) = Cardinality(Accepted)
    BY <2>3, <2>4, <2>5, <1>4
  <2>7. stored = Accepted
    BY <2>2, <2>5, <2>6, FS_Subset
  <2> QED BY <2>1, <2>7
<1>6. FlushTracks'
  <2>1. call' = call /\ stored' = stored /\ written' = written
    BY DEF CompareWithQueued, TimeOut
  <2>2. /\ flush'.seen = 0 /\ flush'.due = flush.due /\ flush'.quiet = flush.quiet
        /\ flush'.pc = "returned" => flush.pc = "compare" /\ flush.seen >= queued
        /\ flush'.pc = "load" => flush.pc = "compare"
        /\ flush'.pc # "compare"
    BY <1>1 DEF RInv, RTypes
  <2> QED BY <1>3, <1>4, <1>5, <2>1, <2>2
          DEF RInv, FlushTracks, Flushing, FlushCoversQuietCallers
<1> QED BY <1>2, <1>3, <1>6 DEF RInv

(* Close begins before the writer has ended, and ends after it.            *)
LEMMA CloseKeeps ==
    ASSUME RInv, StartClose \/ FinishClose
    PROVE  RInv'
<1>1. RTypes'
  BY DEF StartClose, FinishClose, RInv, RTypes
<1>2. OwnKind' /\ RowsAccounted'
  BY RowsStay DEF StartClose, FinishClose, Sent
<1>3. CountersCount' /\ FlushTracks'
  BY DEF StartClose, FinishClose, RInv, CountersCount, FlushTracks, Flushing,
         FlushCoversQuietCallers, Accepted, Refused
<1>4. CloseTracks'
  BY DEF StartClose, FinishClose, RInv, RTypes, CloseTracks, Sent
<1> QED BY <1>1, <1>2, <1>3, <1>4 DEF RInv

LEMMA StutterKeeps ==
    ASSUME RInv, UNCHANGED vars
    PROVE  RInv'
<1>1. RTypes' /\ FlushTracks'
  BY DEF vars, RInv, RTypes, FlushTracks, Flushing, FlushCoversQuietCallers, Accepted
<1> QED BY <1>1, FlushLeavesRest DEF vars, RInv

----------------------------------------------------------------------------
(* RInv is an invariant: true at the start and kept by every step.         *)
THEOREM RecorderInvariant == Spec => []RInv
<1>1. ASSUME RInv, [Next]_vars
      PROVE  RInv'
  BY <1>1, SendKeeps, CountKeeps, DropKeeps, ReceiveKeeps, InsertKeeps, ModeKeeps,
     DrainEndsKeeps, FlushGoesOn, FlushEnds, CloseKeeps, StutterKeeps
  DEF Next, WriterStep, Flusher
<1> QED BY <1>1, InitRInv, PTL DEF Spec

(* The types: no channel is ever longer than its capacity, and no counter  *)
(* ever larger than the number of calls.                                   *)
THEOREM RecorderTypeCorrect == Spec => []TypeOK
<1>1. ASSUME RInv
      PROVE  TypeOK
  <2>1. ASSUME NEW k \in Kinds
        PROVE  chan[k] \in BoundedSeq(Rows, Capacity)
    <3>1. chan[k] \in Seq(Rows) /\ Len(chan[k]) \in 0 .. Capacity
      BY <1>1, CapacityAssumption DEF RInv, RTypes
    <3>2. chan[k] \in [1 .. Len(chan[k]) -> Rows]
      BY <3>1
    <3> QED BY <3>1, <3>2 DEF BoundedSeq, SeqOf
  <2>2. Accepted \in SUBSET Rows /\ Refused \in SUBSET Rows /\ stored \in SUBSET Rows
    BY <1>1 DEF RInv, RTypes, Accepted, Refused
  <2>3. {queued, written, dropped} \subseteq 0 .. Cardinality(Rows)
    <3>1. /\ Cardinality(Accepted) <= Cardinality(Rows)
          /\ Cardinality(stored) <= Cardinality(Rows)
          /\ Cardinality(Refused) <= Cardinality(Rows)
          /\ Cardinality(Rows) \in Nat
      BY <2>2, RowsAssumption, FS_Subset, FS_CardinalityType
    <3> QED BY <1>1, <3>1, SetsAreFinite DEF RInv, CountersCount
  <2> QED BY <1>1, <2>1, <2>3 DEF RInv, RTypes, TypeOK
<1> QED BY <1>1, RecorderInvariant, PTL

(* No row is lost, duplicated or written twice, for any number of calls    *)
(* and channels of any capacity.                                           *)
THEOREM RowsAreAccounted == Spec => []RowsAccounted
<1>1. RInv => RowsAccounted
  BY DEF RInv
<1> QED BY <1>1, RecorderInvariant, PTL

(* Close flushes both channels, whoever goes on calling Record meanwhile.  *)
THEOREM CloseFlushes == Spec => []CloseFlushesQueue
<1>1. RInv => CloseFlushesQueue
  BY DEF RInv, CloseTracks, CloseFlushesQueue
<1> QED BY <1>1, RecorderInvariant, PTL

(* Flush, when nobody calls Record meanwhile, returns before its deadline  *)
(* only if every accepted row is in the database: comparing two counters   *)
(* is enough.                                                              *)
THEOREM FlushCovers == Spec => []FlushCoversQuietCallers
<1>1. RInv => FlushCoversQuietCallers
  BY DEF RInv, FlushTracks
<1> QED BY <1>1, RecorderInvariant, PTL
=============================================================================
