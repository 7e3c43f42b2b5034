---------------------------- MODULE ReportLogProofs ----------------------------
(***************************************************************************)
(* Theorems about ReportLog: the type invariant, what Flush may rely on,   *)
(* the order of the records on disk, that undamaged segments decode, and   *)
(* that the log implements AppendLog.                                      *)
(*                                                                         *)
(* Most steps do one of four things to the files: nothing, append a frame  *)
(* to the active segment, open an empty segment, or move whole segments to *)
(* higher slots.  The lemmas about files are stated once for each of these *)
(* with the old and the new content of the disk as parameters.             *)
(***************************************************************************)
EXTENDS ReportLog, FiniteSetTheorems, WellFoundedInduction, TLAPS

----------------------------------------------------------------------------
(* Numbers and sequences.                                                  *)

(* Every nonempty set of numbers has a least member: induction, in a form  *)
(* without an operator parameter, from the well-foundedness of inclusion   *)
(* on finite sets.                                                         *)
LEMMA LeastMember ==
    ASSUME NEW A \in SUBSET Nat, A # {}
    PROVE  \E m \in A : \A k \in A : m <= k
<1> DEFINE T == {0 .. a : a \in A}
<1>1. \A a \in A : IsFiniteSet(0 .. a)
  BY FS_Interval
<1>2. T \subseteq FiniteSubsetsOf(Nat) /\ T # {}
  <2>1. ASSUME NEW a \in A
        PROVE  0 .. a \in FiniteSubsetsOf(Nat)
    <3>1. 0 .. a \subseteq Nat
      OBVIOUS
    <3> QED BY <1>1, <3>1 DEF FiniteSubsetsOf
  <2> QED BY <2>1
<1>3. PICK X \in T : \A Y \in T : <<Y, X>> \notin StrictSubsetOrdering(Nat)
  <2> HIDE DEF T
  <2> QED BY <1>2, FS_StrictSubsetOrderingWellFounded, WFMin
<1>4. PICK m \in A : X = 0 .. m
  BY <1>3
<1>5. ASSUME NEW k \in A, k < m
      PROVE  FALSE
  <2>1. 0 .. k \in T /\ 0 .. k \subseteq X /\ 0 .. k # X
    BY <1>4, <1>5
  <2>2. <<0 .. k, X>> \in StrictSubsetOrdering(Nat)
    <3>1. 0 .. k \in SUBSET Nat /\ X \in SUBSET Nat
      BY <1>4
    <3> QED BY <2>1, <3>1, SMT DEF StrictSubsetOrdering
  <2> QED BY <1>3, <2>1, <2>2
<1> QED BY <1>5

(* A nonempty set of numbers with an upper bound has a greatest member.    *)
LEMMA GreatestMember ==
    ASSUME NEW A \in SUBSET Nat, A # {}, NEW n \in Nat, \A a \in A : a <= n
    PROVE  \E m \in A : \A k \in A : k <= m
<1> DEFINE B == {b \in Nat : \E a \in A : b = n - a}
<1>1. B \in SUBSET Nat /\ B # {}
  <2>1. PICK a : a \in A
    OBVIOUS
  <2>2. n - a \in B
    BY <2>1
  <2> QED BY <2>2
<1>2. PICK b \in B : \A c \in B : b <= c
  BY <1>1, LeastMember
<1>3. PICK m \in A : b = n - m
  BY <1>2
<1>4. ASSUME NEW k \in A
      PROVE  k <= m
  <2>1. n - k \in B
    OBVIOUS
  <2> QED BY <1>2, <1>3, <2>1
<1> QED BY <1>4

LEMMA BoundedSequences ==
    ASSUME NEW S, NEW n \in Nat
    PROVE  /\ \A s : s \in BoundedSeq(S, n) <=> s \in Seq(S) /\ Len(s) <= n
           /\ <<>> \in BoundedSeq(S, n)
<1>1. ASSUME NEW s, s \in BoundedSeq(S, n)
      PROVE  s \in Seq(S) /\ Len(s) <= n
  <2>1. PICK m \in 0 .. n : s \in [1 .. m -> S]
    BY <1>1 DEF BoundedSeq, SeqOf
  <2> QED BY <2>1
<1>2. ASSUME NEW s \in Seq(S), Len(s) <= n
      PROVE  s \in BoundedSeq(S, n)
  <2>1. s \in [1 .. Len(s) -> S] /\ Len(s) \in 0 .. n
    BY <1>2
  <2> QED BY <2>1 DEF BoundedSeq, SeqOf
<1>3. <<>> \in BoundedSeq(S, n)
  <2>1. <<>> \in Seq(S) /\ Len(<<>>) <= n
    OBVIOUS
  <2> QED BY <1>2, <2>1
<1>4. \A s : s \in BoundedSeq(S, n) <=> s \in Seq(S) /\ Len(s) <= n
  BY <1>1, <1>2
<1> QED BY <1>3, <1>4

(* The members of a sequence.                                              *)
LEMMA Members ==
    ASSUME NEW S, NEW s \in Seq(S)
    PROVE  /\ \A r : r \in ToSet(s) <=> \E a \in DOMAIN s : r = s[a]
           /\ ToSet(s) \subseteq S
           /\ s = <<>> <=> ToSet(s) = {}
           /\ \A e \in S : ToSet(Append(s, e)) = ToSet(s) \cup {e}
           /\ s # <<>> => ToSet(s) = {Head(s)} \cup ToSet(Tail(s))
<1>1. \A r : r \in ToSet(s) <=> \E a \in DOMAIN s : r = s[a]
  BY DEF ToSet
<1>2. s = <<>> <=> ToSet(s) = {}
  BY DEF ToSet
<1>3. ASSUME NEW e \in S
      PROVE  ToSet(Append(s, e)) = ToSet(s) \cup {e}
  <2>1. /\ DOMAIN Append(s, e) = 1 .. Len(s) + 1 /\ DOMAIN s = 1 .. Len(s)
        /\ Append(s, e)[Len(s) + 1] = e /\ Len(s) \in Nat
        /\ \A a \in 1 .. Len(s) : Append(s, e)[a] = s[a]
    OBVIOUS
  <2>2. \A a \in 1 .. Len(s) + 1 : a = Len(s) + 1 \/ a \in 1 .. Len(s)
    BY <2>1
  <2>3. \A r : r \in ToSet(Append(s, e)) <=> \E a \in DOMAIN Append(s, e) : r = Append(s, e)[a]
    BY DEF ToSet
  <2>4. Len(s) + 1 \in 1 .. Len(s) + 1 /\ \A a \in 1 .. Len(s) : a \in 1 .. Len(s) + 1
    BY <2>1
  <2> QED BY <1>1, <2>1, <2>2, <2>3, <2>4
<1>4. ASSUME s # <<>>
      PROVE  ToSet(s) = {Head(s)} \cup ToSet(Tail(s))
  <2>1. Head(s) = s[1] /\ Len(s) \in Nat \ {0} /\ DOMAIN s = 1 .. Len(s)
    BY <1>4
  <2>2. DOMAIN Tail(s) = 1 .. Len(s) - 1 /\ \A a \in 1 .. Len(s) - 1 : Tail(s)[a] = s[a + 1]
    BY <1>4
  <2>3. ASSUME NEW a \in DOMAIN s
        PROVE  s[a] = s[1] \/ \E b \in DOMAIN Tail(s) : s[a] = Tail(s)[b]
    <3>1. a = 1 \/ a - 1 \in 1 .. Len(s) - 1
      BY <2>1
    <3> QED BY <2>1, <2>2, <3>1
  <2>4. \A b \in DOMAIN Tail(s) : \E a \in DOMAIN s : Tail(s)[b] = s[a]
    BY <2>1, <2>2
  <2>5. \A r : r \in ToSet(Tail(s)) <=> \E b \in DOMAIN Tail(s) : r = Tail(s)[b]
    BY DEF ToSet
  <2>6. 1 \in DOMAIN s
    BY <2>1
  <2>7. Head(s) \in ToSet(s) /\ ToSet(Tail(s)) \subseteq ToSet(s)
    BY <1>1, <2>1, <2>4, <2>5, <2>6
  <2>8. ToSet(s) \subseteq {Head(s)} \cup ToSet(Tail(s))
    <3>1. ASSUME NEW r \in ToSet(s)
          PROVE  r = Head(s) \/ r \in ToSet(Tail(s))
      <4>1. PICK a \in DOMAIN s : r = s[a]
        BY <1>1
      <4> QED BY <2>1, <2>3, <2>5, <4>1
    <3> QED BY <3>1
  <2> QED BY <2>7, <2>8
<1>5. ToSet(s) \subseteq S
  BY <1>1
<1> QED BY <1>1, <1>2, <1>3, <1>4, <1>5

----------------------------------------------------------------------------
(* The files, as functions of the content of the disk.                     *)

Disks == [Dirs -> [Slots -> Seq(Frame) \cup {NoFile}]]

(* OldestToNewest and OnDisk of a disk.                                    *)
Ordered(dsk) ==
    \A d \in Dirs, i, k \in Slots :
        (dsk[d][i] # NoFile /\ dsk[d][k] # NoFile) =>
            \A p \in DOMAIN dsk[d][i], q \in DOMAIN dsk[d][k] :
                /\ Rising(dsk[d][i][p].recs)
                /\ (i > k \/ (i = k /\ p < q)) => Precedes(dsk[d][i][p].recs, dsk[d][k][q].recs)

Kept(dsk) ==
    {r \in Records : \E d \in Dirs, i \in Slots :
        /\ dsk[d][i] # NoFile
        /\ \E j \in DOMAIN dsk[d][i] :
               dsk[d][i][j].damage = "none" /\ r \in ToSet(dsk[d][i][j].recs)}

(* The records of s come before those of R.                                *)
Ahead(s, R) == \A a \in DOMAIN s, r \in R : s[a] < r

(* Every record on the disk comes before those of R.                       *)
Behind(dsk, R) ==
    \A d \in Dirs, i \in Slots :
        dsk[d][i] # NoFile => \A p \in DOMAIN dsk[d][i] : Ahead(dsk[d][i][p].recs, R)

(* A frame depends on the frame before it, in the same file, or on none.   *)
Sound(file) == \A j \in DOMAIN file : file[j].damage = "none"
Chain(file) == \A j \in DOMAIN file : file[j].dict # <<>> => j > 1 /\ file[j].dict = file[j - 1].recs
Chained(dsk) ==
    \A d \in Dirs, i \in Slots : (dsk[d][i] # NoFile /\ Sound(dsk[d][i])) => Chain(dsk[d][i])

LEMMA Constants ==
    /\ MaxBackups \in BackupCounts /\ \A n \in BackupCounts : n \in Slots \ {0}
    /\ MaxBackups \in Nat /\ 0 \in Slots /\ 1 \in Slots /\ Slots = 0 .. MaxBackups
    /\ BatchMax \in Nat \ {0} /\ QueueCap \in Nat \ {0} /\ CheckpointInterval \in Nat \ {0}
    /\ MaxRecords \in Nat /\ Callers \in Nat /\ MaxFaults \in Nat /\ MaxChanges \in Nat
    /\ Records \subseteq Nat
<1> DEFINE From(b) == {x \in BackupCounts : x >= b}
           T == {From(b) : b \in BackupCounts}
<1>1. T \subseteq FiniteSubsetsOf(BackupCounts) /\ T # {}
  <2>1. ASSUME NEW b \in BackupCounts
        PROVE  From(b) \in FiniteSubsetsOf(BackupCounts)
    BY OptionsAssumption, FS_Subset DEF FiniteSubsetsOf
  <2> QED BY <2>1, OptionsAssumption
<1>2. PICK X \in T : \A Y \in T : <<Y, X>> \notin StrictSubsetOrdering(BackupCounts)
  <2> HIDE DEF T
  <2> QED BY <1>1, FS_StrictSubsetOrderingWellFounded, WFMin
<1>3. PICK b \in BackupCounts : X = From(b)
  BY <1>2
<1>4. ASSUME NEW n \in BackupCounts, ~(n <= b)
      PROVE  FALSE
  <2>1. n \in Nat /\ b \in Nat /\ \A x \in BackupCounts : x \in Nat
    BY OptionsAssumption
  <2>2. From(n) \in T /\ From(n) \subseteq X /\ b \in X /\ b \notin From(n)
    <3>1. From(n) \in T
      OBVIOUS
    <3>2. b \in From(b) /\ b \notin From(n)
      BY <1>4, <2>1
    <3>3. \A x \in BackupCounts : x >= n => x >= b
      BY <1>4, <2>1
    <3>4. From(n) \subseteq From(b)
      BY <3>3
    <3> QED BY <1>3, <3>1, <3>2, <3>4
  <2>3. <<From(n), X>> \in StrictSubsetOrdering(BackupCounts)
    <3>1. From(n) \in SUBSET BackupCounts /\ X \in SUBSET BackupCounts
      BY <1>3
    <3> HIDE DEF From
    <3> QED BY <2>2, <3>1, SMT DEF StrictSubsetOrdering
  <2> QED BY <1>2, <2>2, <2>3
<1>5. MaxBackups \in BackupCounts /\ \A n \in BackupCounts : n <= MaxBackups
  BY <1>4 DEF MaxBackups
<1>6. MaxBackups \in Nat \ {0} /\ \A n \in BackupCounts : n \in Nat \ {0}
  BY <1>5, OptionsAssumption
<1>7. Slots = 0 .. MaxBackups
  BY DEF Slots
<1> QED BY <1>5, <1>6, <1>7, CapsAssumption DEF Records

LEMMA Frames ==
    /\ \A f \in Frame : f.recs \in Seq(Records) /\ f.dict \in Seq(Records) /\ f.damage \in Damage
    /\ NoFile \notin Seq(Frame) /\ <<>> \in Seq(Frame)
<1>1. \A f \in Frame : f.recs \in BoundedSeq(Records, BatchMax) /\ f.dict \in BoundedSeq(Records, BatchMax)
                       /\ f.damage \in Damage
  BY DEF Frame
<1>2. \A s \in BoundedSeq(Records, BatchMax) : s \in Seq(Records)
  BY BoundedSequences, Constants
<1> QED BY <1>1, <1>2, NoFileAssumption

LEMMA FilesOfADisk ==
    ASSUME NEW dsk \in Disks, NEW d \in Dirs, NEW i \in Slots, dsk[d][i] # NoFile
    PROVE  /\ dsk[d][i] \in Seq(Frame) /\ DOMAIN dsk[d][i] = 1 .. Len(dsk[d][i]) /\ Len(dsk[d][i]) \in Nat
           /\ \A p \in DOMAIN dsk[d][i] : dsk[d][i][p] \in Frame
<1>1. dsk[d][i] \in Seq(Frame)
  BY DEF Disks
<1> QED BY <1>1

(* A frame is appended to the active segment of e.                         *)
Appended(old, new, e, f) ==
    /\ old \in Disks /\ new \in Disks /\ e \in Dirs /\ f \in Frame
    /\ old[e][0] # NoFile /\ new[e][0] = Append(old[e][0], f)
    /\ \A d \in Dirs, i \in Slots : (d # e \/ i # 0) => new[d][i] = old[d][i]

LEMMA AppendIsAppended ==
    ASSUME NEW old \in Disks, NEW e \in Dirs, old[e][0] # NoFile, NEW f \in Frame
    PROVE  Appended(old, [old EXCEPT ![e][0] = Append(old[e][0], f)], e, f)
<1> DEFINE new == [old EXCEPT ![e][0] = Append(old[e][0], f)]
<1>1. old[e][0] \in Seq(Frame) /\ 0 \in Slots
  BY FilesOfADisk, Constants
<1>2. Append(old[e][0], f) \in Seq(Frame)
  BY <1>1
<1>3. /\ new \in Disks /\ new[e][0] = Append(old[e][0], f)
      /\ \A d \in Dirs, i \in Slots : (d # e \/ i # 0) => new[d][i] = old[d][i]
  BY <1>1, <1>2 DEF Disks
<1> QED BY <1>3 DEF Appended

(* What is found where after that.                                         *)
LEMMA FramesAfterAppend ==
    ASSUME NEW old, NEW new, NEW e, NEW f, Appended(old, new, e, f)
    PROVE  LET n == Len(old[e][0]) + 1 IN
           /\ n \in Nat \ {0} /\ DOMAIN old[e][0] = 1 .. n - 1
           /\ new[e][0] # NoFile /\ DOMAIN new[e][0] = 1 .. n /\ new[e][0][n] = f
           /\ \A p \in 1 .. n - 1 : new[e][0][p] = old[e][0][p]
           /\ \A d \in Dirs, i \in Slots : (d # e \/ i # 0) => new[d][i] = old[d][i]
           /\ \A d \in Dirs, i \in Slots : new[d][i] # NoFile => old[d][i] # NoFile
<1>1. /\ old[e][0] \in Seq(Frame) /\ 0 \in Slots /\ e \in Dirs
      /\ f \in Frame /\ new[e][0] = Append(old[e][0], f) /\ old[e][0] # NoFile
      /\ \A d \in Dirs, i \in Slots : (d # e \/ i # 0) => new[d][i] = old[d][i]
  BY FilesOfADisk, Constants DEF Appended
<1>2. new[e][0] \in Seq(Frame) /\ new[e][0] # NoFile
  <2>1. Append(old[e][0], f) \in Seq(Frame)
    BY <1>1
  <2> QED BY <1>1, <2>1, Frames
<1> QED BY <1>1, <1>2

LEMMA AppendKeepsOrder ==
    ASSUME NEW old, NEW new, NEW e, NEW f, Appended(old, new, e, f), Ordered(old),
           Rising(f.recs), Behind(old, ToSet(f.recs))
    PROVE  Ordered(new)
<1> DEFINE n == Len(old[e][0]) + 1
<1>1. /\ n \in Nat \ {0} /\ DOMAIN old[e][0] = 1 .. n - 1
      /\ new[e][0] # NoFile /\ DOMAIN new[e][0] = 1 .. n /\ new[e][0][n] = f
      /\ \A p \in 1 .. n - 1 : new[e][0][p] = old[e][0][p]
      /\ \A d \in Dirs, i \in Slots : (d # e \/ i # 0) => new[d][i] = old[d][i]
      /\ \A d \in Dirs, i \in Slots : new[d][i] # NoFile => old[d][i] # NoFile
  BY FramesAfterAppend
<1>2. e \in Dirs /\ 0 \in Slots /\ \A i \in Slots : i \in Nat
  BY Constants DEF Appended
<1> HIDE DEF n
<1>3. ASSUME NEW d \in Dirs, NEW i \in Slots, new[d][i] # NoFile, NEW p \in DOMAIN new[d][i]
      PROVE  \/ p \in DOMAIN old[d][i] /\ new[d][i][p] = old[d][i][p]
             \/ d = e /\ i = 0 /\ p = n /\ new[d][i][p] = f
  <2>1. CASE d # e \/ i # 0
    BY <1>1, <1>3, <2>1
  <2>2. CASE d = e /\ i = 0
    <3>1. p \in 1 .. n
      BY <1>1, <1>3, <2>2
    <3>2. p \in 1 .. n - 1 \/ p = n
      BY <1>1, <3>1
    <3> QED BY <1>1, <2>2, <3>2
  <2> QED BY <2>1, <2>2
<1>4. ASSUME NEW d \in Dirs, NEW i \in Slots, old[d][i] # NoFile, NEW p \in DOMAIN old[d][i]
      PROVE  Precedes(old[d][i][p].recs, f.recs)
  BY <1>4 DEF Behind, Ahead, Precedes, ToSet
<1> SUFFICES ASSUME NEW d \in Dirs, NEW i \in Slots, NEW k \in Slots,
                    new[d][i] # NoFile, new[d][k] # NoFile,
                    NEW p \in DOMAIN new[d][i], NEW q \in DOMAIN new[d][k]
             PROVE  /\ Rising(new[d][i][p].recs)
                    /\ (i > k \/ (i = k /\ p < q)) => Precedes(new[d][i][p].recs, new[d][k][q].recs)
  BY DEF Ordered
<1>5. old[d][i] # NoFile /\ old[d][k] # NoFile
  BY <1>1
<1>6. \/ p \in DOMAIN old[d][i] /\ new[d][i][p] = old[d][i][p]
      \/ d = e /\ i = 0 /\ p = n /\ new[d][i][p] = f
  BY <1>3
<1>7. \/ q \in DOMAIN old[d][k] /\ new[d][k][q] = old[d][k][q]
      \/ d = e /\ k = 0 /\ q = n /\ new[d][k][q] = f
  BY <1>3
<1>8. Rising(new[d][i][p].recs)
  BY <1>5, <1>6 DEF Ordered
<1>9. ASSUME i > k \/ (i = k /\ p < q)
      PROVE  Precedes(new[d][i][p].recs, new[d][k][q].recs)
  <2>1. CASE p \in DOMAIN old[d][i] /\ new[d][i][p] = old[d][i][p]
    <3>1. CASE q \in DOMAIN old[d][k] /\ new[d][k][q] = old[d][k][q]
      BY <1>5, <1>9, <2>1, <3>1 DEF Ordered
    <3>2. CASE new[d][k][q] = f
      BY <1>4, <1>5, <2>1, <3>2
    <3> QED BY <1>7, <3>1, <3>2
  <2>2. CASE d = e /\ i = 0 /\ p = n
    <3>1. k = 0 /\ q \in 1 .. n /\ n < q
      BY <1>1, <1>2, <1>9, <2>2
    <3> QED BY <1>1, <3>1
  <2> QED BY <1>6, <2>1, <2>2
<1> QED BY <1>8, <1>9

LEMMA AppendStaysBehind ==
    ASSUME NEW old, NEW new, NEW e, NEW f, Appended(old, new, e, f),
           NEW R, Behind(old, R), Ahead(f.recs, R)
    PROVE  Behind(new, R)
<1> DEFINE n == Len(old[e][0]) + 1
<1>1. /\ n \in Nat \ {0} /\ DOMAIN old[e][0] = 1 .. n - 1
      /\ new[e][0] # NoFile /\ DOMAIN new[e][0] = 1 .. n /\ new[e][0][n] = f
      /\ \A p \in 1 .. n - 1 : new[e][0][p] = old[e][0][p]
      /\ \A d \in Dirs, i \in Slots : (d # e \/ i # 0) => new[d][i] = old[d][i]
      /\ \A d \in Dirs, i \in Slots : new[d][i] # NoFile => old[d][i] # NoFile
  BY FramesAfterAppend
<1> HIDE DEF n
<1>2. ASSUME NEW d \in Dirs, NEW i \in Slots, new[d][i] # NoFile, NEW p \in DOMAIN new[d][i]
      PROVE  Ahead(new[d][i][p].recs, R)
  <2>1. CASE d # e \/ i # 0
    BY <1>1, <1>2, <2>1 DEF Behind
  <2>2. CASE d = e /\ i = 0
    <3>1. p \in 1 .. n - 1 \/ p = n
      BY <1>1, <1>2, <2>2
    <3> QED BY <1>1, <1>2, <2>2, <3>1 DEF Behind
  <2> QED BY <2>1, <2>2
<1> QED BY <1>2 DEF Behind

LEMMA AppendKeepsChains ==
    ASSUME NEW old, NEW new, NEW e, NEW f, Appended(old, new, e, f), Chained(old),
           f.dict # <<>> /\ Sound(old[e][0]) =>
               Len(old[e][0]) > 0 /\ f.dict = old[e][0][Len(old[e][0])].recs
    PROVE  Chained(new)
<1> DEFINE n == Len(old[e][0]) + 1
<1>1. /\ n \in Nat \ {0} /\ DOMAIN old[e][0] = 1 .. n - 1
      /\ new[e][0] # NoFile /\ DOMAIN new[e][0] = 1 .. n /\ new[e][0][n] = f
      /\ \A p \in 1 .. n - 1 : new[e][0][p] = old[e][0][p]
      /\ \A d \in Dirs, i \in Slots : (d # e \/ i # 0) => new[d][i] = old[d][i]
      /\ \A d \in Dirs, i \in Slots : new[d][i] # NoFile => old[d][i] # NoFile
  BY FramesAfterAppend
<1>2. f.dict # <<>> /\ Sound(old[e][0]) => n > 1 /\ f.dict = old[e][0][n - 1].recs
  BY <1>1
<1>3. e \in Dirs /\ 0 \in Slots
  BY Constants DEF Appended
<1> HIDE DEF n
<1>4. ASSUME NEW d \in Dirs, NEW i \in Slots, new[d][i] # NoFile, Sound(new[d][i])
      PROVE  Chain(new[d][i])
  <2>1. CASE d # e \/ i # 0
    BY <1>1, <1>4, <2>1 DEF Chained
  <2>2. CASE d = e /\ i = 0
    <3>1. Sound(old[e][0])
      <4>1. \A p \in 1 .. n - 1 : p \in 1 .. n
        BY <1>1
      <4> QED BY <1>1, <1>4, <2>2, <4>1 DEF Sound
    <3>2. Chain(old[e][0])
      BY <1>1, <1>3, <3>1 DEF Chained
    <3>3. ASSUME NEW j \in 1 .. n, new[e][0][j].dict # <<>>
          PROVE  j > 1 /\ new[e][0][j].dict = new[e][0][j - 1].recs
      <4>1. CASE j = n
        <5>1. n > 1 /\ f.dict = old[e][0][n - 1].recs
          BY <1>1, <1>2, <3>1, <3>3, <4>1
        <5>2. n - 1 \in 1 .. n - 1
          BY <1>1, <5>1
        <5> QED BY <1>1, <4>1, <5>1, <5>2
      <4>2. CASE j # n
        <5>1. j \in 1 .. n - 1
          BY <1>1, <4>2
        <5>2. j > 1 /\ old[e][0][j].dict = old[e][0][j - 1].recs
          BY <1>1, <3>2, <3>3, <5>1 DEF Chain
        <5>3. j - 1 \in 1 .. n - 1
          BY <1>1, <5>1, <5>2
        <5> QED BY <1>1, <5>1, <5>2, <5>3
      <4> QED BY <4>1, <4>2
    <3> QED BY <1>1, <2>2, <3>3 DEF Chain
  <2> QED BY <2>1, <2>2
<1> QED BY <1>4 DEF Chained

LEMMA AppendKeepsRecords ==
    ASSUME NEW old, NEW new, NEW e, NEW f, Appended(old, new, e, f)
    PROVE  Kept(new) = Kept(old) \cup IF f.damage = "none" THEN ToSet(f.recs) ELSE {}
<1> DEFINE n == Len(old[e][0]) + 1
<1>1. /\ n \in Nat \ {0} /\ DOMAIN old[e][0] = 1 .. n - 1
      /\ new[e][0] # NoFile /\ DOMAIN new[e][0] = 1 .. n /\ new[e][0][n] = f
      /\ \A p \in 1 .. n - 1 : new[e][0][p] = old[e][0][p]
      /\ \A d \in Dirs, i \in Slots : (d # e \/ i # 0) => new[d][i] = old[d][i]
      /\ \A d \in Dirs, i \in Slots : new[d][i] # NoFile => old[d][i] # NoFile
  BY FramesAfterAppend
<1>2. e \in Dirs /\ 0 \in Slots /\ ToSet(f.recs) \subseteq Records /\ old[e][0] # NoFile
  BY Constants, Frames, Members DEF Appended
<1> HIDE DEF n
<1>3. \A p \in 1 .. n : p \in 1 .. n - 1 \/ p = n
  BY <1>1
<1>4. n \in 1 .. n /\ \A p \in 1 .. n - 1 : p \in 1 .. n
  BY <1>1
<1>5. ASSUME NEW r \in Kept(new)
      PROVE  r \in Kept(old) \/ (f.damage = "none" /\ r \in ToSet(f.recs))
  <2>1. PICK d \in Dirs, i \in Slots : /\ new[d][i] # NoFile
                                       /\ \E j \in DOMAIN new[d][i] : new[d][i][j].damage = "none" /\ r \in ToSet(new[d][i][j].recs)
    BY DEF Kept
  <2>2. PICK j \in DOMAIN new[d][i] : new[d][i][j].damage = "none" /\ r \in ToSet(new[d][i][j].recs)
    BY <2>1
  <2>3. r \in Records /\ old[d][i] # NoFile
    BY <1>1, <2>1 DEF Kept
  <2>4. CASE d # e \/ i # 0
    BY <1>1, <2>2, <2>3, <2>4 DEF Kept
  <2>5. CASE d = e /\ i = 0
    <3>1. j \in 1 .. n
      BY <1>1, <2>2, <2>5
    <3>2. CASE j = n
      BY <1>1, <2>2, <2>5, <3>2
    <3>3. CASE j \in 1 .. n - 1
      <4>1. old[e][0][j] = new[e][0][j] /\ j \in DOMAIN old[e][0]
        BY <1>1, <3>3
      <4> QED BY <1>2, <2>2, <2>3, <2>5, <4>1 DEF Kept
    <3> QED BY <1>3, <3>1, <3>2, <3>3
  <2> QED BY <2>4, <2>5
<1>6. ASSUME NEW r \in Kept(old)
      PROVE  r \in Kept(new)
  <2>1. PICK d \in Dirs, i \in Slots : /\ old[d][i] # NoFile
                                       /\ \E j \in DOMAIN old[d][i] : old[d][i][j].damage = "none" /\ r \in ToSet(old[d][i][j].recs)
    BY DEF Kept
  <2>2. PICK j \in DOMAIN old[d][i] : old[d][i][j].damage = "none" /\ r \in ToSet(old[d][i][j].recs)
    BY <2>1
  <2>3. r \in Records
    BY DEF Kept
  <2>4. CASE d # e \/ i # 0
    BY <1>1, <2>1, <2>2, <2>3, <2>4 DEF Kept
  <2>5. CASE d = e /\ i = 0
    <3>1. j \in DOMAIN new[e][0] /\ new[e][0][j] = old[e][0][j]
      BY <1>1, <1>4, <2>2, <2>5
    <3> QED BY <1>1, <1>2, <2>2, <2>3, <2>5, <3>1 DEF Kept
  <2> QED BY <2>4, <2>5
<1>7. ASSUME f.damage = "none", NEW r \in ToSet(f.recs)
      PROVE  r \in Kept(new)
  BY <1>1, <1>2, <1>4, <1>7 DEF Kept
<1> QED BY <1>5, <1>6, <1>7

(* Every segment of new is empty or is a segment of old, from h, and those *)
(* of a directory are in the order they were in.                           *)
Moved(old, new, h) ==
    /\ old \in Disks /\ new \in Disks
    /\ \A d \in Dirs, i \in Slots :
          (new[d][i] # NoFile /\ new[d][i] # <<>>) => h[d][i] \in Slots /\ new[d][i] = old[d][h[d][i]]
    /\ \A d \in Dirs, i, k \in Slots :
          (i > k /\ new[d][i] # NoFile /\ new[d][i] # <<>> /\ new[d][k] # NoFile /\ new[d][k] # <<>>) =>
              h[d][i] > h[d][k]

LEMMA MovesKeep ==
    ASSUME NEW old, NEW new, NEW h, Moved(old, new, h)
    PROVE  /\ Ordered(old) => Ordered(new)
           /\ \A R : Behind(old, R) => Behind(new, R)
           /\ Chained(old) => Chained(new)
           /\ Kept(new) \subseteq Kept(old)
<1>1. ASSUME NEW d \in Dirs, NEW i \in Slots, new[d][i] # NoFile, NEW p \in DOMAIN new[d][i]
      PROVE  /\ new[d][i] # <<>> /\ h[d][i] \in Slots
             /\ new[d][i] = old[d][h[d][i]]
  <2>1. new[d][i] # <<>>
    BY <1>1
  <2> QED BY <1>1, <2>1 DEF Moved
<1>2. ASSUME Ordered(old)
      PROVE  Ordered(new)
  <2> SUFFICES ASSUME NEW d \in Dirs, NEW i \in Slots, NEW k \in Slots,
                      new[d][i] # NoFile, new[d][k] # NoFile,
                      NEW p \in DOMAIN new[d][i], NEW q \in DOMAIN new[d][k]
               PROVE  /\ Rising(new[d][i][p].recs)
                      /\ (i > k \/ (i = k /\ p < q)) => Precedes(new[d][i][p].recs, new[d][k][q].recs)
    BY DEF Ordered
  <2>1. /\ new[d][i] # <<>> /\ h[d][i] \in Slots /\ new[d][i] = old[d][h[d][i]]
        /\ new[d][k] # <<>> /\ h[d][k] \in Slots /\ new[d][k] = old[d][h[d][k]]
    BY <1>1
  <2>2. i > k => h[d][i] > h[d][k]
    BY <2>1 DEF Moved
  <2> QED BY <1>2, <2>1, <2>2 DEF Ordered
<1>3. ASSUME NEW R, Behind(old, R)
      PROVE  Behind(new, R)
  BY <1>1, <1>3 DEF Behind
<1>4. ASSUME Chained(old)
      PROVE  Chained(new)
  <2> SUFFICES ASSUME NEW d \in Dirs, NEW i \in Slots, new[d][i] # NoFile, Sound(new[d][i])
               PROVE  Chain(new[d][i])
    BY DEF Chained
  <2>1. CASE new[d][i] = <<>>
    BY <2>1 DEF Chain
  <2>2. CASE new[d][i] # <<>>
    BY <1>4, <2>2 DEF Moved, Chained
  <2> QED BY <2>1, <2>2
<1>5. ASSUME NEW r \in Kept(new)
      PROVE  r \in Kept(old)
  <2>1. PICK d \in Dirs, i \in Slots : /\ new[d][i] # NoFile
                                       /\ \E j \in DOMAIN new[d][i] : new[d][i][j].damage = "none" /\ r \in ToSet(new[d][i][j].recs)
    BY DEF Kept
  <2>2. r \in Records /\ h[d][i] \in Slots /\ new[d][i] = old[d][h[d][i]]
    BY <1>1, <2>1 DEF Kept
  <2> QED BY <2>1, <2>2 DEF Kept
<1> QED BY <1>2, <1>3, <1>4, <1>5

LEMMA NothingMoved ==
    ASSUME NEW old \in Disks
    PROVE  \E h : Moved(old, old, h)
<1> DEFINE h == [d \in Dirs |-> [i \in Slots |-> i]]
<1>1. \A d \in Dirs, i \in Slots : h[d][i] = i
  OBVIOUS
<1> HIDE DEF h
<1>2. Moved(old, old, h)
  BY <1>1 DEF Moved
<1> QED BY <1>2

(* One slot of one directory is given another content.                     *)
Put(old, new, e, k, file) == new = [old EXCEPT ![e][k] = file]

LEMMA SlotSet ==
    ASSUME NEW old \in Disks, NEW e \in Dirs, NEW k \in Slots, NEW file \in Seq(Frame) \cup {NoFile},
           NEW new, Put(old, new, e, k, file)
    PROVE  /\ new \in Disks /\ new[e][k] = file
           /\ \A d \in Dirs, i \in Slots : (d # e \/ i # k) => new[d][i] = old[d][i]
  BY DEF Disks, Put

(* It is emptied or removed.                                               *)
LEMMA SlotCleared ==
    ASSUME NEW old \in Disks, NEW e \in Dirs, NEW k \in Slots, NEW file \in {NoFile, <<>>}
    PROVE  \E h : Moved(old, [old EXCEPT ![e][k] = file], h)
<1> DEFINE new == [old EXCEPT ![e][k] = file]
           h == [d \in Dirs |-> [i \in Slots |-> i]]
<1>1. /\ new \in Disks /\ new[e][k] = file
      /\ \A d \in Dirs, i \in Slots : (d # e \/ i # k) => new[d][i] = old[d][i]
  <2>1. file \in Seq(Frame) \cup {NoFile}
    BY Frames
  <2>2. Put(old, new, e, k, file)
    BY DEF Put
  <2> HIDE DEF h, new
  <2> QED BY <2>1, <2>2, SlotSet
<1>2. \A d \in Dirs, i \in Slots : h[d][i] = i
  OBVIOUS
<1> HIDE DEF h, new
<1>3. Moved(old, new, h)
  BY <1>1, <1>2 DEF Moved
<1> QED BY <1>3 DEF new

(* What is in slot i goes to the free or forgotten slot above it.          *)
MovedUp(old, new, e, i) == new = [old EXCEPT ![e][i + 1] = old[e][i], ![e][i] = NoFile]

LEMMA SlotMovedUp ==
    ASSUME NEW old \in Disks, NEW e \in Dirs, NEW i \in Slots, i + 1 \in Slots,
           NEW new, MovedUp(old, new, e, i)
    PROVE  /\ \E h : Moved(old, new, h)
           /\ new \in Disks /\ new[e][i] = NoFile
           /\ \A d \in Dirs, k \in Slots : (d # e \/ (k # i /\ k # i + 1)) => new[d][k] = old[d][k]
<1> DEFINE mid == [old EXCEPT ![e][i + 1] = old[e][i]]
           h == [d \in Dirs |-> [k \in Slots |-> IF d = e /\ k = i + 1 THEN i ELSE k]]
<1>1. /\ i \in Nat /\ old[e][i] \in Seq(Frame) \cup {NoFile}
      /\ \A k \in Slots : k \in Nat
  BY Constants DEF Disks
<1>2. /\ mid \in Disks /\ mid[e][i + 1] = old[e][i]
      /\ \A d \in Dirs, k \in Slots : (d # e \/ k # i + 1) => mid[d][k] = old[d][k]
  <2>1. Put(old, mid, e, i + 1, old[e][i])
    BY DEF Put
  <2>2. mid[e][i + 1] = old[e][i] /\ \A d \in Dirs, k \in Slots : (d # e \/ k # i + 1) => mid[d][k] = old[d][k]
    <3> HIDE DEF mid, h
    <3> QED BY <1>1, <2>1, SlotSet
  <2>3. mid \in Disks
    <3> HIDE DEF mid, h
    <3> QED BY <1>1, <2>1, SlotSet
  <2> QED BY <2>2, <2>3
<1> HIDE DEF mid, h
<1>3. /\ new \in Disks /\ new[e][i] = NoFile
      /\ \A d \in Dirs, k \in Slots : (d # e \/ k # i) => new[d][k] = mid[d][k]
  <2>1. Put(mid, new, e, i, NoFile)
    BY DEF mid, MovedUp, Put
  <2> QED BY <1>2, <2>1, SlotSet
<1>4. \A d \in Dirs, k \in Slots : h[d][k] = IF d = e /\ k = i + 1 THEN i ELSE k
  BY DEF h
<1>5. new[e][i + 1] = old[e][i]
  BY <1>1, <1>2, <1>3
<1>6. \A d \in Dirs, k \in Slots : (d # e \/ (k # i /\ k # i + 1)) => new[d][k] = old[d][k]
  BY <1>2, <1>3
<1>7. Moved(old, new, h)
  BY <1>1, <1>3, <1>4, <1>5, <1>6 DEF Moved
<1> QED BY <1>3, <1>6, <1>7

(* O_CREATE: the active segment of e is there, empty if it was not.        *)
OpenIn(old, new, e) ==
    new = [old EXCEPT ![e][0] = IF old[e][0] = NoFile THEN <<>> ELSE old[e][0]]

LEMMA SegmentOpened ==
    ASSUME NEW old \in Disks, NEW e \in Dirs, NEW new, OpenIn(old, new, e)
    PROVE  /\ \E h : Moved(old, new, h)
           /\ Kept(new) = Kept(old)
           /\ new \in Disks /\ new[e][0] # NoFile
           /\ new[e][0] = IF old[e][0] = NoFile THEN <<>> ELSE old[e][0]
           /\ \A d \in Dirs, i \in Slots : (d # e \/ i # 0) => new[d][i] = old[d][i]
<1> DEFINE file == IF old[e][0] = NoFile THEN <<>> ELSE old[e][0]
           h == [d \in Dirs |-> [i \in Slots |-> i]]
<1>1. 0 \in Slots /\ file \in Seq(Frame) /\ file # NoFile
  <2>1. 0 \in Slots /\ old[e][0] \in Seq(Frame) \cup {NoFile}
    BY Constants DEF Disks
  <2> QED BY <2>1, Frames
<1> HIDE DEF file
<1>2. /\ new \in Disks /\ new[e][0] = file
      /\ \A d \in Dirs, i \in Slots : (d # e \/ i # 0) => new[d][i] = old[d][i]
  <2>1. Put(old, new, e, 0, file)
    BY DEF Put, OpenIn, file
  <2> HIDE DEF h
  <2> QED BY <1>1, <2>1, SlotSet
<1>3. \A d \in Dirs, i \in Slots : h[d][i] = i
  OBVIOUS
<1>4. new[e][0] # NoFile
  BY <1>1, <1>2
<1> HIDE DEF h
<1>5. \A d \in Dirs, i \in Slots : /\ old[d][i] # NoFile => new[d][i] = old[d][i]
                                   /\ new[d][i] = old[d][i] \/ new[d][i] = <<>>
  BY <1>2 DEF file
<1>6. Moved(old, new, h)
  BY <1>2, <1>3, <1>5 DEF Moved
<1>7. Kept(new) \subseteq Kept(old)
  BY <1>6, MovesKeep
<1>8. Kept(old) \subseteq Kept(new)
  <2> SUFFICES ASSUME NEW r \in Kept(old)
               PROVE  r \in Kept(new)
    OBVIOUS
  <2>1. PICK d \in Dirs, i \in Slots : /\ old[d][i] # NoFile
                                       /\ \E j \in DOMAIN old[d][i] : old[d][i][j].damage = "none" /\ r \in ToSet(old[d][i][j].recs)
    BY DEF Kept
  <2>2. new[d][i] = old[d][i] /\ r \in Records
    BY <1>5, <2>1 DEF Kept
  <2> QED BY <2>1, <2>2 DEF Kept
<1> QED BY <1>2, <1>4, <1>6, <1>7, <1>8 DEF file

----------------------------------------------------------------------------
(* The inductive invariant.                                                *)

(* Records that have not reached the writer, and those not on disk.        *)
Future == {n \in Nat : n > logged}
Waiting == ToSet(queue) \cup Future
Upcoming == ToSet(batch) \cup Waiting

(* Each accepted record is waiting, or is counted as written.              *)
Counters ==
    /\ queued + uncounted = written + Len(queue) + Len(batch)
    /\ queued + uncounted <= logged

(* Disk, batch, queue and the records to come follow each other.           *)
InOrder ==
    /\ Rising(queue) /\ Ahead(queue, Future)
    /\ Rising(batch) /\ Ahead(batch, Waiting)
    /\ Ordered(disk) /\ Behind(disk, Upcoming)

InBatch ==
    /\ writer.pc = "select" => Len(batch) < BatchMax
    /\ writer.pc = "write" => batch # <<>>
    /\ writer.pc = "rotate" => batch = <<>>

(* The dictionary is the content of the last frame of the active segment,  *)
(* unless that segment is damaged or has been archived.                    *)
Dictionary ==
    (prevRaw # <<>> /\ rot.pc # "reopen") =>
        /\ Active # NoFile
        /\ Sound(Active) => Len(Active) > 0 /\ prevRaw = Active[Len(Active)].recs

Rotating ==
    /\ rot.pc = "shift" => rot.i \in 1 .. backupCount
    /\ (open /\ rot.pc = "none") => Active # NoFile

LogInv ==
    /\ TypeOK /\ disk \in Disks /\ "pc" \in DOMAIN reader
    /\ Counters /\ InOrder /\ InBatch
    /\ Chained(disk) /\ Dictionary /\ Rotating

(* A step of the log is one of AppendLog, or shows nothing there.          *)
Step == Promise!Next \/ UNCHANGED <<logged, InMemory, OnDisk>>

LEMMA MemoryTypes ==
    ASSUME LogInv
    PROVE  /\ queue \in Seq(Records) /\ Len(queue) <= QueueCap
           /\ batch \in Seq(Records) /\ Len(batch) <= BatchMax
           /\ prevRaw \in Seq(Records) /\ Len(prevRaw) <= BatchMax
           /\ logged \in 0 .. MaxRecords /\ queued \in Nat /\ written \in Nat /\ uncounted \in Nat
           /\ logDir \in Dirs
  BY BoundedSequences, Constants DEF LogInv, TypeOK

LEMMA CountsInRange ==
    ASSUME LogInv
    PROVE  /\ faults \in 0 .. MaxFaults /\ changes \in 0 .. MaxChanges /\ uncounted \in 0 .. Callers
           /\ queued \in 0 .. logged /\ written \in 0 .. logged
  BY DEF LogInv, TypeOK

LEMMA RisingAppend ==
    ASSUME NEW s \in Seq(Records), NEW e \in Records, Rising(s), Ahead(s, {e})
    PROVE  Rising(Append(s, e))
<1>1. /\ DOMAIN Append(s, e) = 1 .. Len(s) + 1 /\ DOMAIN s = 1 .. Len(s) /\ Len(s) \in Nat
      /\ Append(s, e)[Len(s) + 1] = e
      /\ \A a \in 1 .. Len(s) : Append(s, e)[a] = s[a]
  OBVIOUS
<1>2. ASSUME NEW a \in DOMAIN Append(s, e), NEW b \in DOMAIN Append(s, e), a < b
      PROVE  Append(s, e)[a] < Append(s, e)[b]
  <2>1. a \in 1 .. Len(s) /\ (b \in 1 .. Len(s) \/ b = Len(s) + 1)
    BY <1>1, <1>2
  <2> QED BY <1>1, <1>2, <2>1 DEF Rising, Ahead
<1> QED BY <1>2 DEF Rising

LEMMA AheadAppend ==
    ASSUME NEW s \in Seq(Records), NEW e \in Records, NEW R, Ahead(s, R), \A r \in R : e < r
    PROVE  Ahead(Append(s, e), R)
<1>1. /\ DOMAIN Append(s, e) = 1 .. Len(s) + 1 /\ DOMAIN s = 1 .. Len(s) /\ Len(s) \in Nat
      /\ Append(s, e)[Len(s) + 1] = e
      /\ \A a \in 1 .. Len(s) : Append(s, e)[a] = s[a]
  OBVIOUS
<1>2. \A a \in 1 .. Len(s) + 1 : a \in 1 .. Len(s) \/ a = Len(s) + 1
  BY <1>1
<1> QED BY <1>1, <1>2 DEF Ahead

LEMMA RisingTail ==
    ASSUME NEW s \in Seq(Records), s # <<>>, Rising(s)
    PROVE  /\ Rising(Tail(s)) /\ Tail(s) \in Seq(Records) /\ Head(s) \in Records
           /\ Len(Tail(s)) = Len(s) - 1 /\ Head(s) = s[1] /\ 1 \in DOMAIN s
           /\ \A r \in ToSet(Tail(s)) : Head(s) < r
           /\ \A R : Ahead(s, R) => Ahead(Tail(s), R)
<1>1. /\ Head(s) = s[1] /\ Len(s) \in Nat \ {0} /\ DOMAIN s = 1 .. Len(s)
      /\ DOMAIN Tail(s) = 1 .. Len(s) - 1 /\ Tail(s) \in Seq(Records) /\ Len(Tail(s)) = Len(s) - 1
      /\ \A a \in 1 .. Len(s) - 1 : Tail(s)[a] = s[a + 1]
      /\ Head(s) \in Records
  OBVIOUS
<1>2. \A a \in 1 .. Len(s) - 1 : a + 1 \in 1 .. Len(s) /\ 1 < a + 1
  BY <1>1
<1>3. Rising(Tail(s))
  <2>1. ASSUME NEW a \in 1 .. Len(s) - 1, NEW b \in 1 .. Len(s) - 1, a < b
        PROVE  s[a + 1] < s[b + 1]
    BY <1>1, <1>2, <2>1 DEF Rising
  <2> QED BY <1>1, <2>1 DEF Rising
<1>4. \A r \in ToSet(Tail(s)) : Head(s) < r
  <2>1. 1 \in DOMAIN s
    BY <1>1
  <2>2. \A a \in 1 .. Len(s) - 1 : s[1] < s[a + 1]
    BY <1>1, <1>2, <2>1 DEF Rising
  <2> QED BY <1>1, <2>2 DEF ToSet
<1>5. \A R : Ahead(s, R) => Ahead(Tail(s), R)
  BY <1>1, <1>2 DEF Ahead
<1>6. 1 \in DOMAIN s
  BY <1>1
<1> QED BY <1>1, <1>3, <1>4, <1>5, <1>6

----------------------------------------------------------------------------
(* Steps that leave the files alone.                                       *)

LEMMA FilesAlone ==
    ASSUME LogInv, UNCHANGED <<disk, logDir, backupCount, open, prevRaw, rot>>,
           Upcoming' \subseteq Upcoming
    PROVE  /\ Ordered(disk)' /\ Behind(disk, Upcoming)' /\ Chained(disk)' /\ Dictionary' /\ Rotating'
           /\ (disk \in Disks)' /\ OnDisk' = OnDisk
<1>1. Ordered(disk)' /\ Chained(disk)' /\ Dictionary' /\ Rotating' /\ (disk \in Disks)'
  BY DEF LogInv, InOrder, Ordered, Chained, Dictionary, Rotating, Active
<1>2. Behind(disk, Upcoming)'
  <2>1. Behind(disk, Upcoming) /\ disk' = disk
    BY DEF LogInv, InOrder
  <2> QED BY <2>1 DEF Behind, Ahead
<1> QED BY <1>1, <1>2 DEF OnDisk

LEMMA LogKeeps ==
    ASSUME LogInv, Log
    PROVE  LogInv' /\ Step
<1>1. /\ logged < MaxRecords /\ uncounted < Callers /\ logged' = logged + 1
      /\ \/ Len(queue) < QueueCap /\ queue' = Append(queue, logged + 1) /\ uncounted' = uncounted + 1
         \/ queue' = queue /\ uncounted' = uncounted
      /\ UNCHANGED <<queued, written, runVars, optVars, fileVars, disk, rot, closing, reader, faults, changes>>
  BY DEF Log
<1>2. /\ queue \in Seq(Records) /\ Len(queue) <= QueueCap /\ logged \in 0 .. MaxRecords
      /\ queued \in Nat /\ written \in Nat /\ uncounted \in Nat
  BY MemoryTypes
<1>3. logged + 1 \in Records /\ logged + 1 \in Future
  BY <1>1, <1>2, Constants DEF Records, Future
<1>4. queue' \in Seq(Records) /\ Len(queue') <= QueueCap
  BY <1>1, <1>2, <1>3, Constants
<1>5. TypeOK'
  <2>1. queue' \in BoundedSeq(Records, QueueCap)
    BY <1>4, BoundedSequences, Constants
  <2>2. /\ logged' \in 0 .. MaxRecords /\ uncounted' \in 0 .. Callers
        /\ queued' \in 0 .. logged' /\ written' \in 0 .. logged'
    BY <1>1, <1>2, CountsInRange, Constants
  <2> QED BY <1>1, <2>1, <2>2 DEF LogInv, TypeOK, runVars, optVars, fileVars
<1>6. Counters'
  <2>1. Len(Append(queue, logged + 1)) = Len(queue) + 1
    BY <1>2, <1>3
  <2>2. batch' = batch /\ Len(batch) \in Nat /\ Len(queue) \in Nat
    BY <1>1, <1>2, MemoryTypes DEF runVars
  <2>3. queued + uncounted = written + Len(queue) + Len(batch) /\ queued + uncounted <= logged
    BY DEF LogInv, Counters
  <2>4. /\ queued' = queued /\ written' = written /\ logged' = logged + 1
        /\ queued \in Nat /\ written \in Nat /\ uncounted \in Nat /\ logged \in Nat
    BY <1>1, <1>2, Constants
  <2>5. \/ Len(queue') = Len(queue) + 1 /\ uncounted' = uncounted + 1
        \/ Len(queue') = Len(queue) /\ uncounted' = uncounted
    BY <1>1, <2>1
  <2> QED BY <2>2, <2>3, <2>4, <2>5 DEF Counters
<1>7. Future' \subseteq Future /\ \A n \in Future' : logged + 1 < n
  BY <1>1, <1>2 DEF Future
<1>8. ToSet(queue') = ToSet(queue) \/ ToSet(queue') = ToSet(queue) \cup {logged + 1}
  <2>1. ToSet(Append(queue, logged + 1)) = ToSet(queue) \cup {logged + 1}
    BY <1>2, <1>3, Members
  <2> QED BY <1>1, <2>1
<1>9. Waiting' \subseteq Waiting /\ Upcoming' \subseteq Upcoming
  BY <1>1, <1>3, <1>7, <1>8 DEF Waiting, Upcoming, runVars
<1>10. Rising(queue') /\ Ahead(queue', Future')
  <2>1. Rising(queue) /\ Ahead(queue, Future')  /\ Ahead(queue, {logged + 1})
    BY <1>3, <1>7 DEF LogInv, InOrder, Ahead
  <2> QED BY <1>1, <1>2, <1>3, <1>7, <2>1, RisingAppend, AheadAppend
<1>11. Rising(batch') /\ Ahead(batch', Waiting')
  BY <1>1, <1>9 DEF LogInv, InOrder, Ahead, runVars
<1>12. InBatch'
  BY <1>1 DEF LogInv, InBatch, runVars
<1>13. /\ Ordered(disk)' /\ Behind(disk, Upcoming)' /\ Chained(disk)' /\ Dictionary' /\ Rotating'
       /\ (disk \in Disks)' /\ OnDisk' = OnDisk
  BY <1>1, <1>9, FilesAlone DEF optVars, fileVars
<1>14. LogInv'
  BY <1>1, <1>5, <1>6, <1>10, <1>11, <1>12, <1>13 DEF LogInv, InOrder
<1>15. Promise!Log
  BY <1>1, <1>8, <1>13 DEF Promise!Log, InMemory, runVars
<1> QED BY <1>14, <1>15 DEF Step, Promise!Next

LEMMA CountKeeps ==
    ASSUME LogInv, Count
    PROVE  LogInv' /\ Step
<1>1. /\ uncounted > 0 /\ uncounted' = uncounted - 1 /\ queued' = queued + 1
      /\ UNCHANGED <<logged, queue, written, runVars, optVars, fileVars, disk, rot, closing, reader, faults, changes>>
  BY DEF Count
<1>2. /\ queued \in Nat /\ uncounted \in Nat /\ logged \in Nat /\ Len(queue) \in Nat /\ Len(batch) \in Nat
      /\ written \in Nat /\ queued + uncounted <= logged /\ uncounted <= Callers
      /\ queued + uncounted = written + Len(queue) + Len(batch)
  BY MemoryTypes, Constants DEF LogInv, TypeOK, Counters
<1>3. TypeOK'
  <2>1. uncounted' \in 0 .. Callers /\ queued' \in 0 .. logged'
    BY <1>1, <1>2, Constants
  <2> QED BY <1>1, <2>1 DEF LogInv, TypeOK, runVars, optVars, fileVars
<1>4. Counters'
  BY <1>1, <1>2 DEF Counters, runVars
<1>5. Upcoming' = Upcoming /\ Waiting' = Waiting /\ Future' = Future /\ InMemory' = InMemory
  BY <1>1 DEF Upcoming, Waiting, Future, InMemory, runVars
<1>6. /\ Ordered(disk)' /\ Behind(disk, Upcoming)' /\ Chained(disk)' /\ Dictionary' /\ Rotating'
      /\ (disk \in Disks)' /\ OnDisk' = OnDisk
  BY <1>1, <1>5, FilesAlone DEF optVars, fileVars
<1>7. LogInv'
  BY <1>1, <1>3, <1>4, <1>5, <1>6 DEF LogInv, InOrder, InBatch, runVars
<1> QED BY <1>1, <1>5, <1>6, <1>7 DEF Step

LEMMA ReceiveKeeps ==
    ASSUME LogInv, Receive
    PROVE  LogInv' /\ Step
<1>1. /\ writer.pc = "select" /\ queue # <<>>
      /\ batch' = Append(batch, Head(queue)) /\ queue' = Tail(queue)
      /\ timerActive' = (timerActive \/ writer.mode = "loop")
      /\ writer' = [writer EXCEPT !.pc = IF Len(batch') >= BatchMax THEN "write" ELSE "select"]
      /\ UNCHANGED <<logged, uncounted, queued, written, optVars, fileVars, disk, rot, closing, reader, faults, changes>>
  BY DEF Receive
<1>2. /\ queue \in Seq(Records) /\ Len(queue) <= QueueCap /\ batch \in Seq(Records)
      /\ Len(batch) < BatchMax /\ BatchMax \in Nat \ {0}
  BY <1>1, MemoryTypes, Constants DEF LogInv, InBatch
<1>3. /\ Rising(queue) /\ Ahead(queue, Future) /\ Rising(batch) /\ Ahead(batch, Waiting)
  BY DEF LogInv, InOrder
<1>4. /\ Rising(Tail(queue)) /\ Tail(queue) \in Seq(Records) /\ Head(queue) \in Records
      /\ Len(Tail(queue)) = Len(queue) - 1 /\ Head(queue) = queue[1] /\ 1 \in DOMAIN queue
      /\ \A r \in ToSet(Tail(queue)) : Head(queue) < r
      /\ Ahead(Tail(queue), Future)
  BY <1>1, <1>2, <1>3, RisingTail
<1>5. Head(queue) \in ToSet(queue) /\ ToSet(queue) = {Head(queue)} \cup ToSet(Tail(queue))
  BY <1>1, <1>2, Members
<1>6. ToSet(batch') = ToSet(batch) \cup {Head(queue)}
  <2>1. ToSet(Append(batch, Head(queue))) = ToSet(batch) \cup {Head(queue)}
    BY <1>2, <1>4, Members
  <2> QED BY <1>1, <2>1
<1>7. Len(batch') = Len(batch) + 1 /\ batch' \in Seq(Records) /\ batch' # <<>>
  BY <1>1, <1>2, <1>4
<1>8. Future' = Future /\ Waiting' \subseteq Waiting /\ Upcoming' = Upcoming /\ InMemory' = InMemory
  BY <1>1, <1>5, <1>6 DEF Future, Waiting, Upcoming, InMemory
<1>9. TypeOK'
  <2>1. queue' \in BoundedSeq(Records, QueueCap) /\ batch' \in BoundedSeq(Records, BatchMax)
    <3>1. /\ queue' \in Seq(Records) /\ Len(queue') <= QueueCap /\ QueueCap \in Nat
          /\ batch' \in Seq(Records) /\ Len(batch') <= BatchMax
      BY <1>1, <1>2, <1>4, <1>7, Constants
    <3> QED BY <1>2, <3>1, BoundedSequences
  <2>2. writer' \in [mode : {"loop", "drain", "last", "exited"}, pc : {"select", "write", "rotate"}]
        /\ timerActive' \in BOOLEAN
    BY <1>1 DEF LogInv, TypeOK
  <2> QED BY <1>1, <2>1, <2>2 DEF LogInv, TypeOK, optVars, fileVars
<1>10. Counters'
  BY <1>1, <1>2, <1>4, <1>7, MemoryTypes DEF LogInv, Counters
<1>11. InBatch'
  <2>1. writer'.pc = IF Len(batch') >= BatchMax THEN "write" ELSE "select"
    BY <1>1 DEF LogInv, TypeOK
  <2> QED BY <1>2, <1>7, <2>1 DEF InBatch
<1>12. Rising(batch')
  <2>1. Ahead(batch, {Head(queue)})
    BY <1>3, <1>5 DEF Ahead, Waiting
  <2> QED BY <1>1, <1>2, <1>3, <1>4, <2>1, RisingAppend
<1>13. Ahead(batch', Waiting')
  <2>1. Ahead(batch, Waiting')
    BY <1>3, <1>8 DEF Ahead
  <2>2. \A r \in Waiting' : Head(queue) < r
    BY <1>1, <1>3, <1>4, <1>8 DEF Waiting, Ahead
  <2> QED BY <1>1, <1>2, <1>4, <2>1, <2>2, AheadAppend
<1>14. /\ Ordered(disk)' /\ Behind(disk, Upcoming)' /\ Chained(disk)' /\ Dictionary' /\ Rotating'
       /\ (disk \in Disks)' /\ OnDisk' = OnDisk
  BY <1>1, <1>8, FilesAlone DEF optVars, fileVars
<1>15. LogInv'
  BY <1>1, <1>4, <1>8, <1>9, <1>10, <1>11, <1>12, <1>13, <1>14 DEF LogInv, InOrder
<1> QED BY <1>1, <1>8, <1>14, <1>15 DEF Step

(* The steps of the writer that only change where it is, Close, and those  *)
(* of the reader.                                                          *)
Elsewhere ==
    /\ UNCHANGED <<memVars, batch, optVars, fileVars, disk, rot, faults, changes>>
    /\ timerActive' \in BOOLEAN /\ closing' \in BOOLEAN
    /\ writer' \in [mode : {"loop", "drain", "last", "exited"}, pc : {"select", "write", "rotate"}]
    /\ writer'.pc # writer.pc => writer.pc = "select" /\ writer'.pc = "write" /\ batch # <<>>
    /\ reader'.pc \in {"idle", "list", "scan", "decode", "done"} /\ "pc" \in DOMAIN reader'

LEMMA ElsewhereKeeps ==
    ASSUME LogInv, Elsewhere
    PROVE  LogInv' /\ Step
<1>1. TypeOK'
  BY DEF LogInv, TypeOK, Elsewhere, memVars, optVars, fileVars
<1>2. Upcoming' = Upcoming /\ Waiting' = Waiting /\ Future' = Future /\ InMemory' = InMemory
  BY DEF Upcoming, Waiting, Future, InMemory, Elsewhere, memVars
<1>3. /\ Ordered(disk)' /\ Behind(disk, Upcoming)' /\ Chained(disk)' /\ Dictionary' /\ Rotating'
      /\ (disk \in Disks)' /\ OnDisk' = OnDisk
  BY <1>2, FilesAlone DEF Elsewhere, optVars, fileVars
<1>4. InBatch'
  <2>1. batch' = batch
    BY DEF Elsewhere
  <2>2. CASE writer'.pc = writer.pc
    BY <2>1, <2>2 DEF LogInv, InBatch
  <2>3. CASE writer'.pc # writer.pc
    BY <2>1, <2>3 DEF Elsewhere, InBatch
  <2> QED BY <2>2, <2>3
<1>5. LogInv'
  BY <1>1, <1>2, <1>3, <1>4 DEF LogInv, InOrder, Counters, Elsewhere, memVars
<1> QED BY <1>2, <1>3, <1>5 DEF Step, Elsewhere, memVars

LEMMA ElsewhereSteps ==
    ASSUME LogInv, TimerFires \/ SeeDone \/ DrainEnds \/ Close \/ ReaderStep
    PROVE  Elsewhere
<1>1. /\ writer \in [mode : {"loop", "drain", "last", "exited"}, pc : {"select", "write", "rotate"}]
      /\ timerActive \in BOOLEAN /\ closing \in BOOLEAN
      /\ reader.pc \in {"idle", "list", "scan", "decode", "done"} /\ "pc" \in DOMAIN reader
  BY DEF LogInv, TypeOK
<1>2. CASE TimerFires
  BY <1>1, <1>2 DEF TimerFires, Elsewhere
<1>3. CASE SeeDone
  BY <1>1, <1>3 DEF SeeDone, Elsewhere
<1>4. CASE DrainEnds
  BY <1>1, <1>4 DEF DrainEnds, Elsewhere
<1>5. CASE Close
  BY <1>1, <1>5 DEF Close, Elsewhere, runVars
<1>6. CASE ReaderStep
  <2>1. /\ UNCHANGED <<memVars, runVars, optVars, fileVars, disk, rot, closing, faults, changes>>
    BY <1>6 DEF ReaderStep, BeginRead, List, ScanIndex, Decode, ReadDone
  <2>2. reader'.pc \in {"idle", "list", "scan", "decode", "done"} /\ "pc" \in DOMAIN reader'
    <3>1. CASE BeginRead
      BY <3>1 DEF BeginRead, Reader
    <3>2. CASE List
      BY <1>1, <3>2 DEF List
    <3>3. CASE ScanIndex
      BY <1>1, <3>3 DEF ScanIndex
    <3>4. CASE Decode
      BY <1>1, <3>4 DEF Decode
    <3>5. CASE ReadDone
      BY <3>5 DEF ReadDone, Reader
    <3> QED BY <1>6, <3>1, <3>2, <3>3, <3>4, <3>5 DEF ReaderStep
  <2> QED BY <1>1, <2>1, <2>2 DEF Elsewhere, runVars
<1> QED BY <1>2, <1>3, <1>4, <1>5, <1>6

----------------------------------------------------------------------------
(* The batch leaves memory.                                                *)

LEMMA BatchLeaves ==
    ASSUME LogInv, writer.pc = "write", BatchDone, UNCHANGED <<logged, uncounted, queue, queued>>
    PROVE  /\ batch' = <<>> /\ timerActive' = FALSE /\ written' \in 0 .. logged
           /\ Counters' /\ Rising(queue)' /\ Ahead(queue, Future)' /\ Rising(batch)' /\ Ahead(batch, Waiting)'
           /\ Upcoming' = Waiting /\ Upcoming' \subseteq Upcoming
           /\ Behind(disk, ToSet(batch)) /\ Behind(disk, Waiting)
           /\ InMemory' = InMemory \ ToSet(batch) /\ ToSet(batch) \subseteq InMemory
           /\ Promise!NextInLine(ToSet(batch))
<1>1. /\ batch' = <<>> /\ timerActive' = FALSE /\ written' = written + Len(batch)
      /\ logged' = logged /\ uncounted' = uncounted /\ queue' = queue /\ queued' = queued
  BY DEF BatchDone
<1>2. /\ queue \in Seq(Records) /\ batch \in Seq(Records) /\ written \in Nat /\ queued \in Nat
      /\ uncounted \in Nat /\ logged \in Nat /\ batch # <<>>
  BY MemoryTypes, Constants DEF LogInv, InBatch
<1>3. /\ Counters /\ Rising(queue) /\ Ahead(queue, Future) /\ Ahead(batch, Waiting)
      /\ Behind(disk, Upcoming)
  BY DEF LogInv, InOrder
<1>4. Counters' /\ written' \in 0 .. logged
  <2>1. Len(batch) \in Nat /\ Len(queue) \in Nat /\ Len(batch') = 0
    BY <1>1, <1>2
  <2> QED BY <1>1, <1>2, <1>3, <2>1 DEF Counters
<1>5. Waiting' = Waiting /\ Future' = Future /\ ToSet(batch') = {}
  BY <1>1 DEF Waiting, Future, ToSet
<1>6. Rising(batch') /\ Ahead(batch', Waiting')
  BY <1>1 DEF Rising, Ahead
<1>7. Behind(disk, ToSet(batch)) /\ Behind(disk, Waiting)
  BY <1>3 DEF Behind, Ahead, Upcoming
<1>8. \A r \in ToSet(batch), s \in ToSet(queue) : r < s
  BY <1>3 DEF Ahead, Waiting, ToSet
<1>9. ToSet(batch) # {} /\ ToSet(batch) \subseteq Nat
  <2>1. ToSet(batch) \subseteq Records /\ (batch = <<>> <=> ToSet(batch) = {})
    BY <1>2, Members
  <2> QED BY <1>2, <2>1, Constants
<1>10. ToSet(batch) \cap ToSet(queue) = {}
  BY <1>8, <1>9
<1> QED BY <1>1, <1>3, <1>4, <1>5, <1>6, <1>7, <1>8, <1>9, <1>10
        DEF Upcoming, InMemory, Promise!NextInLine

LEMMA NewFrames ==
    ASSUME LogInv, NEW damage \in Damage
    PROVE  /\ NewFrame(damage) \in Frame /\ NewFrame(damage).recs = batch
           /\ NewFrame(damage).damage = damage
           /\ NewFrame(damage).dict = IF Checkpoint THEN <<>> ELSE prevRaw
<1>1. batch \in BoundedSeq(Records, BatchMax) /\ prevRaw \in BoundedSeq(Records, BatchMax)
  BY DEF LogInv, TypeOK
<1>2. <<>> \in BoundedSeq(Records, BatchMax)
  BY BoundedSequences, Constants
<1> QED BY <1>1, <1>2 DEF NewFrame, Frame

(* What the files are like once the batch is on them, whole or not.        *)
LEMMA FrameWritten ==
    ASSUME LogInv, writer.pc = "write", rot.pc = "none", open, NEW damage \in Damage,
           AppendFrame(damage)
    PROVE  /\ (disk \in Disks)' /\ Ordered(disk)' /\ Chained(disk)'
           /\ Behind(disk', Waiting)
           /\ OnDisk' = OnDisk \cup IF damage = "none" THEN ToSet(batch) ELSE {}
           /\ disk'[logDir][0] = Append(Active, NewFrame(damage)) /\ disk'[logDir][0] # NoFile
           /\ Active \in Seq(Frame)
<1>1. /\ disk \in Disks /\ Active # NoFile /\ Active = disk[logDir][0] /\ logDir \in Dirs /\ 0 \in Slots
  BY MemoryTypes, Constants DEF LogInv, Rotating, Active
<1>2. /\ NewFrame(damage) \in Frame /\ NewFrame(damage).recs = batch /\ NewFrame(damage).damage = damage
      /\ NewFrame(damage).dict = IF Checkpoint THEN <<>> ELSE prevRaw
  BY NewFrames
<1> DEFINE f == NewFrame(damage)
<1>3. disk' = [disk EXCEPT ![logDir][0] = Append(disk[logDir][0], f)]
  BY DEF AppendFrame
<1> HIDE DEF f
<1>4. Appended(disk, disk', logDir, f)
  BY <1>1, <1>2, <1>3, AppendIsAppended DEF f
<1>5. Rising(batch) /\ Behind(disk, ToSet(batch)) /\ Behind(disk, Waiting) /\ Ahead(batch, Waiting)
  BY DEF LogInv, InOrder, Behind, Ahead, Upcoming
<1>6. f.dict # <<>> /\ Sound(Active) => Len(Active) > 0 /\ f.dict = Active[Len(Active)].recs
  BY <1>2 DEF f, Checkpoint, LogInv, Dictionary
<1>7. Ordered(disk')
  BY <1>2, <1>4, <1>5, AppendKeepsOrder DEF f, LogInv, InOrder
<1>8. Chained(disk')
  BY <1>1, <1>4, <1>6, AppendKeepsChains DEF LogInv
<1>9. Behind(disk', Waiting)
  BY <1>2, <1>4, <1>5, AppendStaysBehind DEF f
<1>10. Kept(disk') = Kept(disk) \cup IF damage = "none" THEN ToSet(batch) ELSE {}
  BY <1>2, <1>4, AppendKeepsRecords DEF f
<1>11. disk' \in Disks /\ disk'[logDir][0] = Append(Active, f) /\ disk'[logDir][0] # NoFile /\ Active \in Seq(Frame)
  <2>1. Active \in Seq(Frame)
    BY <1>1, FilesOfADisk
  <2>2. disk' \in Disks /\ disk'[logDir][0] = Append(Active, f)
    BY <1>1, <1>4 DEF Appended
  <2>3. Append(Active, f) \in Seq(Frame)
    BY <1>2, <2>1 DEF f
  <2> QED BY <2>1, <2>2, <2>3, Frames
<1> QED BY <1>7, <1>8, <1>9, <1>10, <1>11 DEF f, OnDisk, Kept, Ordered, Chained

LEMMA WriteBatchKeeps ==
    ASSUME LogInv, WriteBatch
    PROVE  LogInv' /\ Step
<1>1. /\ writer.pc = "write" /\ rot.pc = "none" /\ open /\ AppendFrame("none") /\ BatchDone
      /\ fileSize' = fileSize + 1 /\ prevRaw' = batch
      /\ chunksSinceCheckpoint' = IF Checkpoint THEN 1 ELSE chunksSinceCheckpoint + 1
      /\ \/ rot' = [pc |-> "shift", i |-> backupCount] /\ writer' = [writer EXCEPT !.pc = "rotate"]
         \/ Resume /\ rot' = rot
      /\ UNCHANGED <<logged, uncounted, queue, queued, optVars, open, closing, reader, faults, changes>>
  BY DEF WriteBatch
<1>2. /\ batch' = <<>> /\ timerActive' = FALSE /\ written' \in 0 .. logged
      /\ Counters' /\ Rising(queue)' /\ Ahead(queue, Future)' /\ Rising(batch)' /\ Ahead(batch, Waiting)'
      /\ Upcoming' = Waiting /\ Upcoming' \subseteq Upcoming
      /\ InMemory' = InMemory \ ToSet(batch) /\ ToSet(batch) \subseteq InMemory
      /\ Promise!NextInLine(ToSet(batch))
  BY <1>1, BatchLeaves
<1>3. /\ (disk \in Disks)' /\ Ordered(disk)' /\ Chained(disk)' /\ Behind(disk', Waiting)
      /\ OnDisk' = OnDisk \cup ToSet(batch)
      /\ disk'[logDir][0] = Append(Active, NewFrame("none")) /\ disk'[logDir][0] # NoFile
      /\ Active \in Seq(Frame)
  BY <1>1, FrameWritten DEF Damage
<1>4. /\ writer' \in [mode : {"loop", "drain", "last", "exited"}, pc : {"select", "write", "rotate"}]
      /\ writer'.pc \in {"select", "rotate"}
      /\ rot' \in [pc : {"none", "shift", "archive", "reopen"}, i : Slots]
      /\ rot'.pc \in {"none", "shift"} /\ (rot'.pc = "shift" => rot'.i = backupCount)
  <2>1. backupCount \in Slots
    BY Constants DEF LogInv, TypeOK
  <2> QED BY <1>1, <2>1 DEF LogInv, TypeOK, Resume
<1>5. chunksSinceCheckpoint' \in 0 .. CheckpointInterval
  <2>1. chunksSinceCheckpoint \in 0 .. CheckpointInterval /\ CheckpointInterval \in Nat \ {0}
    BY Constants DEF LogInv, TypeOK
  <2> QED BY <1>1, <2>1 DEF Checkpoint
<1>6. TypeOK'
  <2>1. batch' \in BoundedSeq(Records, BatchMax) /\ prevRaw' \in BoundedSeq(Records, BatchMax)
    BY <1>1, <1>2, BoundedSequences, Constants DEF LogInv, TypeOK
  <2>2. fileSize' \in Nat
    BY <1>1 DEF LogInv, TypeOK
  <2>3. \A d \in Dirs, i \in Slots : disk'[d][i] # NoFile => disk'[d][i] \in Seq(Frame)
    BY <1>3 DEF Disks
  <2> QED BY <1>1, <1>2, <1>4, <1>5, <2>1, <2>2, <2>3 DEF LogInv, TypeOK, optVars
<1>7. logDir' = logDir /\ backupCount' = backupCount
  BY <1>1 DEF optVars
<1>8. Dictionary'
  <2>1. NewFrame("none") \in Frame /\ NewFrame("none").recs = batch
    BY NewFrames DEF Damage
  <2>2. Len(Active') > 0 /\ Active'[Len(Active')].recs = batch
    BY <1>3, <1>7, <2>1 DEF Active
  <2> QED BY <1>1, <1>3, <1>7, <2>2 DEF Dictionary, Active
<1>9. Rotating'
  <2>1. backupCount \in 1 .. backupCount
    BY Constants DEF LogInv, TypeOK, Slots
  <2> QED BY <1>3, <1>4, <1>7, <2>1 DEF Rotating, Active
<1>10. InBatch'
  BY <1>2, <1>4, Constants DEF InBatch
<1>11. LogInv'
  BY <1>1, <1>2, <1>3, <1>6, <1>8, <1>9, <1>10 DEF LogInv, InOrder
<1>12. Promise!Leave(ToSet(batch))
  BY <1>1, <1>2, <1>3 DEF Promise!Leave
<1> QED BY <1>2, <1>11, <1>12 DEF Step, Promise!Next

LEMMA OverlapTypes ==
    ASSUME LogInv, Overlap
    PROVE  reader'.pc \in {"idle", "list", "scan", "decode", "done"} /\ "pc" \in DOMAIN reader'
  BY DEF LogInv, TypeOK, Overlap, Reader

LEMMA ResumeTypes ==
    ASSUME LogInv, Resume
    PROVE  /\ writer' \in [mode : {"loop", "drain", "last", "exited"}, pc : {"select", "write", "rotate"}]
           /\ writer'.pc = "select"
  BY DEF LogInv, TypeOK, Resume

LEMMA WriteFailsKeeps ==
    ASSUME LogInv, NEW damage \in Damage, WriteFails(damage)
    PROVE  LogInv' /\ Step
<1>1. /\ writer.pc = "write" /\ rot.pc = "none" /\ BatchDone /\ Resume
      /\ faults' \in {faults, faults + 1} /\ (faults' # faults => faults < MaxFaults)
      /\ \/ damage = "none" /\ disk' = disk /\ reader' = reader
         \/ damage # "none" /\ open /\ AppendFrame(damage) /\ Overlap
      /\ UNCHANGED <<logged, uncounted, queue, queued, optVars, fileVars, rot, closing, changes>>
  BY DEF WriteFails
<1>2. /\ batch' = <<>> /\ timerActive' = FALSE /\ written' \in 0 .. logged
      /\ Counters' /\ Rising(queue)' /\ Ahead(queue, Future)' /\ Rising(batch)' /\ Ahead(batch, Waiting)'
      /\ Upcoming' = Waiting /\ Upcoming' \subseteq Upcoming /\ Behind(disk, Waiting)
      /\ InMemory' = InMemory \ ToSet(batch) /\ ToSet(batch) \subseteq InMemory
      /\ Promise!NextInLine(ToSet(batch))
  BY <1>1, BatchLeaves
<1>3. /\ (disk \in Disks)' /\ Ordered(disk)' /\ Chained(disk)' /\ Behind(disk', Waiting)
      /\ OnDisk' = OnDisk /\ Dictionary' /\ Rotating'
  <2>1. logDir' = logDir /\ backupCount' = backupCount /\ prevRaw' = prevRaw /\ open' = open /\ rot' = rot
    BY <1>1 DEF optVars, fileVars
  <2>2. CASE disk' = disk
    <3>1. /\ Ordered(disk)' /\ Chained(disk)' /\ Dictionary' /\ Rotating' /\ (disk \in Disks)' /\ OnDisk' = OnDisk
      BY <1>2, <2>1, <2>2, FilesAlone
    <3> QED BY <1>2, <2>2, <3>1
  <2>3. CASE damage # "none" /\ open /\ AppendFrame(damage)
    <3>1. /\ (disk \in Disks)' /\ Ordered(disk)' /\ Chained(disk)' /\ Behind(disk', Waiting)
          /\ OnDisk' = OnDisk
          /\ disk'[logDir][0] = Append(Active, NewFrame(damage)) /\ disk'[logDir][0] # NoFile
          /\ Active \in Seq(Frame)
      BY <1>1, <2>3, FrameWritten
    <3>2. ~Sound(Active')
      <4>1. NewFrame(damage).damage = damage /\ NewFrame(damage) \in Frame
        BY NewFrames
      <4>2. /\ Len(Active) + 1 \in DOMAIN Append(Active, NewFrame(damage))
            /\ Append(Active, NewFrame(damage))[Len(Active) + 1] = NewFrame(damage)
        BY <3>1, <4>1
      <4>3. Active' = Append(Active, NewFrame(damage))
        BY <2>1, <3>1 DEF Active
      <4> QED BY <2>3, <4>1, <4>2, <4>3 DEF Sound
    <3>3. Active' # NoFile
      BY <2>1, <3>1 DEF Active
    <3>4. Dictionary'
      BY <3>2, <3>3 DEF Dictionary
    <3>5. Rotating'
      BY <1>1, <2>1, <3>3 DEF Rotating
    <3> QED BY <3>1, <3>4, <3>5
  <2> QED BY <1>1, <2>2, <2>3
<1>4. TypeOK'
  <2>1. batch' \in BoundedSeq(Records, BatchMax)
    BY <1>2, BoundedSequences, Constants
  <2>2. faults' \in 0 .. MaxFaults
    BY <1>1, Constants DEF LogInv, TypeOK
  <2>3. \A d \in Dirs, i \in Slots : disk'[d][i] # NoFile => disk'[d][i] \in Seq(Frame)
    BY <1>3 DEF Disks
  <2>4. reader'.pc \in {"idle", "list", "scan", "decode", "done"}
    BY <1>1, OverlapTypes DEF LogInv, TypeOK
  <2>5. writer' \in [mode : {"loop", "drain", "last", "exited"}, pc : {"select", "write", "rotate"}]
    BY <1>1, ResumeTypes
  <2> QED BY <1>1, <1>2, <2>1, <2>2, <2>3, <2>4, <2>5 DEF LogInv, TypeOK, optVars, fileVars
<1>5. InBatch'
  BY <1>1, <1>2, Constants, ResumeTypes DEF InBatch
<1>6. "pc" \in DOMAIN reader'
  BY <1>1, OverlapTypes DEF LogInv
<1>7. LogInv'
  BY <1>2, <1>3, <1>4, <1>5, <1>6 DEF LogInv, InOrder
<1>8. Promise!Leave(ToSet(batch))
  BY <1>1, <1>2, <1>3 DEF Promise!Leave
<1> QED BY <1>2, <1>7, <1>8 DEF Step, Promise!Next

----------------------------------------------------------------------------
(* Segments are moved, opened and removed.                                 *)

LEMMA FilesMoved ==
    ASSUME LogInv, NEW h, Moved(disk, disk', h), Upcoming' \subseteq Upcoming
    PROVE  /\ (disk \in Disks)' /\ Ordered(disk)' /\ Behind(disk, Upcoming)' /\ Chained(disk)'
           /\ OnDisk' \subseteq OnDisk
           /\ \A d \in Dirs, i \in Slots : disk'[d][i] # NoFile => disk'[d][i] \in Seq(Frame)
<1>1. Ordered(disk) /\ Behind(disk, Upcoming) /\ Chained(disk)
  BY DEF LogInv, InOrder
<1>2. Ordered(disk') /\ Behind(disk', Upcoming) /\ Chained(disk') /\ Kept(disk') \subseteq Kept(disk)
  BY <1>1, MovesKeep
<1>3. Behind(disk, Upcoming)'
  BY <1>2 DEF Behind, Ahead
<1>4. disk' \in Disks
  BY DEF Moved
<1>5. OnDisk' = Kept(disk') /\ OnDisk = Kept(disk)
  BY DEF OnDisk, Kept
<1> QED BY <1>2, <1>3, <1>4, <1>5 DEF Ordered, Chained, Disks

LEMMA DiscardStep ==
    ASSUME UNCHANGED <<logged, InMemory>>, OnDisk' \subseteq OnDisk
    PROVE  Step
<1>1. Promise!Discard(OnDisk \ OnDisk')
  BY DEF Promise!Discard
<1>2. OnDisk \ OnDisk' \in SUBSET OnDisk
  OBVIOUS
<1> QED BY <1>1, <1>2 DEF Step, Promise!Next

(* What Shift, Archive and Reopen leave alone.                             *)
LEMMA MemoryAlone ==
    ASSUME LogInv, UNCHANGED <<memVars, batch>>
    PROVE  /\ Upcoming' \subseteq Upcoming /\ InMemory' = InMemory /\ logged' = logged
           /\ Counters' /\ Rising(queue)' /\ Ahead(queue, Future)' /\ Rising(batch)' /\ Ahead(batch, Waiting)'
  BY DEF LogInv, InOrder, Counters, Upcoming, Waiting, Future, InMemory, memVars

LEMMA ShiftKeeps ==
    ASSUME LogInv, Shift
    PROVE  LogInv' /\ Step
<1>1. /\ rot.pc = "shift" /\ Overlap
      /\ rot' = IF rot.i = 1 THEN [pc |-> "archive", i |-> 0] ELSE [rot EXCEPT !.i = rot.i - 1]
      /\ UNCHANGED <<memVars, runVars, optVars, fileVars, closing, faults, changes>>
  BY DEF Shift
<1>2. /\ logDir \in Dirs /\ disk \in Disks /\ backupCount \in Slots /\ rot.i \in 1 .. backupCount
      /\ backupCount \in 1 .. MaxBackups /\ rot.i \in Slots /\ \A i \in Slots : i \in Nat
      /\ rot \in [pc : {"none", "shift", "archive", "reopen"}, i : Slots]
      /\ Slots = 0 .. MaxBackups /\ MaxBackups \in Nat
  <2>1. logDir \in Dirs /\ disk \in Disks /\ backupCount \in BackupCounts
    BY MemoryTypes DEF LogInv, TypeOK
  <2>2. rot.i \in 1 .. backupCount /\ rot \in [pc : {"none", "shift", "archive", "reopen"}, i : Slots]
    BY <1>1 DEF LogInv, TypeOK, Rotating
  <2>3. /\ backupCount \in Slots \ {0} /\ Slots = 0 .. MaxBackups /\ MaxBackups \in Nat
    BY <2>1, Constants
  <2> QED BY <2>1, <2>2, <2>3
<1>3. /\ Upcoming' \subseteq Upcoming /\ InMemory' = InMemory /\ logged' = logged
      /\ Counters' /\ Rising(queue)' /\ Ahead(queue, Future)' /\ Rising(batch)' /\ Ahead(batch, Waiting)'
  BY <1>1, MemoryAlone DEF runVars
<1>4. (\E h : Moved(disk, disk', h)) /\ disk'[logDir][0] = disk[logDir][0]
  <2>1. CASE rot.i = backupCount
    <3>1. disk' = [disk EXCEPT ![logDir][rot.i] = NoFile]
      BY <2>1 DEF Shift
    <3>2. disk'[logDir][0] = disk[logDir][0]
      BY <1>2, <3>1 DEF Disks
    <3> QED BY <1>2, <3>1, <3>2, SlotCleared
  <2>2. CASE rot.i # backupCount /\ disk[logDir][rot.i] # NoFile
    <3>1. disk' = [disk EXCEPT ![logDir][rot.i + 1] = disk[logDir][rot.i], ![logDir][rot.i] = NoFile]
      BY <2>2 DEF Shift
    <3>2. rot.i + 1 \in Slots /\ rot.i # 0 /\ rot.i + 1 # 0 /\ 0 \in Slots
      BY <1>2, <2>2
    <3>3. PICK j \in Slots : j = rot.i
      BY <1>2
    <3>4. MovedUp(disk, disk', logDir, j) /\ j + 1 \in Slots
      BY <3>1, <3>2, <3>3 DEF MovedUp
    <3>5. /\ \E h : Moved(disk, disk', h)
          /\ \A d \in Dirs, k \in Slots : (d # logDir \/ (k # j /\ k # j + 1)) => disk'[d][k] = disk[d][k]
      BY <1>2, <3>4, SlotMovedUp
    <3> QED BY <1>2, <3>2, <3>3, <3>5
  <2>3. CASE rot.i # backupCount /\ disk[logDir][rot.i] = NoFile
    <3>1. disk' = disk
      BY <2>3 DEF Shift
    <3> QED BY <1>2, <3>1, NothingMoved
  <2> QED BY <2>1, <2>2, <2>3
<1>5. /\ (disk \in Disks)' /\ Ordered(disk)' /\ Behind(disk, Upcoming)' /\ Chained(disk)'
      /\ OnDisk' \subseteq OnDisk
      /\ \A d \in Dirs, i \in Slots : disk'[d][i] # NoFile => disk'[d][i] \in Seq(Frame)
  BY <1>3, <1>4, FilesMoved
<1>6. /\ rot' \in [pc : {"none", "shift", "archive", "reopen"}, i : Slots]
      /\ rot'.pc \in {"shift", "archive"} /\ (rot'.pc = "shift" => rot'.i \in 1 .. backupCount)
  <2>1. CASE rot.i = 1
    BY <1>1, <1>2, <2>1
  <2>2. CASE rot.i # 1
    <3>1. rot.i - 1 \in Slots /\ rot.i - 1 \in 1 .. backupCount
      BY <1>2, <2>2
    <3> QED BY <1>1, <1>2, <2>2, <3>1
  <2> QED BY <2>1, <2>2
<1>7. TypeOK'
  BY <1>1, <1>5, <1>6, OverlapTypes DEF LogInv, TypeOK, memVars, runVars, optVars, fileVars
<1>8. Dictionary' /\ Rotating'
  <2>1. Active' = Active /\ prevRaw' = prevRaw /\ backupCount' = backupCount
    BY <1>1, <1>4 DEF Active, optVars, fileVars
  <2> QED BY <1>1, <1>6, <2>1 DEF LogInv, Dictionary, Rotating
<1>9. LogInv'
  BY <1>1, <1>3, <1>5, <1>7, <1>8, OverlapTypes DEF LogInv, InOrder, InBatch, runVars
<1> QED BY <1>3, <1>5, <1>9, DiscardStep

LEMMA ArchiveKeeps ==
    ASSUME LogInv, Archive
    PROVE  LogInv' /\ Step
<1>1. /\ rot.pc = "archive" /\ Overlap /\ rot' = [rot EXCEPT !.pc = "reopen"]
      /\ UNCHANGED <<memVars, runVars, optVars, fileVars, closing, faults, changes>>
  BY DEF Archive
<1>2. logDir \in Dirs /\ disk \in Disks /\ 0 \in Slots /\ 0 + 1 \in Slots
  BY MemoryTypes, Constants DEF LogInv
<1>3. /\ Upcoming' \subseteq Upcoming /\ InMemory' = InMemory /\ logged' = logged
      /\ Counters' /\ Rising(queue)' /\ Ahead(queue, Future)' /\ Rising(batch)' /\ Ahead(batch, Waiting)'
  BY <1>1, MemoryAlone DEF runVars
<1>4. \E h : Moved(disk, disk', h)
  <2>1. CASE Active = NoFile
    <3>1. disk' = disk
      BY <2>1 DEF Archive
    <3> QED BY <1>2, <3>1, NothingMoved
  <2>2. CASE Active # NoFile
    <3>1. MovedUp(disk, disk', logDir, 0)
      BY <2>2 DEF Archive, Active, MovedUp
    <3> QED BY <1>2, <3>1, SlotMovedUp
  <2> QED BY <2>1, <2>2
<1>5. /\ (disk \in Disks)' /\ Ordered(disk)' /\ Behind(disk, Upcoming)' /\ Chained(disk)'
      /\ OnDisk' \subseteq OnDisk
      /\ \A d \in Dirs, i \in Slots : disk'[d][i] # NoFile => disk'[d][i] \in Seq(Frame)
  BY <1>3, <1>4, FilesMoved
<1>6. rot' \in [pc : {"none", "shift", "archive", "reopen"}, i : Slots] /\ rot'.pc = "reopen"
  BY <1>1 DEF LogInv, TypeOK
<1>7. TypeOK'
  BY <1>1, <1>5, <1>6, OverlapTypes DEF LogInv, TypeOK, memVars, runVars, optVars, fileVars
<1>8. Dictionary' /\ Rotating'
  BY <1>6 DEF Dictionary, Rotating
<1>9. LogInv'
  BY <1>1, <1>3, <1>5, <1>7, <1>8, OverlapTypes DEF LogInv, InOrder, InBatch, runVars
<1> QED BY <1>3, <1>5, <1>9, DiscardStep

LEMMA ReopenKeeps ==
    ASSUME LogInv, NEW ok \in BOOLEAN, Reopen(ok)
    PROVE  LogInv' /\ Step
<1>1. /\ rot.pc = "reopen" /\ Overlap /\ rot' = NoRotation /\ open' = ok
      /\ fileSize' = 0 /\ prevRaw' = <<>> /\ chunksSinceCheckpoint' = 0
      /\ faults' \in 0 .. MaxFaults
      /\ \/ ok /\ disk' = [disk EXCEPT ![logDir][0] = <<>>]
         \/ ~ok /\ disk' = disk
      /\ \/ writer.pc = "rotate" /\ Resume
         \/ writer.pc # "rotate" /\ writer' = writer
      /\ UNCHANGED <<memVars, batch, timerActive, optVars, closing, changes>>
  <2>1. faults' \in 0 .. MaxFaults
    <3>1. faults' = faults \/ (faults < MaxFaults /\ faults' = faults + 1)
      BY DEF Reopen
    <3> QED BY <3>1, CountsInRange, Constants
  <2>2. /\ rot.pc = "reopen" /\ Overlap /\ rot' = NoRotation /\ open' = ok
        /\ fileSize' = 0 /\ prevRaw' = <<>> /\ chunksSinceCheckpoint' = 0
        /\ UNCHANGED <<memVars, batch, timerActive, optVars, closing, changes>>
    BY DEF Reopen
  <2>3. \/ ok /\ disk' = [disk EXCEPT ![logDir][0] = <<>>]
        \/ ~ok /\ disk' = disk
    BY DEF Reopen
  <2>4. \/ writer.pc = "rotate" /\ Resume
        \/ writer.pc # "rotate" /\ writer' = writer
    BY DEF Reopen
  <2> QED BY <2>1, <2>2, <2>3, <2>4
<1>2. logDir \in Dirs /\ disk \in Disks /\ 0 \in Slots
  BY MemoryTypes, Constants DEF LogInv
<1>3. /\ Upcoming' \subseteq Upcoming /\ InMemory' = InMemory /\ logged' = logged
      /\ Counters' /\ Rising(queue)' /\ Ahead(queue, Future)' /\ Rising(batch)' /\ Ahead(batch, Waiting)'
  BY <1>1, MemoryAlone
<1>4. (\E h : Moved(disk, disk', h)) /\ (ok => disk'[logDir][0] # NoFile)
  <2>1. CASE ok
    <3>1. disk' = [disk EXCEPT ![logDir][0] = <<>>]
      BY <1>1, <2>1
    <3>2. disk'[logDir][0] = <<>>
      BY <1>2, <3>1 DEF Disks
    <3>3. <<>> # NoFile
      BY Frames
    <3> QED BY <1>2, <3>1, <3>2, <3>3, SlotCleared
  <2>2. CASE ~ok
    <3>1. disk' = disk
      BY <1>1, <2>2
    <3> QED BY <1>2, <2>2, <3>1, NothingMoved
  <2> QED BY <2>1, <2>2
<1>5. /\ (disk \in Disks)' /\ Ordered(disk)' /\ Behind(disk, Upcoming)' /\ Chained(disk)'
      /\ OnDisk' \subseteq OnDisk
      /\ \A d \in Dirs, i \in Slots : disk'[d][i] # NoFile => disk'[d][i] \in Seq(Frame)
  BY <1>3, <1>4, FilesMoved
<1>6. rot' \in [pc : {"none", "shift", "archive", "reopen"}, i : Slots] /\ rot'.pc = "none"
  BY <1>1, <1>2 DEF NoRotation
<1>7. /\ writer' \in [mode : {"loop", "drain", "last", "exited"}, pc : {"select", "write", "rotate"}]
      /\ InBatch'
  <2>1. batch' = batch /\ BatchMax \in Nat \ {0}
    BY <1>1, Constants
  <2>2. CASE writer.pc = "rotate" /\ Resume
    <3>1. batch = <<>>
      BY <2>2 DEF LogInv, InBatch
    <3> QED BY <2>1, <2>2, <3>1, ResumeTypes DEF InBatch
  <2>3. CASE writer' = writer
    BY <2>1, <2>3 DEF LogInv, TypeOK, InBatch
  <2> QED BY <1>1, <2>2, <2>3
<1>8. TypeOK'
  <2>1. prevRaw' \in BoundedSeq(Records, BatchMax) /\ chunksSinceCheckpoint' \in 0 .. CheckpointInterval
    BY <1>1, BoundedSequences, Constants
  <2> QED BY <1>1, <1>5, <1>6, <1>7, <2>1, OverlapTypes DEF LogInv, TypeOK, memVars, optVars
<1>9. Dictionary' /\ Rotating'
  BY <1>1, <1>4, <1>6 DEF Dictionary, Rotating, Active, optVars
<1>10. LogInv'
  BY <1>1, <1>3, <1>5, <1>7, <1>8, <1>9, OverlapTypes DEF LogInv, InOrder
<1> QED BY <1>3, <1>5, <1>10, DiscardStep

LEMMA OpenedSegment ==
    ASSUME LogInv, NEW d \in Dirs
    PROVE  Opened(d) \in Seq(Frame) /\ Len(Opened(d)) \in Nat
<1>1. disk[d][0] \in Seq(Frame) \cup {NoFile}
  BY Constants DEF LogInv, Disks
<1> QED BY <1>1, Frames DEF Opened

LEMMA RotateIfFullTypes ==
    ASSUME LogInv, RotateIfFull, backupCount' \in BackupCounts
    PROVE  /\ rot' \in [pc : {"none", "shift", "archive", "reopen"}, i : Slots]
           /\ rot'.pc # "reopen" /\ (rot'.pc = "shift" => rot'.i \in 1 .. backupCount')
<1>1. backupCount' \in Slots /\ 0 \in Slots /\ backupCount' \in 1 .. backupCount'
  BY Constants DEF Slots
<1> QED BY <1>1 DEF RotateIfFull, NoRotation

LEMMA ReconfigureKeeps ==
    ASSUME LogInv, NEW d \in Dirs, NEW size \in Sizes, NEW n \in BackupCounts, Reconfigure(d, size, n)
    PROVE  LogInv' /\ Step
<1>1. /\ changes' \in 0 .. MaxChanges /\ rot.pc = "none" /\ maxBytes' = size /\ backupCount' = n
      /\ \/ UNCHANGED <<logDir, fileVars, disk>>
         \/ /\ logDir' = d /\ OpenIn(disk, disk', d) /\ fileSize' = Len(Opened(d))
            /\ open' = TRUE /\ prevRaw' = <<>> /\ chunksSinceCheckpoint' = 0
      /\ RotateIfFull /\ Overlap
      /\ UNCHANGED <<memVars, runVars, closing, faults>>
  <2>1. changes' \in 0 .. MaxChanges
    <3>1. changes < MaxChanges /\ changes' = changes + 1
      BY DEF Reconfigure
    <3> QED BY <3>1, CountsInRange, Constants
  <2>2. \/ UNCHANGED <<logDir, fileVars, disk>>
        \/ /\ logDir' = d /\ OpenIn(disk, disk', d) /\ fileSize' = Len(Opened(d))
           /\ open' = TRUE /\ prevRaw' = <<>> /\ chunksSinceCheckpoint' = 0
    BY DEF Reconfigure, Opened, OpenIn
  <2> QED BY <2>1, <2>2 DEF Reconfigure
<1>2. disk \in Disks /\ logDir \in Dirs
  BY MemoryTypes DEF LogInv
<1>3. /\ Upcoming' \subseteq Upcoming /\ InMemory' = InMemory /\ logged' = logged
      /\ Counters' /\ Rising(queue)' /\ Ahead(queue, Future)' /\ Rising(batch)' /\ Ahead(batch, Waiting)'
  BY <1>1, MemoryAlone DEF runVars
<1>4. /\ rot' \in [pc : {"none", "shift", "archive", "reopen"}, i : Slots]
      /\ rot'.pc # "reopen" /\ (rot'.pc = "shift" => rot'.i \in 1 .. backupCount')
  BY <1>1, RotateIfFullTypes
<1>5. /\ \E h : Moved(disk, disk', h)
      /\ logDir' \in Dirs /\ open' \in BOOLEAN /\ fileSize' \in Nat
      /\ prevRaw' \in BoundedSeq(Records, BatchMax) /\ chunksSinceCheckpoint' \in 0 .. CheckpointInterval
      /\ Dictionary' /\ Rotating'
  <2>1. CASE UNCHANGED <<logDir, fileVars, disk>>
    <3>1. \E h : Moved(disk, disk', h)
      BY <1>2, <2>1, NothingMoved
    <3>2. Dictionary' /\ Rotating'
      BY <1>1, <1>4, <2>1 DEF LogInv, Dictionary, Rotating, Active, fileVars
    <3> QED BY <2>1, <3>1, <3>2 DEF LogInv, TypeOK, fileVars
  <2>2. CASE /\ logDir' = d /\ OpenIn(disk, disk', d) /\ fileSize' = Len(Opened(d))
             /\ open' = TRUE /\ prevRaw' = <<>> /\ chunksSinceCheckpoint' = 0
    <3>1. (\E h : Moved(disk, disk', h)) /\ disk'[d][0] # NoFile
      BY <1>2, <2>2, SegmentOpened
    <3>2. Dictionary' /\ Rotating'
      BY <1>4, <2>2, <3>1 DEF Dictionary, Rotating, Active
    <3>3. prevRaw' \in BoundedSeq(Records, BatchMax) /\ chunksSinceCheckpoint' \in 0 .. CheckpointInterval
      BY <2>2, BoundedSequences, Constants
    <3> QED BY <2>2, <3>1, <3>2, <3>3, OpenedSegment
  <2> QED BY <1>1, <2>1, <2>2
<1>6. /\ (disk \in Disks)' /\ Ordered(disk)' /\ Behind(disk, Upcoming)' /\ Chained(disk)'
      /\ OnDisk' \subseteq OnDisk
      /\ \A e \in Dirs, i \in Slots : disk'[e][i] # NoFile => disk'[e][i] \in Seq(Frame)
  BY <1>3, <1>5, FilesMoved
<1>7. TypeOK'
  BY <1>1, <1>4, <1>5, <1>6, OverlapTypes DEF LogInv, TypeOK, memVars, runVars
<1>8. LogInv'
  BY <1>1, <1>3, <1>5, <1>6, <1>7, OverlapTypes DEF LogInv, InOrder, InBatch, runVars
<1> QED BY <1>3, <1>6, <1>8, DiscardStep

LEMMA ReconfigureFailsKeeps ==
    ASSUME LogInv, NEW size \in Sizes, NEW n \in BackupCounts, NEW reopened \in BOOLEAN,
           ReconfigureFails(size, n, reopened)
    PROVE  LogInv' /\ Step
<1>1. /\ changes' \in 0 .. MaxChanges /\ faults' \in 0 .. MaxFaults
      /\ rot.pc = "none" /\ maxBytes' = size /\ backupCount' = n /\ open' = reopened
      /\ \/ reopened /\ OpenIn(disk, disk', logDir)
         \/ ~reopened /\ disk' = disk
      /\ Overlap
      /\ UNCHANGED <<memVars, runVars, logDir, fileSize, prevRaw, chunksSinceCheckpoint, rot, closing>>
  <2>1. changes' \in 0 .. MaxChanges /\ faults' \in 0 .. MaxFaults
    <3>1. /\ changes \in 0 .. MaxChanges /\ faults \in 0 .. MaxFaults
          /\ MaxChanges \in Nat /\ MaxFaults \in Nat
      BY Constants DEF LogInv, TypeOK
    <3>2. changes < MaxChanges /\ changes' = changes + 1 /\ faults < MaxFaults /\ faults' = faults + 1
      BY DEF ReconfigureFails
    <3> QED BY <3>1, <3>2
  <2>2. (reopened /\ OpenIn(disk, disk', logDir)) \/ (~reopened /\ disk' = disk)
    BY DEF ReconfigureFails, Opened, OpenIn
  <2> QED BY <2>1, <2>2 DEF ReconfigureFails
<1>2. disk \in Disks /\ logDir \in Dirs
  BY MemoryTypes DEF LogInv
<1>3. /\ Upcoming' \subseteq Upcoming /\ InMemory' = InMemory /\ logged' = logged
      /\ Counters' /\ Rising(queue)' /\ Ahead(queue, Future)' /\ Rising(batch)' /\ Ahead(batch, Waiting)'
  BY <1>1, MemoryAlone DEF runVars
<1>4. (\E h : Moved(disk, disk', h)) /\ Dictionary' /\ Rotating'
  <2>1. CASE reopened /\ OpenIn(disk, disk', logDir)
    <3>1. /\ \E h : Moved(disk, disk', h)
          /\ disk'[logDir][0] # NoFile
          /\ disk'[logDir][0] = IF disk[logDir][0] = NoFile THEN <<>> ELSE disk[logDir][0]
      BY <1>2, <2>1, SegmentOpened
    <3>2. Active' # NoFile /\ (Active # NoFile => Active' = Active)
      BY <1>1, <3>1 DEF Active
    <3>3. Dictionary'
      BY <1>1, <3>2 DEF LogInv, Dictionary
    <3>4. Rotating'
      BY <1>1, <3>2 DEF Rotating
    <3> QED BY <3>1, <3>3, <3>4
  <2>2. CASE ~reopened /\ disk' = disk
    <3>1. \E h : Moved(disk, disk', h)
      BY <1>2, <2>2, NothingMoved
    <3>2. Dictionary' /\ Rotating'
      BY <1>1, <2>2 DEF LogInv, Dictionary, Rotating, Active
    <3> QED BY <3>1, <3>2
  <2> QED BY <1>1, <2>1, <2>2
<1>5. /\ (disk \in Disks)' /\ Ordered(disk)' /\ Behind(disk, Upcoming)' /\ Chained(disk)'
      /\ OnDisk' \subseteq OnDisk
      /\ \A e \in Dirs, i \in Slots : disk'[e][i] # NoFile => disk'[e][i] \in Seq(Frame)
  BY <1>3, <1>4, FilesMoved
<1>6. TypeOK'
  BY <1>1, <1>5, OverlapTypes DEF LogInv, TypeOK, memVars, runVars
<1>7. LogInv'
  BY <1>1, <1>3, <1>4, <1>5, <1>6, OverlapTypes DEF LogInv, InOrder, InBatch, runVars
<1> QED BY <1>3, <1>5, <1>7, DiscardStep

(* A new process has nothing in memory; what it finds on disk is what was  *)
(* there, and maybe a frame that was cut short.                            *)
LEMMA RestartKeeps ==
    ASSUME LogInv, NEW damage \in Damage, Restart(damage)
    PROVE  LogInv' /\ Step
<1>1. /\ faults' \in 0 .. MaxFaults
      /\ \/ damage = "none" /\ OpenIn(disk, disk', logDir) /\ fileSize' = Len(Opened(logDir))
         \/ /\ damage # "none" /\ writer.pc = "write" /\ rot.pc = "none" /\ open
            /\ AppendFrame(damage) /\ fileSize' = Len(Append(Active, NewFrame(damage)))
      /\ open' = TRUE /\ prevRaw' = <<>> /\ chunksSinceCheckpoint' = 0
      /\ uncounted' = 0 /\ queue' = <<>> /\ queued' = 0 /\ written' = 0
      /\ batch' = <<>> /\ timerActive' = FALSE
      /\ writer' = [mode |-> "loop", pc |-> "select"]
      /\ rot' = NoRotation /\ closing' = FALSE /\ Overlap
      /\ UNCHANGED <<logged, optVars, changes>>
  <2>1. faults' \in 0 .. MaxFaults
    <3>1. faults < MaxFaults /\ faults' = faults + 1
      BY DEF Restart
    <3> QED BY <3>1, CountsInRange, Constants
  <2>2. \/ damage = "none" /\ OpenIn(disk, disk', logDir) /\ fileSize' = Len(Opened(logDir))
        \/ /\ damage # "none" /\ writer.pc = "write" /\ rot.pc = "none" /\ open
           /\ AppendFrame(damage) /\ fileSize' = Len(Append(Active, NewFrame(damage)))
    BY DEF Restart, Opened, OpenIn, AppendFrame, Active
  <2> QED BY <2>1, <2>2 DEF Restart
<1>2. disk \in Disks /\ logDir \in Dirs /\ logDir' = logDir /\ backupCount' = backupCount /\ maxBytes' = maxBytes
  BY <1>1, MemoryTypes DEF LogInv, optVars
<1>3. ToSet(queue') = {} /\ ToSet(batch') = {}
  BY <1>1 DEF ToSet
<1>4. Future' = Future /\ Waiting' \subseteq Waiting /\ Upcoming' \subseteq Waiting
      /\ Upcoming' \subseteq Upcoming /\ InMemory' = {}
  BY <1>1, <1>3 DEF Future, Waiting, Upcoming, InMemory
<1>5. /\ (disk \in Disks)' /\ Ordered(disk)' /\ Behind(disk, Upcoming)' /\ Chained(disk)' /\ OnDisk' = OnDisk
      /\ disk'[logDir][0] # NoFile /\ fileSize' \in Nat
  <2>1. CASE damage = "none" /\ OpenIn(disk, disk', logDir) /\ fileSize' = Len(Opened(logDir))
    <3>1. (\E h : Moved(disk, disk', h)) /\ Kept(disk') = Kept(disk) /\ disk'[logDir][0] # NoFile
      BY <1>2, <2>1, SegmentOpened
    <3>2. (disk \in Disks)' /\ Ordered(disk)' /\ Behind(disk, Upcoming)' /\ Chained(disk)'
      BY <1>4, <3>1, FilesMoved
    <3>3. OnDisk' = OnDisk
      BY <3>1 DEF OnDisk, Kept
    <3> QED BY <1>2, <2>1, <3>1, <3>2, <3>3, OpenedSegment
  <2>2. CASE /\ damage # "none" /\ writer.pc = "write" /\ rot.pc = "none" /\ open
             /\ AppendFrame(damage) /\ fileSize' = Len(Append(Active, NewFrame(damage)))
    <3>1. /\ (disk \in Disks)' /\ Ordered(disk)' /\ Chained(disk)' /\ Behind(disk', Waiting)
          /\ OnDisk' = OnDisk /\ disk'[logDir][0] # NoFile /\ Active \in Seq(Frame)
      BY <2>2, FrameWritten
    <3>2. Behind(disk, Upcoming)'
      BY <1>4, <3>1 DEF Behind, Ahead
    <3>3. fileSize' \in Nat
      <4>1. NewFrame(damage) \in Frame
        BY NewFrames
      <4> QED BY <2>2, <3>1, <4>1
    <3> QED BY <3>1, <3>2, <3>3
  <2> QED BY <1>1, <2>1, <2>2
<1>6. TypeOK'
  <2>1. /\ <<>> \in BoundedSeq(Records, QueueCap) /\ <<>> \in BoundedSeq(Records, BatchMax)
        /\ 0 \in Slots /\ 0 \in 0 .. CheckpointInterval /\ 0 \in 0 .. Callers /\ 0 \in 0 .. logged
    BY BoundedSequences, Constants, MemoryTypes
  <2>2. \A e \in Dirs, i \in Slots : disk'[e][i] # NoFile => disk'[e][i] \in Seq(Frame)
    BY <1>5 DEF Disks
  <2>3. rot' \in [pc : {"none", "shift", "archive", "reopen"}, i : Slots]
    BY <1>1, <2>1 DEF NoRotation
  <2> QED BY <1>1, <1>2, <1>5, <2>1, <2>2, <2>3, OverlapTypes DEF LogInv, TypeOK, optVars
<1>7. Counters'
  BY <1>1, MemoryTypes DEF Counters
<1>8. Rising(queue)' /\ Ahead(queue, Future)' /\ Rising(batch)' /\ Ahead(batch, Waiting)'
  BY <1>1 DEF Rising, Ahead
<1>9. InBatch' /\ Dictionary' /\ Rotating'
  BY <1>1, <1>2, <1>5, Constants DEF InBatch, Dictionary, Rotating, Active, NoRotation
<1>10. LogInv'
  BY <1>1, <1>5, <1>6, <1>7, <1>8, <1>9, OverlapTypes DEF LogInv, InOrder
<1>11. Step
  <2>1. CASE InMemory = {}
    BY <1>1, <1>4, <1>5, <2>1 DEF Step
  <2>2. CASE InMemory # {}
    <3>1. Promise!Leave(InMemory)
      BY <1>1, <1>4, <1>5, <2>2 DEF Promise!Leave, Promise!NextInLine
    <3> QED BY <3>1 DEF Step, Promise!Next
  <2> QED BY <2>1, <2>2
<1> QED BY <1>10, <1>11

----------------------------------------------------------------------------
(* The theorems.                                                           *)

LEMMA InitLogInv == Init => LogInv /\ Promise!Init
<1> SUFFICES ASSUME Init
             PROVE  LogInv /\ Promise!Init
  OBVIOUS
<1>1. /\ logged = 0 /\ uncounted = 0 /\ queue = <<>> /\ queued = 0 /\ written = 0
      /\ batch = <<>> /\ timerActive = FALSE /\ writer = [mode |-> "loop", pc |-> "select"]
      /\ logDir = FirstDir /\ maxBytes = FirstSize /\ backupCount \in BackupCounts
      /\ open = TRUE /\ fileSize = 0 /\ prevRaw = <<>> /\ chunksSinceCheckpoint = 0
      /\ rot = NoRotation /\ closing = FALSE /\ reader = Reader("idle") /\ faults = 0 /\ changes = 0
      /\ disk = [d \in Dirs |-> [i \in Slots |-> IF d = logDir /\ i = 0 THEN <<>> ELSE NoFile]]
  BY DEF Init
<1>2. \A d \in Dirs, i \in Slots : disk[d][i] # NoFile => disk[d][i] = <<>>
  BY <1>1
<1>3. disk \in Disks /\ Active # NoFile
  BY <1>1, OptionsAssumption, Constants, Frames DEF Disks, Active
<1>4. Ordered(disk) /\ Behind(disk, Upcoming) /\ Chained(disk)
  BY <1>2 DEF Ordered, Behind, Chained, Chain
<1>5. TypeOK
  <2>1. /\ <<>> \in BoundedSeq(Records, QueueCap) /\ <<>> \in BoundedSeq(Records, BatchMax) /\ 0 \in Slots
    BY BoundedSequences, Constants
  <2>2. \A d \in Dirs, i \in Slots : disk[d][i] # NoFile => disk[d][i] \in Seq(Frame)
    BY <1>3 DEF Disks
  <2>3. reader.pc = "idle"
    BY <1>1 DEF Reader
  <2>4. /\ rot \in [pc : {"none", "shift", "archive", "reopen"}, i : Slots]
        /\ writer \in [mode : {"loop", "drain", "last", "exited"}, pc : {"select", "write", "rotate"}]
    BY <1>1, <2>1 DEF NoRotation
  <2>5. /\ logged \in 0 .. MaxRecords /\ uncounted \in 0 .. Callers /\ faults \in 0 .. MaxFaults
        /\ changes \in 0 .. MaxChanges /\ chunksSinceCheckpoint \in 0 .. CheckpointInterval
        /\ queued \in 0 .. logged /\ written \in 0 .. logged
    BY <1>1, Constants
  <2> QED BY <1>1, <2>1, <2>2, <2>3, <2>4, <2>5, OptionsAssumption DEF TypeOK
<1>6. Counters /\ Rising(queue) /\ Ahead(queue, Future) /\ Rising(batch) /\ Ahead(batch, Waiting)
  BY <1>1 DEF Counters, Rising, Ahead
<1>7. InBatch /\ Dictionary /\ Rotating
  BY <1>1, <1>3, Constants DEF InBatch, Dictionary, Rotating, NoRotation
<1>8. "pc" \in DOMAIN reader
  BY <1>1 DEF Reader
<1>9. Promise!Init
  <2>1. InMemory = {}
    BY <1>1 DEF InMemory, ToSet
  <2>2. OnDisk = {}
    BY <1>2 DEF OnDisk
  <2> QED BY <1>1, <2>1, <2>2 DEF Promise!Init
<1> QED BY <1>3, <1>4, <1>5, <1>6, <1>7, <1>8, <1>9 DEF LogInv, InOrder

LEMMA NextKeepsLogInv == LogInv /\ [Next]_vars => LogInv' /\ Step
<1> SUFFICES ASSUME LogInv, [Next]_vars
             PROVE  LogInv' /\ Step
  OBVIOUS
<1>1. CASE Log
  BY <1>1, LogKeeps
<1>2. CASE Count
  BY <1>2, CountKeeps
<1>3. CASE WriterStep
  BY <1>3, ReceiveKeeps, ElsewhereSteps, ElsewhereKeeps, WriteBatchKeeps, WriteFailsKeeps DEF WriterStep
<1>4. CASE RotationStep
  BY <1>4, ShiftKeeps, ArchiveKeeps, ReopenKeeps DEF RotationStep
<1>5. CASE ReaderStep \/ Close
  BY <1>5, ElsewhereSteps, ElsewhereKeeps
<1>6. ASSUME NEW d \in Dirs, NEW size \in Sizes, NEW n \in BackupCounts, Reconfigure(d, size, n)
      PROVE  LogInv' /\ Step
  BY <1>6, ReconfigureKeeps
<1>7. ASSUME NEW size \in Sizes, NEW n \in BackupCounts, NEW reopened \in BOOLEAN,
             ReconfigureFails(size, n, reopened)
      PROVE  LogInv' /\ Step
  BY <1>7, ReconfigureFailsKeeps
<1>8. ASSUME NEW damage \in Damage, Restart(damage)
      PROVE  LogInv' /\ Step
  BY <1>8, RestartKeeps
<1>9. CASE UNCHANGED vars
  <2>1. Elsewhere
    BY <1>9 DEF LogInv, TypeOK, Elsewhere, vars, runVars
  <2> QED BY <2>1, ElsewhereKeeps
<1> QED BY <1>1, <1>2, <1>3, <1>4, <1>5, <1>6, <1>7, <1>8, <1>9 DEF Next

(* Memory, files and dictionary of the writer fit together in every        *)
(* reachable state: the inductive invariant of the report log.             *)
THEOREM LogInvariant == Spec => []LogInv
<1>1. Init => LogInv
  BY InitLogInv
<1>2. LogInv /\ [Next]_vars => LogInv'
  BY NextKeepsLogInv
<1> QED BY <1>1, <1>2, PTL DEF Spec

(* Every variable of the log keeps its type: the queue and the batch stay  *)
(* within their capacities and the counters within the calls made.         *)
THEOREM LogTypeCorrect == Spec => []TypeOK
<1>1. LogInv => TypeOK
  BY DEF LogInv
<1> QED BY <1>1, LogInvariant, PTL

(* When Flush finds written >= queued and no call of Log is under way,     *)
(* nothing is left in queue and batch, whatever writes have failed.        *)
THEOREM FlushLeavesNothingBehind == Spec => []FlushLeavesNothing
<1>1. LogInv => FlushLeavesNothing
  <2> SUFFICES ASSUME LogInv, FlushDone, uncounted = 0
               PROVE  queue = <<>> /\ batch = <<>>
    BY DEF FlushLeavesNothing
  <2>1. /\ queue \in Seq(Records) /\ batch \in Seq(Records) /\ queued \in Nat /\ written \in Nat
    BY MemoryTypes
  <2>2. queued = written + Len(queue) + Len(batch) /\ written >= queued
    BY <2>1 DEF LogInv, Counters, FlushDone
  <2>3. Len(queue) = 0 /\ Len(batch) = 0
    BY <2>1, <2>2
  <2> QED BY <2>1, <2>3
<1> QED BY <1>1, LogInvariant, PTL

(* A directory holds the records in the order of acceptance, the oldest in *)
(* the highest slot and none twice, at every step of every rotation.       *)
THEOREM DiskIsInOrder == Spec => []OldestToNewest
<1>1. LogInv => OldestToNewest
  BY DEF LogInv, InOrder, Ordered, OldestToNewest
<1> QED BY <1>1, LogInvariant, PTL

(* The first frame of the checkpoint group of a frame: there is one, since *)
(* the first frame of a segment begins a group.                            *)
LEMMA GroupStarts ==
    ASSUME NEW file \in Seq(Frame), NEW i \in DOMAIN file
    PROVE  GroupStart(file, i) \in 1 .. i
<1> DEFINE Starts == {s \in 1 .. i : s = 1 \/ file[s].dict = <<>>}
<1>1. i \in Nat \ {0} /\ DOMAIN file = 1 .. Len(file)
  OBVIOUS
<1>2. Starts \in SUBSET Nat /\ Starts # {} /\ \A s \in Starts : s <= i
  <2>1. 1 \in Starts
    BY <1>1
  <2> QED BY <1>1, <2>1
<1>3. PICK g \in Starts : \A s \in Starts : s <= g
  <2> HIDE DEF Starts
  <2> QED BY <1>1, <1>2, GreatestMember
<1>4. \A j \in g + 1 .. i : file[j].dict # <<>>
  BY <1>1, <1>3
<1> QED BY <1>1, <1>3, <1>4 DEF GroupStart

(* The reader gets all of a segment whose frames are whole and depend on   *)
(* nothing but the frame before them.                                      *)
LEMMA SoundChainsAreRead ==
    ASSUME NEW file \in Seq(Frame), Sound(file), Chain(file)
    PROVE  NewestFirst(Indexed(file)) = Reverse(Content(file))
<1>1. DOMAIN file = 1 .. Len(file) /\ Len(file) \in Nat
  OBVIOUS
<1>2. Indexed(file) = file
  <2>1. {i \in DOMAIN file : file[i].damage # "none"} = {}
    BY DEF Sound
  <2> QED BY <2>1 DEF Indexed
<1>3. \A j \in 1 .. Len(file) : Decodes(file, j)
  BY <1>1 DEF Sound, Chain, Decodes
<1>4. \A i \in DOMAIN file : GroupStart(file, i) \in 1 .. i
  BY GroupStarts
<1>5. Yielded(file) = 1 .. Len(file)
  <2>1. \A i \in DOMAIN file : \A j \in GroupStart(file, i) .. Len(file) : j \in 1 .. Len(file)
    BY <1>1, <1>4
  <2> QED BY <1>1, <1>3, <2>1 DEF Yielded
<1>6. Cardinality(Yielded(file)) = Len(file)
  <2>1. Cardinality(1 .. Len(file)) = IF 1 > Len(file) THEN 0 ELSE Len(file) - 1 + 1
    BY <1>1, FS_Interval
  <2> QED BY <1>1, <1>5, <2>1
<1>7. SubSeq(file, Len(file) + 1 - Cardinality(Yielded(file)), Len(file)) = file
  BY <1>1, <1>6
<1> QED BY <1>2, <1>7 DEF NewestFirst

(* A segment without damage is read whole, whoever wrote it: no restart,   *)
(* rotation, failed write or reconfiguration leaves a frame whose          *)
(* dictionary is not the content of the frame before it.                   *)
THEOREM UndamagedSegmentsAreRead == Spec => []UndamagedIsReadable
<1>1. LogInv => UndamagedIsReadable
  <2> SUFFICES ASSUME LogInv, NEW d \in Dirs, NEW i \in Slots, disk[d][i] # NoFile, Sound(disk[d][i])
               PROVE  NewestFirst(Indexed(disk[d][i])) = Reverse(Content(disk[d][i]))
    BY DEF UndamagedIsReadable, Sound
  <2>1. disk[d][i] \in Seq(Frame)
    BY DEF LogInv, Disks
  <2>2. Chain(disk[d][i])
    BY DEF LogInv, Chained
  <2> QED BY <2>1, <2>2, SoundChainsAreRead
<1> QED BY <1>1, LogInvariant, PTL

(* The report log implements AppendLog: what a batch, a failed write, a    *)
(* rotation, a reconfiguration, a restart or a reader does is a step of    *)
(* the abstract log, or changes nothing there.                             *)
THEOREM LogKeepsPromise == Spec => KeepsPromise
<1>1. Init => Promise!Init
  BY InitLogInv
<1>2. LogInv /\ [Next]_vars => [Promise!Next]_<<logged, InMemory, OnDisk>>
  BY NextKeepsLogInv DEF Step
<1> QED BY <1>1, <1>2, LogInvariant, PTL DEF Spec, KeepsPromise, Promise!Spec

----------------------------------------------------------------------------
(* What a reader returns.                                                  *)

Falling(s) == \A j, k \in DOMAIN s : j < k => s[j] > s[k]
Holds(frames, r) == \E j \in DOMAIN frames : r \in ToSet(frames[j].recs)

Readers == [pc : {"idle", "list", "scan", "decode", "done"}, n : Nat, paths : Seq(Slots),
            metas : Seq(Frame), out : Seq(Records), due : SUBSET Records]

(* The segment at position j of the list of paths.                         *)
Path(j) == disk[logDir][reader.paths[j]]

(* What is still owed can be found when the segments are listed.           *)
Listing ==
    reader.pc = "list" =>
        /\ reader.n \in BackupCounts /\ reader.out = <<>>
        /\ \A r \in reader.due : \E i \in 0 .. reader.n :
              /\ disk[logDir][i] # NoFile /\ Sound(disk[logDir][i]) /\ Holds(disk[logDir][i], r)
              /\ \A j \in 1 .. i : disk[logDir][j] # NoFile

(* The segments to come are older than what was returned.  Only the first  *)
(* can be the active one, and then nothing was returned yet.               *)
Walking ==
    reader.pc \in {"scan", "decode"} =>
        /\ Falling(reader.out) /\ Rising(reader.paths)
        /\ \A j \in DOMAIN reader.paths :
              /\ Path(j) # NoFile
              /\ reader.paths[j] = 0 => reader.out = <<>>
              /\ \A p \in DOMAIN Path(j) : Ahead(Path(j)[p].recs, ToSet(reader.out))

(* What is owed was returned or can be found further on.                   *)
Scanning ==
    reader.pc = "scan" =>
        \A r \in reader.due :
            \/ r \in ToSet(reader.out)
            \/ \E j \in DOMAIN reader.paths : Sound(Path(j)) /\ Holds(Path(j), r)

Decoding ==
    reader.pc = "decode" =>
        /\ reader.paths # <<>>
        /\ \E x \in 0 .. Len(Path(1)) : reader.metas = SubSeq(Path(1), 1, x)
        /\ \A r \in reader.due :
              \/ r \in ToSet(reader.out)
              \/ Sound(Path(1)) /\ Holds(reader.metas, r)
              \/ \E j \in DOMAIN reader.paths : j > 1 /\ Sound(Path(j)) /\ Holds(Path(j), r)

ReaderOK == reader \in Readers /\ Listing /\ Walking /\ Scanning /\ Decoding

(* Two sequences in a row.                                                 *)
LEMMA InARow ==
    ASSUME NEW S, NEW s \in Seq(S), NEW t \in Seq(S)
    PROVE  /\ s \o t \in Seq(S)
           /\ ToSet(s \o t) = ToSet(s) \cup ToSet(t)
           /\ Rising(s) /\ Rising(t) /\ Precedes(s, t) => Rising(s \o t)
           /\ (Falling(s) /\ Falling(t) /\ \A a \in DOMAIN s, b \in DOMAIN t : s[a] > t[b])
                 => Falling(s \o t)
<1> DEFINE u == s \o t
<1>1. /\ u \in Seq(S) /\ DOMAIN u = 1 .. Len(s) + Len(t) /\ Len(s) \in Nat /\ Len(t) \in Nat
      /\ DOMAIN s = 1 .. Len(s) /\ DOMAIN t = 1 .. Len(t)
      /\ \A a \in 1 .. Len(s) : u[a] = s[a]
      /\ \A a \in 1 .. Len(s) + Len(t) : a > Len(s) => u[a] = t[a - Len(s)]
  OBVIOUS
<1>2. \A a \in DOMAIN u : a \in DOMAIN s \/ (a > Len(s) /\ a - Len(s) \in DOMAIN t)
  BY <1>1
<1>3. \A b \in DOMAIN t : b + Len(s) \in DOMAIN u /\ u[b + Len(s)] = t[b]
  <2>1. ASSUME NEW b \in DOMAIN t
        PROVE  b + Len(s) \in DOMAIN u /\ u[b + Len(s)] = t[b]
    <3>1. b + Len(s) \in 1 .. Len(s) + Len(t) /\ b + Len(s) > Len(s) /\ (b + Len(s)) - Len(s) = b
      BY <1>1
    <3> QED BY <1>1, <3>1
  <2> QED BY <2>1
<1> HIDE DEF u
<1>4. ToSet(u) = ToSet(s) \cup ToSet(t)
  <2>1. ASSUME NEW a \in DOMAIN u
        PROVE  u[a] \in ToSet(s) \cup ToSet(t)
    BY <1>1, <1>2 DEF ToSet
  <2>2. ASSUME NEW a \in DOMAIN s
        PROVE  s[a] \in ToSet(u)
    <3>1. a \in DOMAIN u /\ u[a] = s[a]
      BY <1>1
    <3> QED BY <3>1 DEF ToSet
  <2>3. ASSUME NEW b \in DOMAIN t
        PROVE  t[b] \in ToSet(u)
    BY <1>3 DEF ToSet
  <2> QED BY <2>1, <2>2, <2>3 DEF ToSet
<1>5. ASSUME Rising(s), Rising(t), Precedes(s, t)
      PROVE  Rising(u)
  <2>1. ASSUME NEW a \in DOMAIN u, NEW b \in DOMAIN u, a < b
        PROVE  u[a] < u[b]
    <3>1. CASE b \in DOMAIN s
      <4>1. a \in DOMAIN s
        BY <1>1, <2>1, <3>1
      <4> QED BY <1>1, <1>5, <2>1, <3>1, <4>1 DEF Rising
    <3>2. CASE a \in DOMAIN s /\ b > Len(s) /\ b - Len(s) \in DOMAIN t
      BY <1>1, <1>5, <3>2 DEF Precedes
    <3>3. CASE a > Len(s) /\ a - Len(s) \in DOMAIN t /\ b > Len(s) /\ b - Len(s) \in DOMAIN t
      <4>1. a - Len(s) < b - Len(s)
        BY <1>1, <2>1
      <4> QED BY <1>1, <1>5, <3>3, <4>1 DEF Rising
    <3> QED BY <1>2, <2>1, <3>1, <3>2, <3>3
  <2> QED BY <2>1 DEF Rising
<1>6. ASSUME Falling(s), Falling(t), \A a \in DOMAIN s, b \in DOMAIN t : s[a] > t[b]
      PROVE  Falling(u)
  <2>1. ASSUME NEW a \in DOMAIN u, NEW b \in DOMAIN u, a < b
        PROVE  u[a] > u[b]
    <3>1. CASE b \in DOMAIN s
      <4>1. a \in DOMAIN s
        BY <1>1, <2>1, <3>1
      <4> QED BY <1>1, <1>6, <2>1, <3>1, <4>1 DEF Falling
    <3>2. CASE a \in DOMAIN s /\ b > Len(s) /\ b - Len(s) \in DOMAIN t
      BY <1>1, <1>6, <3>2
    <3>3. CASE a > Len(s) /\ a - Len(s) \in DOMAIN t /\ b > Len(s) /\ b - Len(s) \in DOMAIN t
      <4>1. a - Len(s) < b - Len(s)
        BY <1>1, <2>1
      <4> QED BY <1>1, <1>6, <3>3, <4>1 DEF Falling
    <3> QED BY <1>2, <2>1, <3>1, <3>2, <3>3
  <2> QED BY <2>1 DEF Falling
<1> QED BY <1>1, <1>4, <1>5, <1>6 DEF u

(* A sequence backwards.                                                   *)
LEMMA Backwards ==
    ASSUME NEW s \in Seq(Records)
    PROVE  /\ Reverse(s) \in Seq(Records)
           /\ ToSet(Reverse(s)) = ToSet(s)
           /\ Rising(s) => Falling(Reverse(s))
<1> DEFINE u == Reverse(s)
<1>1. /\ u = [i \in 1 .. Len(s) |-> s[(Len(s) - i) + 1]] /\ Len(s) \in Nat /\ DOMAIN s = 1 .. Len(s)
      /\ \A i \in 1 .. Len(s) : (Len(s) - i) + 1 \in 1 .. Len(s)
  BY DEF Reverse
<1>2. u \in [1 .. Len(s) -> Records] /\ DOMAIN u = 1 .. Len(s)
  <2>1. \A i \in 1 .. Len(s) : s[(Len(s) - i) + 1] \in Records
    BY <1>1
  <2> HIDE DEF u
  <2> QED BY <1>1, <2>1
<1> HIDE DEF u
<1>3. u \in Seq(Records)
  BY <1>1, <1>2
<1>4. ToSet(u) = ToSet(s)
  <2>1. ASSUME NEW i \in DOMAIN u
        PROVE  u[i] \in ToSet(s)
    BY <1>1, <1>2 DEF ToSet
  <2>2. ASSUME NEW j \in DOMAIN s
        PROVE  s[j] \in ToSet(u)
    <3>1. /\ (Len(s) - j) + 1 \in DOMAIN u /\ (Len(s) - ((Len(s) - j) + 1)) + 1 = j
      BY <1>1, <1>2
    <3>2. u[(Len(s) - j) + 1] = s[j]
      BY <1>1, <1>2, <3>1
    <3> QED BY <3>1, <3>2 DEF ToSet
  <2> QED BY <2>1, <2>2 DEF ToSet
<1>5. ASSUME Rising(s)
      PROVE  Falling(u)
  <2>1. ASSUME NEW i \in DOMAIN u, NEW j \in DOMAIN u, i < j
        PROVE  u[i] > u[j]
    <3>1. /\ (Len(s) - i) + 1 \in DOMAIN s /\ (Len(s) - j) + 1 \in DOMAIN s
          /\ (Len(s) - j) + 1 < (Len(s) - i) + 1
      BY <1>1, <1>2, <2>1
    <3>2. s[(Len(s) - j) + 1] < s[(Len(s) - i) + 1]
      BY <1>5, <3>1 DEF Rising
    <3>3. /\ u[i] = s[(Len(s) - i) + 1] /\ u[j] = s[(Len(s) - j) + 1]
      BY <1>1, <1>2
    <3>4. s[(Len(s) - j) + 1] \in Nat /\ s[(Len(s) - i) + 1] \in Nat
      <4>1. s[(Len(s) - j) + 1] \in Records /\ s[(Len(s) - i) + 1] \in Records
        BY <1>1, <3>1
      <4> QED BY <4>1, Constants
    <3> QED BY <3>2, <3>3, <3>4
  <2> QED BY <2>1 DEF Falling
<1> QED BY <1>3, <1>4, <1>5 DEF u

(* FlattenSeq is a recursive function; it has the value that its equation  *)
(* gives: the first sequence, and then one more sequence at each place.    *)
LEMMA Flattened ==
    ASSUME NEW S, NEW F \in Seq(S), F # <<>>
    PROVE  \E f : /\ f[1] = F[1]
                  /\ \A i \in 2 .. Len(F) : f[i] = f[i - 1] \o F[i]
                  /\ FlattenSeq(F) = f[Len(F)]
<1> DEFINE N == Len(F)
           Solves(f, n) == f = [i \in 1 .. n |-> IF i = 1 THEN F[i] ELSE f[i - 1] \o F[i]]
           Unsolved == {n \in 1 .. N : \A f : ~Solves(f, n)}
<1>1. N \in Nat \ {0}
  OBVIOUS
<1>2. Unsolved = {}
  <2> SUFFICES ASSUME Unsolved # {}
               PROVE  FALSE
    OBVIOUS
  <2>1. Unsolved \in SUBSET Nat
    <3> HIDE DEF Solves
    <3> QED BY <1>1
  <2>2. PICK m \in Unsolved : \A k \in Unsolved : m <= k
    <3> HIDE DEF Unsolved
    <3> QED BY <2>1, LeastMember
  <2>3. m \in 1 .. N /\ \A f : ~Solves(f, m)
    BY <2>2
  <2>4. CASE m = 1
    <3> DEFINE h == [i \in 1 .. m |-> F[i]]
    <3>1. h = [i \in 1 .. m |-> IF i = 1 THEN F[i] ELSE h[i - 1] \o F[i]]
      BY <2>4
    <3> QED BY <2>3, <3>1
  <2>5. CASE m # 1
    <3>1. m - 1 \in 1 .. N /\ ~(m <= m - 1) /\ m \in Nat
      BY <1>1, <2>3, <2>5
    <3>2. PICK g : Solves(g, m - 1)
      <4> HIDE DEF Solves
      <4>1. m - 1 \notin Unsolved
        <5> HIDE DEF Unsolved
        <5> QED BY <2>2, <3>1
      <4> QED BY <3>1, <4>1
    <3> DEFINE h == [i \in 1 .. m |-> IF i = m THEN g[m - 1] \o F[m] ELSE g[i]]
    <3>3. \A i \in 1 .. m : i = m \/ (i \in 1 .. m - 1)
      BY <3>1
    <3>4. ASSUME NEW i \in 1 .. m
          PROVE  h[i] = IF i = 1 THEN F[i] ELSE h[i - 1] \o F[i]
      <4>1. CASE i = m
        <5>1. i # 1 /\ i - 1 \in 1 .. m /\ i - 1 # m
          BY <2>5, <3>1, <4>1
        <5> QED BY <4>1, <5>1
      <4>2. CASE i \in 1 .. m - 1
        <5>1. i # m /\ (i # 1 => i - 1 \in 1 .. m /\ i - 1 # m)
          BY <3>1, <4>2
        <5>2. g[i] = IF i = 1 THEN F[i] ELSE g[i - 1] \o F[i]
          BY <3>2, <4>2
        <5> QED BY <5>1, <5>2
      <4> QED BY <3>3, <4>1, <4>2
    <3>5. h = [i \in 1 .. m |-> h[i]]
      OBVIOUS
    <3>6. Solves(h, m)
      <4> HIDE DEF h
      <4> QED BY <3>4, <3>5
    <3> HIDE DEF h, Solves
    <3> QED BY <2>3, <3>6
  <2> QED BY <2>4, <2>5
<1>3. \E f : Solves(f, N)
  <2> HIDE DEF Solves
  <2>1. N \in 1 .. N
    BY <1>1
  <2> QED BY <1>2, <2>1
<1> DEFINE fl == CHOOSE f : Solves(f, N)
<1>4. Solves(fl, N)
  <2> HIDE DEF Solves
  <2> QED BY <1>3
<1>5. FlattenSeq(F) = fl[N]
  BY <1>1 DEF FlattenSeq
<1> HIDE DEF fl
<1>6. 1 \in 1 .. N /\ \A i \in 2 .. N : i \in 1 .. N /\ i # 1
  BY <1>1
<1> QED BY <1>4, <1>5, <1>6

Orderly(frames) ==
    /\ \A p \in DOMAIN frames : Rising(frames[p].recs)
    /\ \A p, q \in DOMAIN frames : p < q => Precedes(frames[p].recs, frames[q].recs)

(* The content of frames is what the frames hold, in their order.          *)
LEMMA Contents ==
    ASSUME NEW frames \in Seq(Frame)
    PROVE  /\ Content(frames) \in Seq(Records)
           /\ \A r : r \in ToSet(Content(frames)) <=> Holds(frames, r)
           /\ Orderly(frames) => Rising(Content(frames))
<1> DEFINE F == [i \in DOMAIN frames |-> frames[i].recs]
           N == Len(frames)
<1>1. DOMAIN frames = 1 .. N /\ N \in Nat /\ \A i \in 1 .. N : frames[i] \in Frame
  OBVIOUS
<1>2. \A i \in 1 .. N : F[i] = frames[i].recs /\ F[i] \in Seq(Records)
  BY <1>1, Frames
<1>3. F \in Seq(Seq(Records)) /\ Len(F) = N
  <2>1. F \in [1 .. N -> Seq(Records)]
    BY <1>1, <1>2
  <2> HIDE DEF F
  <2> QED BY <1>1, <2>1
<1>4. Content(frames) = FlattenSeq(F)
  BY DEF Content
<1> HIDE DEF F
<1>5. CASE N = 0
  <2>1. Content(frames) = F /\ F = <<>>
    BY <1>3, <1>4, <1>5 DEF FlattenSeq
  <2>2. Rising(<<>>) /\ ToSet(<<>>) = {} /\ <<>> \in Seq(Records)
    BY DEF Rising, ToSet
  <2>3. \A r : ~Holds(frames, r)
    BY <1>1, <1>5 DEF Holds
  <2> QED BY <2>1, <2>2, <2>3
<1>6. CASE N # 0
  <2>1. F # <<>>
    BY <1>3, <1>6
  <2>2. PICK f : /\ f[1] = F[1]
                 /\ \A i \in 2 .. N : f[i] = f[i - 1] \o F[i]
                 /\ FlattenSeq(F) = f[N]
    BY <1>3, <2>1, Flattened
  <2> DEFINE Good(i) ==
               /\ f[i] \in Seq(Records)
               /\ \A r : r \in ToSet(f[i]) <=> \E j \in 1 .. i : r \in ToSet(F[j])
               /\ Orderly(frames) => Rising(f[i])
             Bad == {i \in 1 .. N : ~Good(i)}
  <2>3. Good(1)
    <3>1. 1 \in 1 .. N
      BY <1>1, <1>6
    <3>2. F[1] \in Seq(Records) /\ F[1] = frames[1].recs
      BY <1>2, <3>1
    <3>3. Orderly(frames) => Rising(F[1])
      BY <1>1, <3>1, <3>2 DEF Orderly
    <3>4. \A r : r \in ToSet(F[1]) <=> \E j \in 1 .. 1 : r \in ToSet(F[j])
      OBVIOUS
    <3> QED BY <2>2, <3>2, <3>3, <3>4
  <2>4. ASSUME NEW m \in 2 .. N, Good(m - 1)
        PROVE  Good(m)
    <3>1. /\ m \in 1 .. N /\ m - 1 \in Nat /\ \A j \in 1 .. m : j = m \/ j \in 1 .. m - 1
          /\ \A j \in 1 .. m - 1 : j \in 1 .. m /\ j \in 1 .. N /\ j < m
      BY <1>1
    <3>2. f[m] = f[m - 1] \o F[m] /\ F[m] \in Seq(Records) /\ f[m - 1] \in Seq(Records)
      BY <1>2, <2>2, <2>4, <3>1
    <3>3. f[m] \in Seq(Records) /\ ToSet(f[m]) = ToSet(f[m - 1]) \cup ToSet(F[m])
      BY <3>2, InARow
    <3>4. ASSUME NEW r
          PROVE  r \in ToSet(f[m]) <=> \E j \in 1 .. m : r \in ToSet(F[j])
      <4>1. r \in ToSet(f[m]) <=> (\E j \in 1 .. m - 1 : r \in ToSet(F[j])) \/ r \in ToSet(F[m])
        BY <2>4, <3>3
      <4>2. m \in 1 .. m
        BY <3>1
      <4> QED BY <3>1, <4>1, <4>2
    <3>5. ASSUME Orderly(frames)
          PROVE  Rising(f[m])
      <4>1. Rising(f[m - 1]) /\ Rising(F[m])
        BY <1>1, <1>2, <2>4, <3>1, <3>5 DEF Orderly
      <4>2. ASSUME NEW a \in DOMAIN f[m - 1], NEW b \in DOMAIN F[m]
            PROVE  f[m - 1][a] < F[m][b]
        <5>1. f[m - 1][a] \in ToSet(f[m - 1])
          BY DEF ToSet
        <5>2. PICK j \in 1 .. m - 1 : f[m - 1][a] \in ToSet(F[j])
          BY <2>4, <5>1
        <5>3. PICK c \in DOMAIN F[j] : f[m - 1][a] = F[j][c]
          BY <5>2 DEF ToSet
        <5>4. Precedes(F[j], F[m])
          BY <1>1, <1>2, <3>1, <3>5, <5>2 DEF Orderly
        <5> QED BY <5>3, <5>4 DEF Precedes
      <4>3. Precedes(f[m - 1], F[m])
        BY <4>2 DEF Precedes
      <4> QED BY <3>2, <4>1, <4>3, InARow
    <3> QED BY <3>3, <3>4, <3>5
  <2>5. Bad = {}
    <3> SUFFICES ASSUME Bad # {}
                 PROVE  FALSE
      OBVIOUS
    <3> HIDE DEF Good
    <3>1. Bad \in SUBSET Nat /\ \A i : i \in Bad <=> i \in 1 .. N /\ ~Good(i)
      BY <1>1
    <3> HIDE DEF Bad
    <3>2. PICK m \in Bad : \A k \in Bad : m <= k
      BY <3>1, LeastMember
    <3>3. m \in 1 .. N /\ ~Good(m) /\ m # 1
      BY <2>3, <3>1, <3>2
    <3>4. m \in 2 .. N /\ m - 1 \in 1 .. N /\ ~(m <= m - 1)
      BY <1>1, <3>3
    <3>5. Good(m - 1)
      BY <3>1, <3>2, <3>4
    <3> QED BY <2>4, <3>3, <3>4, <3>5
  <2>6. Good(N)
    <3> HIDE DEF Good
    <3>1. N \in 1 .. N
      BY <1>1, <1>6
    <3> QED BY <2>5, <3>1
  <2>7. \A r : (\E j \in 1 .. N : r \in ToSet(F[j])) <=> Holds(frames, r)
    BY <1>1, <1>2 DEF Holds
  <2> QED BY <1>4, <2>2, <2>6, <2>7
<1> QED BY <1>1, <1>5, <1>6

(* Part of a file, and the end of such a part, in the order of the file.   *)
LEMMA PartOfFile ==
    ASSUME NEW file \in Seq(Frame), NEW a \in 1 .. Len(file) + 1, NEW b \in 0 .. Len(file)
    PROVE  /\ SubSeq(file, a, b) \in Seq(Frame)
           /\ \A r : Holds(SubSeq(file, a, b), r) => Holds(file, r)
           /\ Orderly(file) => Orderly(SubSeq(file, a, b))
<1> DEFINE part == SubSeq(file, a, b)
           n == IF a <= b THEN (b - a) + 1 ELSE 0
<1>1. /\ DOMAIN file = 1 .. Len(file) /\ a \in Nat /\ b \in Nat /\ Len(file) \in Nat /\ n \in Nat
  OBVIOUS
<1>2. part \in Seq(Frame) /\ DOMAIN part = 1 .. n /\ \A i \in 1 .. n : part[i] = file[(a + i) - 1]
  OBVIOUS
<1>3. \A i \in 1 .. n : (a + i) - 1 \in DOMAIN file
  BY <1>1
<1> HIDE DEF part
<1>4. \A r : Holds(part, r) => Holds(file, r)
  <2> HIDE DEF n
  <2> QED BY <1>2, <1>3 DEF Holds
<1>5. ASSUME Orderly(file)
      PROVE  Orderly(part)
  <2>1. \A p \in DOMAIN part : Rising(part[p].recs)
    <3> HIDE DEF n
    <3> QED BY <1>2, <1>3, <1>5 DEF Orderly
  <2>2. ASSUME NEW p \in DOMAIN part, NEW q \in DOMAIN part, p < q
        PROVE  Precedes(part[p].recs, part[q].recs)
    <3>1. (a + p) - 1 \in DOMAIN file /\ (a + q) - 1 \in DOMAIN file /\ (a + p) - 1 < (a + q) - 1
      BY <1>1, <1>2, <1>3, <2>2
    <3>2. Precedes(file[(a + p) - 1].recs, file[(a + q) - 1].recs)
      BY <1>5, <3>1 DEF Orderly
    <3> QED BY <1>2, <3>2
  <2> QED BY <2>1, <2>2 DEF Orderly
<1> QED BY <1>2, <1>4, <1>5 DEF part

(* The index of a file is a part from its beginning.                       *)
LEMMA IndexIsPrefix ==
    ASSUME NEW file \in Seq(Frame)
    PROVE  \E x \in 0 .. Len(file) : Indexed(file) = SubSeq(file, 1, x)
<1> DEFINE torn == {i \in DOMAIN file : file[i].damage # "none"}
           first == CHOOSE i \in torn : \A j \in torn : i <= j
<1>1. DOMAIN file = 1 .. Len(file) /\ Len(file) \in Nat
  OBVIOUS
<1>2. CASE torn = {}
  <2>1. Indexed(file) = file
    BY <1>2 DEF Indexed
  <2>2. file = SubSeq(file, 1, Len(file))
    OBVIOUS
  <2>3. Len(file) \in 0 .. Len(file)
    BY <1>1
  <2>4. Indexed(file) = SubSeq(file, 1, Len(file))
    BY <2>1, <2>2
  <2> QED BY <2>3, <2>4
<1>3. CASE torn # {}
  <2>1. torn \in SUBSET Nat
    BY <1>1
  <2>2. \E i \in torn : \A j \in torn : i <= j
    <3> HIDE DEF torn
    <3> QED BY <1>3, <2>1, LeastMember
  <2>3. first \in torn
    <3> HIDE DEF torn
    <3> QED BY <2>2
  <2>4. first \in 1 .. Len(file)
    BY <1>1, <2>3
  <2>5. Indexed(file) = SubSeq(file, 1, first) \/ Indexed(file) = SubSeq(file, 1, first - 1)
    BY <1>3 DEF Indexed
  <2> HIDE DEF first, torn
  <2>6. first \in 0 .. Len(file) /\ first - 1 \in 0 .. Len(file)
    BY <1>1, <2>4
  <2> QED BY <2>5, <2>6
<1> QED BY <1>2, <1>3

(* What a segment yields falls from record to record and is of the segment.*)
LEMMA YieldedFalls ==
    ASSUME NEW metas \in Seq(Frame), Orderly(metas)
    PROVE  /\ NewestFirst(metas) \in Seq(Records) /\ Falling(NewestFirst(metas))
           /\ \A r \in ToSet(NewestFirst(metas)) : Holds(metas, r)
<1> DEFINE n == Cardinality(Yielded(metas))
           part == SubSeq(metas, Len(metas) + 1 - n, Len(metas))
<1>1. n \in 0 .. Len(metas)
  <2>1. Yielded(metas) \subseteq 1 .. Len(metas) /\ Len(metas) \in Nat
    BY DEF Yielded
  <2>2. IsFiniteSet(1 .. Len(metas)) /\ Cardinality(1 .. Len(metas)) = Len(metas)
    <3>1. /\ IsFiniteSet(1 .. Len(metas))
          /\ Cardinality(1 .. Len(metas)) = IF 1 > Len(metas) THEN 0 ELSE Len(metas) - 1 + 1
      BY <2>1, FS_Interval
    <3> QED BY <2>1, <3>1
  <2> QED BY <2>1, <2>2, FS_Subset, FS_CardinalityType
<1> HIDE DEF n
<1>2. Len(metas) + 1 - n \in 1 .. Len(metas) + 1 /\ Len(metas) \in 0 .. Len(metas)
  BY <1>1
<1>3. part \in Seq(Frame) /\ Orderly(part) /\ \A r : Holds(part, r) => Holds(metas, r)
  BY <1>2, PartOfFile
<1>4. NewestFirst(metas) = Reverse(Content(part))
  BY DEF NewestFirst, n
<1> HIDE DEF part
<1>5. /\ Content(part) \in Seq(Records) /\ Rising(Content(part))
      /\ \A r : r \in ToSet(Content(part)) <=> Holds(part, r)
  BY <1>3, Contents
<1>6. /\ Reverse(Content(part)) \in Seq(Records) /\ Falling(Reverse(Content(part)))
      /\ ToSet(Reverse(Content(part))) = ToSet(Content(part))
  BY <1>5, Backwards
<1> QED BY <1>3, <1>4, <1>5, <1>6

(* Steps that touch neither the files nor the reader.                      *)
LEMMA ReaderAside ==
    ASSUME ReaderOK, UNCHANGED <<reader, disk, logDir>>
    PROVE  ReaderOK'
<1>1. \A j : Path(j)' = Path(j)
  BY DEF Path
<1> QED BY <1>1 DEF ReaderOK, Listing, Walking, Scanning, Decoding

(* A reader that is overlapped is not followed any further.                *)
LEMMA ReaderOverlapped ==
    ASSUME ReaderOK, Overlap
    PROVE  ReaderOK'
<1>1. reader \in Readers /\ Reader("done") \in Readers
  BY DEF ReaderOK, Readers, Reader
<1>2. reader' \in Readers /\ reader'.pc \in {"idle", "done"}
  BY <1>1 DEF Overlap, Readers, Reader
<1> QED BY <1>2 DEF ReaderOK, Listing, Walking, Scanning, Decoding

(* A file of the directory in use, and the order it is in.                 *)
LEMMA FileOrderly ==
    ASSUME LogInv, NEW i \in Slots, disk[logDir][i] # NoFile
    PROVE  /\ disk[logDir][i] \in Seq(Frame) /\ Orderly(disk[logDir][i])
           /\ DOMAIN disk[logDir][i] = 1 .. Len(disk[logDir][i]) /\ Len(disk[logDir][i]) \in Nat
<1>1. logDir \in Dirs /\ disk \in Disks /\ Ordered(disk) /\ i \in Nat
  BY MemoryTypes, Constants DEF LogInv, InOrder
<1> QED BY <1>1, FilesOfADisk DEF Ordered, Orderly

(* The batch that is written under the hands of a reader: the active       *)
(* segment grows, and it is the first one the reader takes.                *)
LEMMA BatchUnderReader ==
    ASSUME LogInv, ReaderOK, WriteBatch
    PROVE  ReaderOK'
<1> DEFINE f == NewFrame("none")
<1>1. /\ writer.pc = "write" /\ rot.pc = "none" /\ open /\ AppendFrame("none")
      /\ reader' = reader /\ logDir' = logDir
  BY DEF WriteBatch, optVars
<1>2. /\ logDir \in Dirs /\ 0 \in Slots /\ disk \in Disks /\ f \in Frame /\ f.damage = "none"
      /\ Active # NoFile /\ Active \in Seq(Frame) /\ disk'[logDir][0] = Append(Active, f)
      /\ disk'[logDir][0] # NoFile
  BY <1>1, MemoryTypes, Constants, NewFrames, FrameWritten DEF LogInv, Rotating, Damage
<1>3. \A i \in Slots : i # 0 => disk'[logDir][i] = disk[logDir][i]
  BY <1>1, <1>2 DEF AppendFrame, Disks
<1> HIDE DEF f
<1>4. /\ Len(disk'[logDir][0]) = Len(Active) + 1 /\ Len(Active) \in Nat
      /\ DOMAIN disk'[logDir][0] = 1 .. Len(Active) + 1 /\ DOMAIN Active = 1 .. Len(Active)
      /\ disk'[logDir][0][Len(Active) + 1] = f
      /\ \A p \in 1 .. Len(Active) : disk'[logDir][0][p] = Active[p]
  BY <1>2
<1>5. ASSUME NEW i \in Slots, disk[logDir][i] # NoFile
      PROVE  /\ disk'[logDir][i] # NoFile
             /\ Sound(disk[logDir][i]) => Sound(disk'[logDir][i])
             /\ \A r : Holds(disk[logDir][i], r) => Holds(disk'[logDir][i], r)
  <2>1. CASE i = 0
    <3>1. Sound(Active) => Sound(disk'[logDir][0])
      <4>1. \A p \in 1 .. Len(Active) + 1 : p = Len(Active) + 1 \/ p \in 1 .. Len(Active)
        BY <1>4
      <4> QED BY <1>2, <1>4, <4>1 DEF Sound
    <3>2. \A r : Holds(Active, r) => Holds(disk'[logDir][0], r)
      <4>1. \A p \in 1 .. Len(Active) : p \in 1 .. Len(Active) + 1
        BY <1>4
      <4> QED BY <1>4, <4>1 DEF Holds
    <3> QED BY <1>2, <2>1, <3>1, <3>2 DEF Active
  <2>2. CASE i # 0
    BY <1>3, <1>5, <2>2
  <2> QED BY <2>1, <2>2
<1>6. Listing'
  <2> SUFFICES ASSUME reader.pc = "list", NEW r \in reader.due
               PROVE  \E i \in 0 .. reader.n :
                        /\ disk'[logDir][i] # NoFile /\ Sound(disk'[logDir][i])
                        /\ Holds(disk'[logDir][i], r)
                        /\ \A j \in 1 .. i : disk'[logDir][j] # NoFile
    BY <1>1 DEF Listing, ReaderOK
  <2>1. PICK i \in 0 .. reader.n :
              /\ disk[logDir][i] # NoFile /\ Sound(disk[logDir][i]) /\ Holds(disk[logDir][i], r)
              /\ \A j \in 1 .. i : disk[logDir][j] # NoFile
    BY DEF ReaderOK, Listing
  <2>2. i \in Slots /\ \A j \in 1 .. i : j \in Slots
    <3>1. reader.n \in BackupCounts
      BY DEF ReaderOK, Listing
    <3>2. reader.n \in Slots
      BY <3>1, Constants
    <3> QED BY <3>2, Constants
  <2> QED BY <1>5, <2>1, <2>2
<1>7. CASE reader.pc \in {"scan", "decode"}
  <2>0. reader.paths \in Seq(Slots) /\ \A j \in DOMAIN reader.paths : reader.paths[j] \in Slots
    BY DEF ReaderOK, Readers
  <2>1. \A j \in DOMAIN reader.paths :
            /\ Path(j) # NoFile /\ (reader.paths[j] = 0 => reader.out = <<>>)
            /\ \A p \in DOMAIN Path(j) : Ahead(Path(j)[p].recs, ToSet(reader.out))
    BY <1>7 DEF ReaderOK, Walking
  <2>2. \A j : Path(j)' = disk'[logDir][reader.paths[j]] /\ Path(j) = disk[logDir][reader.paths[j]]
    BY <1>1 DEF Path
  <2>3. \A j \in DOMAIN reader.paths :
            /\ Path(j)' # NoFile /\ (Sound(Path(j)) => Sound(Path(j)'))
            /\ \A r : Holds(Path(j), r) => Holds(Path(j)', r)
    BY <1>5, <2>0, <2>1, <2>2
  <2>4. ASSUME NEW j \in DOMAIN reader.paths, NEW p \in DOMAIN Path(j)'
        PROVE  Ahead(Path(j)'[p].recs, ToSet(reader.out))
    <3>1. CASE reader.paths[j] = 0
      BY <2>1, <3>1 DEF Ahead, ToSet
    <3>2. CASE reader.paths[j] # 0
      BY <1>3, <2>0, <2>1, <2>2, <3>2
    <3> QED BY <3>1, <3>2
  <2>5. Walking'
    BY <1>1, <2>1, <2>3, <2>4 DEF ReaderOK, Walking
  <2>6. Scanning'
    BY <1>1, <2>3 DEF ReaderOK, Scanning
  <2>7. Decoding'
    <3> SUFFICES ASSUME reader.pc = "decode"
                 PROVE  Decoding'
      BY <1>1 DEF Decoding
    <3>1. PICK x \in 0 .. Len(Path(1)) : reader.metas = SubSeq(Path(1), 1, x)
      BY DEF ReaderOK, Decoding
    <3>2. 1 \in DOMAIN reader.paths
      BY <2>0 DEF ReaderOK, Decoding
    <3>3. x \in 0 .. Len(Path(1)') /\ reader.metas = SubSeq(Path(1)', 1, x)
      <4>1. CASE reader.paths[1] = 0
        <5>1. Path(1) = Active /\ Path(1)' = Append(Active, f)
          BY <1>2, <2>2, <4>1 DEF Active
        <5>2. x \in 0 .. Len(Active) + 1 /\ SubSeq(Append(Active, f), 1, x) = SubSeq(Active, 1, x)
          BY <1>2, <1>4, <3>1, <5>1
        <5> QED BY <1>2, <1>4, <3>1, <5>1, <5>2
      <4>2. CASE reader.paths[1] # 0
        BY <1>3, <2>0, <2>2, <3>1, <3>2, <4>2
      <4> QED BY <4>1, <4>2
    <3> QED BY <1>1, <2>3, <3>2, <3>3 DEF ReaderOK, Decoding
  <2> QED BY <1>1, <1>6, <2>5, <2>6, <2>7 DEF ReaderOK
<1>8. CASE reader.pc \notin {"scan", "decode"}
  BY <1>1, <1>6, <1>8 DEF ReaderOK, Walking, Scanning, Decoding
<1> QED BY <1>7, <1>8

(* What is owed when a read begins is on undamaged segments.               *)
LEMMA BeginReadOK ==
    ASSUME LogInv, ReaderOK, BeginRead
    PROVE  ReaderOK'
<1> DEFINE n == backupCount
           q == [Reader("list") EXCEPT !.n = n, !.due = Reachable(logDir, n)]
<1>1. n \in BackupCounts /\ n \in Slots /\ n \in Nat /\ \A i \in 0 .. n : i \in Slots
  BY Constants DEF LogInv, TypeOK
<1>2. reader' = q /\ disk' = disk /\ logDir' = logDir
  BY DEF BeginRead, optVars
<1>3. ASSUME NEW r \in Reachable(logDir, n)
      PROVE  /\ r \in Records
             /\ \E i \in 0 .. n :
                  /\ disk[logDir][i] # NoFile /\ Sound(disk[logDir][i]) /\ Holds(disk[logDir][i], r)
                  /\ \A j \in 1 .. i : disk[logDir][j] # NoFile
  <2>1. PICK i \in 0 .. n : /\ disk[logDir][i] # NoFile /\ Sound(disk[logDir][i])
                            /\ \A j \in 1 .. i : disk[logDir][j] # NoFile
                            /\ r \in ToSet(Content(disk[logDir][i]))
    BY DEF Reachable, Sound
  <2>2. disk[logDir][i] \in Seq(Frame)
    BY <1>1, <2>1, FileOrderly
  <2>3. Content(disk[logDir][i]) \in Seq(Records) /\ Holds(disk[logDir][i], r)
    BY <2>1, <2>2, Contents
  <2> QED BY <2>1, <2>3, Members
<1>4. /\ q.pc = "list" /\ q.n = n /\ q.due = Reachable(logDir, n) /\ q.out = <<>>
      /\ q \in Readers
  <2>1. Reachable(logDir, n) \in SUBSET Records
    BY <1>3
  <2> DEFINE owed == Reachable(logDir, n)
  <2>2. q = [pc |-> "list", n |-> n, paths |-> <<>>, metas |-> <<>>, out |-> <<>>, due |-> owed]
    <3>1. q = [Reader("list") EXCEPT !.n = n, !.due = owed]
      OBVIOUS
    <3> HIDE DEF q, owed, n
    <3> QED BY <3>1 DEF Reader
  <2> HIDE DEF owed, q
  <2>3. owed \in SUBSET Records
    BY <2>1 DEF owed
  <2>4. q \in Readers /\ q.pc = "list" /\ q.n = n /\ q.due = owed /\ q.out = <<>>
    BY <1>1, <2>2, <2>3 DEF Readers
  <2> QED BY <2>4 DEF owed
<1> HIDE DEF q
<1>5. Listing'
  BY <1>1, <1>2, <1>3, <1>4 DEF Listing
<1> QED BY <1>2, <1>4, <1>5 DEF ReaderOK, Walking, Scanning, Decoding

(* The list holds each backup up to the first that is missing.             *)
LEMMA ListOK ==
    ASSUME LogInv, ReaderOK, List
    PROVE  ReaderOK'
<1> DEFINE n == reader.n
           exists(i) == disk[logDir][i] # NoFile
           Fits(m) == (\A i \in 1 .. m : exists(i)) /\ (m < n => ~exists(m + 1))
           last == CHOOSE m \in 0 .. n : Fits(m)
           first == IF exists(0) THEN <<0>> ELSE <<>>
           rest == [i \in 1 .. last |-> i]
           q == [reader EXCEPT !.pc = "scan", !.paths = first \o rest]
<1>1. /\ reader.pc = "list" /\ reader' = q /\ disk' = disk /\ logDir' = logDir
  BY DEF List, optVars
<1>2. /\ n \in Nat /\ reader \in Readers /\ reader.out = <<>> /\ \A i \in 0 .. n : i \in Slots
  BY <1>1, Constants DEF ReaderOK, Readers, Listing
<1> HIDE DEF n
<1>3. \E m \in 0 .. n : Fits(m)
  <2> DEFINE T == {m \in 0 .. n : \A i \in 1 .. m : exists(i)}
  <2>1. T \in SUBSET Nat /\ 0 \in T /\ \A m \in T : m <= n
    BY <1>2
  <2>2. PICK m \in T : \A k \in T : k <= m
    <3> HIDE DEF T
    <3> QED BY <1>2, <2>1, GreatestMember
  <2>3. ASSUME m < n, exists(m + 1)
        PROVE  FALSE
    <3>1. m + 1 \in 0 .. n /\ \A i \in 1 .. m + 1 : i = m + 1 \/ i \in 1 .. m
      BY <1>2, <2>1, <2>2, <2>3
    <3>2. m + 1 \in T
      BY <2>2, <2>3, <3>1
    <3>3. m + 1 <= m
      <4> HIDE DEF T
      <4> QED BY <2>2, <3>2
    <3> QED BY <2>1, <2>2, <3>3
  <2> QED BY <2>2, <2>3
<1>4. last \in 0 .. n /\ Fits(last)
  <2> HIDE DEF Fits
  <2> QED BY <1>3
<1> HIDE DEF last
<1>5. /\ first \in Seq(Slots) /\ Rising(first) /\ ToSet(first) = IF exists(0) THEN {0} ELSE {}
  <2>1. 0 \in Slots
    BY Constants
  <2> QED BY <2>1 DEF Rising, ToSet
<1>6. /\ rest \in Seq(Slots) /\ Rising(rest) /\ ToSet(rest) = 1 .. last
  <2>1. last \in Nat /\ rest \in [1 .. last -> Slots] /\ \A i \in 1 .. last : rest[i] = i
    BY <1>2, <1>4
  <2>2. rest \in Seq(Slots) /\ DOMAIN rest = 1 .. last
    BY <2>1
  <2> HIDE DEF rest
  <2>3. Rising(rest)
    BY <2>1, <2>2 DEF Rising
  <2>4. ToSet(rest) = 1 .. last
    BY <2>1, <2>2 DEF ToSet
  <2> QED BY <2>2, <2>3, <2>4
<1>7. Precedes(first, rest)
  <2>1. \A a \in DOMAIN first : first[a] = 0
    OBVIOUS
  <2>2. \A b \in DOMAIN rest : rest[b] > 0
    BY <1>2, <1>4
  <2> QED BY <2>1, <2>2 DEF Precedes
<1> HIDE DEF first, rest
<1>8. /\ first \o rest \in Seq(Slots) /\ Rising(first \o rest)
      /\ ToSet(first \o rest) = (IF exists(0) THEN {0} ELSE {}) \cup (1 .. last)
  <2> HIDE DEF q, Fits, exists
  <2>1. first \in Seq(Slots) /\ rest \in Seq(Slots)
    BY <1>5, <1>6
  <2>2. /\ first \o rest \in Seq(Slots) /\ ToSet(first \o rest) = ToSet(first) \cup ToSet(rest)
        /\ Rising(first) /\ Rising(rest) /\ Precedes(first, rest) => Rising(first \o rest)
    BY <2>1, InARow
  <2> QED BY <1>5, <1>6, <1>7, <2>1, <2>2
<1>9. /\ q \in Readers /\ q.pc = "scan" /\ q.paths = first \o rest /\ q.out = <<>>
      /\ q.due = reader.due
  BY <1>2, <1>8 DEF Readers
<1> HIDE DEF q
<1>10. \A r : r \in ToSet(q.paths) <=> \E j \in DOMAIN q.paths : r = q.paths[j]
  BY DEF ToSet
<1>11. Walking'
  <2>1. ASSUME NEW j \in DOMAIN q.paths
        PROVE  disk[logDir][q.paths[j]] # NoFile
    <3>1. q.paths[j] \in ToSet(q.paths)
      BY <1>10
    <3> QED BY <1>4, <1>8, <1>9, <3>1
  <2>2. \A s : Ahead(s, ToSet(<<>>)) /\ Falling(<<>>)
    BY DEF Ahead, ToSet, Falling
  <2> QED BY <1>1, <1>8, <1>9, <2>1, <2>2 DEF Walking, Path
<1>12. Scanning'
  <2> SUFFICES ASSUME NEW r \in reader.due
               PROVE  \E j \in DOMAIN q.paths : /\ Sound(disk[logDir][q.paths[j]])
                                                /\ Holds(disk[logDir][q.paths[j]], r)
    BY <1>1, <1>9 DEF Scanning, Path
  <2>1. PICK i \in 0 .. n :
              /\ exists(i) /\ Sound(disk[logDir][i]) /\ Holds(disk[logDir][i], r)
              /\ \A j \in 1 .. i : exists(j)
    BY <1>1 DEF ReaderOK, Listing, n
  <2>2. i \in ToSet(q.paths)
    <3>1. CASE i = 0
      BY <1>8, <1>9, <2>1, <3>1
    <3>2. CASE i # 0
      <4>1. i <= last
        <5>1. SUFFICES ASSUME last < i
                       PROVE  FALSE
          BY <1>2, <1>4
        <5>2. last + 1 \in 1 .. i /\ last < n
          BY <1>2, <1>4, <5>1
        <5> QED BY <1>4, <2>1, <5>2
      <4> QED BY <1>2, <1>4, <1>8, <1>9, <3>2, <4>1
    <3> QED BY <3>1, <3>2
  <2> QED BY <1>10, <2>1, <2>2
<1> QED BY <1>1, <1>9, <1>11, <1>12 DEF ReaderOK, Listing, Decoding

(* The list of paths without its first.                                    *)
LEMMA PathsLeft ==
    ASSUME ReaderOK, reader.pc \in {"scan", "decode"}, reader.paths # <<>>
    PROVE  /\ 1 \in DOMAIN reader.paths /\ Head(reader.paths) = reader.paths[1]
           /\ reader.paths[1] \in Slots
           /\ Tail(reader.paths) \in Seq(Slots) /\ Rising(Tail(reader.paths))
           /\ \A j \in DOMAIN Tail(reader.paths) :
                 /\ j + 1 \in DOMAIN reader.paths /\ Tail(reader.paths)[j] = reader.paths[j + 1]
                 /\ reader.paths[j + 1] \in Slots /\ reader.paths[j + 1] > reader.paths[1]
           /\ \A j \in DOMAIN reader.paths : j > 1 => /\ j - 1 \in DOMAIN Tail(reader.paths)
                                                      /\ Tail(reader.paths)[j - 1] = reader.paths[j]
<1> DEFINE s == reader.paths
<1>1. s \in Seq(Slots) /\ Rising(s)
  BY DEF ReaderOK, Readers, Walking
<1> HIDE DEF s
<1>2. /\ s # <<>> /\ Len(s) \in Nat \ {0} /\ DOMAIN s = 1 .. Len(s) /\ DOMAIN Tail(s) = 1 .. Len(s) - 1
      /\ Tail(s) \in Seq(Slots) /\ Head(s) = s[1]
      /\ \A j \in 1 .. Len(s) - 1 : Tail(s)[j] = s[j + 1]
  BY <1>1 DEF s
<1>3. 1 \in DOMAIN s /\ \A j \in DOMAIN s : s[j] \in Slots
  BY <1>1, <1>2
<1>4. \A j \in DOMAIN Tail(s) : j + 1 \in DOMAIN s /\ Tail(s)[j] = s[j + 1] /\ 1 < j + 1
  BY <1>2
<1>5. \A j \in DOMAIN Tail(s) : s[j + 1] > s[1]
  <2>1. ASSUME NEW j \in DOMAIN Tail(s)
        PROVE  s[j + 1] > s[1]
    <3>1. s[1] < s[j + 1] /\ s[1] \in Nat /\ s[j + 1] \in Nat
      BY <1>1, <1>3, <1>4, Constants DEF Rising
    <3> QED BY <3>1
  <2> QED BY <2>1
<1>6. Rising(Tail(s))
  <2>1. ASSUME NEW a \in DOMAIN Tail(s), NEW b \in DOMAIN Tail(s), a < b
        PROVE  Tail(s)[a] < Tail(s)[b]
    <3>1. a + 1 < b + 1
      BY <1>2, <2>1
    <3> QED BY <1>1, <1>4, <3>1 DEF Rising
  <2> QED BY <2>1 DEF Rising
<1>7. \A j \in DOMAIN s : j > 1 => j - 1 \in DOMAIN Tail(s) /\ Tail(s)[j - 1] = s[j]
  <2>1. ASSUME NEW j \in DOMAIN s, j > 1
        PROVE  j - 1 \in DOMAIN Tail(s) /\ Tail(s)[j - 1] = s[j]
    <3>1. j - 1 \in 1 .. Len(s) - 1 /\ (j - 1) + 1 = j
      BY <1>2, <2>1
    <3> QED BY <1>2, <3>1
  <2> QED BY <2>1
<1> QED BY <1>2, <1>3, <1>4, <1>5, <1>6, <1>7 DEF s

(* The reader moves on to the next path.                                   *)
LEMMA NextPath ==
    ASSUME ReaderOK, reader.pc \in {"scan", "decode"}, reader.paths # <<>>, UNCHANGED <<disk, logDir>>,
           reader'.paths = Tail(reader.paths)
    PROVE  /\ \A j \in DOMAIN reader'.paths :
                 /\ j + 1 \in DOMAIN reader.paths /\ Path(j)' = Path(j + 1)
                 /\ reader'.paths[j] = reader.paths[j + 1]
           /\ \A j \in DOMAIN reader.paths :
                 j > 1 => j - 1 \in DOMAIN reader'.paths /\ Path(j - 1)' = Path(j)
<1>1. \A j : Path(j)' = disk[logDir][Tail(reader.paths)[j]]
  BY DEF Path
<1>2. \A j \in DOMAIN reader.paths :
          j > 1 => j - 1 \in DOMAIN reader'.paths /\ Tail(reader.paths)[j - 1] = reader.paths[j]
  BY PathsLeft
<1>3. \A j \in DOMAIN reader'.paths :
          j + 1 \in DOMAIN reader.paths /\ Tail(reader.paths)[j] = reader.paths[j + 1]
  BY PathsLeft
<1> QED BY <1>1, <1>2, <1>3 DEF Path

LEMMA SoundIsIndexed ==
    ASSUME NEW file, Sound(file)
    PROVE  Indexed(file) = file
<1>1. {i \in DOMAIN file : file[i].damage # "none"} = {}
  BY DEF Sound
<1> QED BY <1>1 DEF Indexed

(* A segment is left out only when nothing that is owed is on it.          *)
LEMMA ScanIndexOK ==
    ASSUME LogInv, ReaderOK, ScanIndex
    PROVE  ReaderOK'
<1> DEFINE file == Path(1)
           skipped == [reader EXCEPT !.paths = Tail(reader.paths)]
           indexed == [reader EXCEPT !.pc = "decode", !.metas = Indexed(file)]
<1>1. /\ reader.pc = "scan" /\ reader.paths # <<>> /\ disk' = disk /\ logDir' = logDir
      /\ reader \in Readers /\ Walking /\ Scanning
  BY DEF ScanIndex, optVars, ReaderOK
<1>2. /\ 1 \in DOMAIN reader.paths /\ Head(reader.paths) = reader.paths[1]
      /\ reader.paths[1] \in Slots /\ Tail(reader.paths) \in Seq(Slots) /\ Rising(Tail(reader.paths))
  BY <1>1, PathsLeft
<1>3. file # NoFile /\ file = disk[logDir][Head(reader.paths)] /\ file \in Seq(Frame)
  <2>1. file # NoFile /\ file = disk[logDir][reader.paths[1]]
    BY <1>1, <1>2 DEF Walking, Path
  <2> QED BY <1>2, <2>1, FileOrderly
<1>4. \/ Indexed(file) = <<>> /\ reader' = skipped
      \/ reader' = indexed
  BY <1>3 DEF ScanIndex
<1> HIDE DEF file
<1>5. Sound(file) => Indexed(file) = file
  BY SoundIsIndexed
<1>6. CASE Indexed(file) = <<>> /\ reader' = skipped
  <2>1. /\ reader' \in Readers /\ reader'.pc = "scan" /\ reader'.paths = Tail(reader.paths)
        /\ reader'.out = reader.out /\ reader'.due = reader.due
    BY <1>1, <1>2, <1>6 DEF Readers
  <2> HIDE DEF skipped
  <2>2. /\ \A j \in DOMAIN reader'.paths :
              /\ j + 1 \in DOMAIN reader.paths /\ Path(j)' = Path(j + 1)
              /\ reader'.paths[j] = reader.paths[j + 1]
        /\ \A j \in DOMAIN reader.paths :
              j > 1 => j - 1 \in DOMAIN reader'.paths /\ Path(j - 1)' = Path(j)
    BY <1>1, <2>1, NextPath
  <2>3. Walking'
    BY <1>1, <1>2, <2>1, <2>2 DEF Walking
  <2>4. ~(\E r : Sound(file) /\ Holds(file, r))
    BY <1>5, <1>6 DEF Holds
  <2>5. Scanning'
    <3> SUFFICES ASSUME NEW r \in reader.due, r \notin ToSet(reader.out)
                 PROVE  \E j \in DOMAIN reader'.paths : Sound(Path(j)') /\ Holds(Path(j)', r)
      BY <2>1 DEF Scanning
    <3>1. PICK j \in DOMAIN reader.paths : Sound(Path(j)) /\ Holds(Path(j), r)
      BY <1>1 DEF Scanning
    <3>2. j # 1
      BY <2>4, <3>1 DEF file
    <3>3. reader.paths \in Seq(Slots)
      BY <1>1 DEF Readers
    <3>4. j > 1
      BY <3>2, <3>3
    <3> QED BY <2>2, <3>1, <3>4
  <2> QED BY <2>1, <2>3, <2>5 DEF ReaderOK, Listing, Decoding
<1>7. CASE reader' = indexed
  <2>1. PICK x \in 0 .. Len(file) : Indexed(file) = SubSeq(file, 1, x)
    BY <1>3, IndexIsPrefix
  <2>2. Indexed(file) \in Seq(Frame)
    BY <1>3, <2>1
  <2>3. /\ reader' \in Readers /\ reader'.pc = "decode" /\ reader'.paths = reader.paths
        /\ reader'.out = reader.out /\ reader'.due = reader.due /\ reader'.metas = Indexed(file)
    BY <1>1, <1>7, <2>2 DEF Readers
  <2> HIDE DEF indexed
  <2>4. \A j : Path(j)' = Path(j)
    BY <1>1, <2>3 DEF Path
  <2>5. Walking'
    BY <1>1, <2>3, <2>4 DEF Walking
  <2>6. ASSUME NEW r \in reader.due, r \notin ToSet(reader.out)
        PROVE  \/ Sound(file) /\ Holds(Indexed(file), r)
               \/ \E j \in DOMAIN reader.paths : j > 1 /\ Sound(Path(j)) /\ Holds(Path(j), r)
    <3>1. PICK j \in DOMAIN reader.paths : Sound(Path(j)) /\ Holds(Path(j), r)
      BY <1>1, <2>6 DEF Scanning
    <3>2. reader.paths \in Seq(Slots)
      BY <1>1 DEF Readers
    <3>3. j = 1 \/ j > 1
      BY <3>2
    <3> QED BY <1>5, <3>1, <3>3 DEF file
  <2>7. Path(1)' = file
    BY <2>4 DEF file
  <2>8. Decoding'
    BY <1>1, <2>1, <2>3, <2>4, <2>6, <2>7 DEF Decoding
  <2> QED BY <2>3, <2>5, <2>8 DEF ReaderOK, Listing, Scanning
<1> QED BY <1>4, <1>6, <1>7

(* A segment that is decoded is older than those read before, and newer    *)
(* than those still to come.                                               *)
LEMMA DecodeOK ==
    ASSUME LogInv, ReaderOK, Decode
    PROVE  ReaderOK'
<1> DEFINE file == Path(1)
           metas == reader.metas
           new == NewestFirst(metas)
           q == [reader EXCEPT !.pc = "scan", !.paths = Tail(reader.paths), !.metas = <<>>,
                               !.out = reader.out \o new]
<1>1. /\ reader.pc = "decode" /\ reader.paths # <<>> /\ disk' = disk /\ logDir' = logDir
      /\ reader \in Readers /\ Walking /\ Decoding
  BY DEF Decode, optVars, ReaderOK, Decoding
<1>2. /\ 1 \in DOMAIN reader.paths /\ Head(reader.paths) = reader.paths[1]
      /\ reader.paths[1] \in Slots /\ Tail(reader.paths) \in Seq(Slots) /\ Rising(Tail(reader.paths))
  BY <1>1, PathsLeft
<1>3. /\ file # NoFile /\ file = disk[logDir][Head(reader.paths)]
      /\ file \in Seq(Frame) /\ Orderly(file)
      /\ Sound(file) => Chain(file)
  <2>1. file # NoFile /\ file = disk[logDir][reader.paths[1]]
    BY <1>1, <1>2 DEF Walking, Path
  <2>2. Sound(file) => Chain(file)
    BY <1>2, <2>1, MemoryTypes DEF LogInv, Chained
  <2> QED BY <1>2, <2>1, <2>2, FileOrderly
<1>4. PICK x \in 0 .. Len(file) : metas = SubSeq(file, 1, x)
  BY <1>1 DEF Decoding
<1>5. /\ metas \in Seq(Frame) /\ Orderly(metas) /\ \A r : Holds(metas, r) => Holds(file, r)
  <2> HIDE DEF file, metas
  <2>1. file \in Seq(Frame) /\ 1 \in 1 .. Len(file) + 1
    BY <1>3
  <2>2. /\ SubSeq(file, 1, x) \in Seq(Frame)
        /\ \A r : Holds(SubSeq(file, 1, x), r) => Holds(file, r)
        /\ Orderly(file) => Orderly(SubSeq(file, 1, x))
    BY <2>1, PartOfFile
  <2> QED BY <1>3, <1>4, <2>2
<1>6. /\ Len(metas) = x /\ x \in Nat /\ x <= Len(file) /\ DOMAIN metas = 1 .. x
      /\ \A i \in 1 .. x : metas[i] = file[i]
  BY <1>3, <1>4
<1>7. reader' = q
  <2>1. IsPrefix(metas, file)
    BY <1>4, <1>6 DEF IsPrefix
  <2> QED BY <1>3, <2>1 DEF Decode
<1>8. /\ new \in Seq(Records) /\ Falling(new) /\ \A r \in ToSet(new) : Holds(file, r)
  BY <1>5, YieldedFalls
<1>9. ASSUME Sound(file), NEW r, Holds(metas, r)
      PROVE  r \in ToSet(new)
  <2>1. Sound(metas) /\ Chain(metas)
    <3>1. \A i \in 1 .. x : i \in DOMAIN file /\ (i > 1 => i - 1 \in 1 .. x)
      BY <1>3, <1>6
    <3>2. Sound(metas)
      BY <1>6, <1>9, <3>1 DEF Sound
    <3>3. ASSUME NEW j \in DOMAIN metas, metas[j].dict # <<>>
          PROVE  j > 1 /\ metas[j].dict = metas[j - 1].recs
      <4>1. /\ j \in 1 .. x /\ j \in DOMAIN file /\ metas[j] = file[j]
            /\ j > 1 => metas[j - 1] = file[j - 1]
        BY <1>6, <3>1
      <4>2. j > 1 /\ file[j].dict = file[j - 1].recs
        BY <1>3, <1>9, <3>3, <4>1 DEF Chain
      <4> QED BY <4>1, <4>2
    <3>4. Chain(metas)
      BY <3>3 DEF Chain
    <3> QED BY <3>2, <3>4
  <2>2. new = Reverse(Content(metas))
    BY <1>5, <2>1, SoundChainsAreRead, SoundIsIndexed
  <2>3. Content(metas) \in Seq(Records) /\ r \in ToSet(Content(metas))
    BY <1>5, <1>9, Contents
  <2> QED BY <2>2, <2>3, Backwards
<1> HIDE DEF file, metas, new
<1>10. /\ reader.out \o new \in Seq(Records)
       /\ ToSet(reader.out \o new) = ToSet(reader.out) \cup ToSet(new)
  BY <1>1, <1>8, InARow DEF Readers
<1>11. Falling(reader.out \o new)
  <2>1. ASSUME NEW a \in DOMAIN reader.out, NEW b \in DOMAIN new
        PROVE  reader.out[a] > new[b]
    <3>1. new[b] \in ToSet(new) /\ reader.out[a] \in ToSet(reader.out)
      BY DEF ToSet
    <3>2. PICK p \in DOMAIN file : new[b] \in ToSet(file[p].recs)
      BY <1>8, <3>1 DEF Holds
    <3>3. Ahead(file[p].recs, ToSet(reader.out))
      BY <1>1, <1>2, <3>2 DEF Walking, file
    <3>4. new[b] < reader.out[a]
      BY <3>1, <3>2, <3>3 DEF Ahead, ToSet
    <3>5. new[b] \in Nat /\ reader.out[a] \in Nat
      <4>1. reader.out \in Seq(Records)
        BY <1>1 DEF Readers
      <4>2. new[b] \in Records /\ reader.out[a] \in Records
        BY <1>8, <4>1
      <4> QED BY <4>2, Constants
    <3> QED BY <3>4, <3>5
  <2>2. Falling(reader.out) /\ reader.out \in Seq(Records)
    BY <1>1 DEF Walking, Readers
  <2> QED BY <1>8, <2>1, <2>2, InARow
<1>12. /\ q \in Readers /\ q.pc = "scan" /\ q.paths = Tail(reader.paths) /\ q.due = reader.due
       /\ q.out = reader.out \o new
  <2>1. <<>> \in Seq(Frame)
    OBVIOUS
  <2> QED BY <1>1, <1>2, <1>10, <2>1 DEF Readers
<1> HIDE DEF q
<1>13. /\ \A j \in DOMAIN q.paths : /\ j + 1 \in DOMAIN reader.paths /\ Path(j)' = Path(j + 1)
                                    /\ q.paths[j] = reader.paths[j + 1]
       /\ \A j \in DOMAIN reader.paths :
             j > 1 => j - 1 \in DOMAIN q.paths /\ Path(j - 1)' = Path(j)
  BY <1>1, <1>7, <1>12, NextPath
<1>14. ASSUME NEW j \in DOMAIN q.paths
       PROVE  /\ q.paths[j] # 0
              /\ \A p \in DOMAIN Path(j)' : Ahead(Path(j)'[p].recs, ToSet(q.out))
  <2>1. reader.paths[j + 1] > reader.paths[1] /\ reader.paths[j + 1] \in Slots
    BY <1>1, <1>12, PathsLeft
  <2>2. q.paths[j] # 0
    BY <1>2, <1>13, <2>1, Constants
  <2>3. ASSUME NEW p \in DOMAIN Path(j + 1), NEW r \in ToSet(new), NEW a \in DOMAIN Path(j + 1)[p].recs
        PROVE  Path(j + 1)[p].recs[a] < r
    <3>1. PICK s \in DOMAIN file : r \in ToSet(file[s].recs)
      BY <1>8 DEF Holds
    <3>2. Path(j + 1) # NoFile /\ Path(j + 1) = disk[logDir][reader.paths[j + 1]]
      BY <1>1, <1>13 DEF Walking, Path
    <3>3. file = disk[logDir][reader.paths[1]]
      BY DEF file, Path
    <3>4. Ordered(disk) /\ logDir \in Dirs
      BY MemoryTypes DEF LogInv, InOrder
    <3>5. Precedes(Path(j + 1)[p].recs, file[s].recs)
      BY <1>2, <1>3, <2>1, <3>2, <3>3, <3>4 DEF Ordered
    <3> QED BY <3>1, <3>5 DEF Precedes, ToSet
  <2>4. \A p \in DOMAIN Path(j + 1) : Ahead(Path(j + 1)[p].recs, ToSet(reader.out))
    BY <1>1, <1>13 DEF Walking
  <2>5. \A p \in DOMAIN Path(j + 1) : Ahead(Path(j + 1)[p].recs, ToSet(q.out))
    BY <1>10, <1>12, <2>3, <2>4 DEF Ahead
  <2> QED BY <1>13, <2>2, <2>5
<1>15. Walking'
  <2>1. \A j \in DOMAIN q.paths : Path(j)' # NoFile
    BY <1>1, <1>13 DEF Walking
  <2> QED BY <1>2, <1>7, <1>11, <1>12, <1>14, <2>1 DEF Walking
<1>16. Scanning'
  <2> SUFFICES ASSUME NEW r \in reader.due, r \notin ToSet(reader.out \o new)
               PROVE  \E j \in DOMAIN q.paths : Sound(Path(j)') /\ Holds(Path(j)', r)
    BY <1>7, <1>12 DEF Scanning
  <2>1. ~(Sound(file) /\ Holds(metas, r)) /\ r \notin ToSet(reader.out)
    BY <1>9, <1>10
  <2>2. PICK j \in DOMAIN reader.paths : j > 1 /\ Sound(Path(j)) /\ Holds(Path(j), r)
    BY <1>1, <2>1 DEF Decoding, file, metas
  <2> QED BY <1>13, <2>2
<1> QED BY <1>7, <1>12, <1>15, <1>16 DEF ReaderOK, Listing, Decoding

(* The reader is where it says it is, in every reachable state.            *)
LEMMA InitReaderOK == Init => ReaderOK
<1> SUFFICES ASSUME Init
             PROVE  ReaderOK
  OBVIOUS
<1>1. reader = Reader("idle")
  BY DEF Init
<1>2. reader \in Readers /\ reader.pc = "idle"
  BY <1>1 DEF Reader, Readers
<1> QED BY <1>2 DEF ReaderOK, Listing, Walking, Scanning, Decoding

LEMMA NextKeepsReaderOK == LogInv /\ ReaderOK /\ [Next]_vars => ReaderOK'
<1> SUFFICES ASSUME LogInv, ReaderOK, [Next]_vars
             PROVE  ReaderOK'
  OBVIOUS
<1>1. CASE \/ Log \/ Count \/ Receive \/ TimerFires \/ SeeDone \/ DrainEnds \/ Close \/ UNCHANGED vars
  <2>1. UNCHANGED <<reader, disk, logDir>>
    BY <1>1 DEF Log, Count, Receive, TimerFires, SeeDone, DrainEnds, Close, optVars, vars
  <2> QED BY <2>1, ReaderAside
<1>2. CASE WriteBatch
  BY <1>2, BatchUnderReader
<1>3. ASSUME NEW damage \in Damage, WriteFails(damage)
      PROVE  ReaderOK'
  <2>1. UNCHANGED <<reader, disk, logDir>> \/ Overlap
    BY <1>3 DEF WriteFails, optVars
  <2> QED BY <2>1, ReaderAside, ReaderOverlapped
<1>4. CASE WriterStep
  BY <1>1, <1>2, <1>3, <1>4 DEF WriterStep
<1>5. CASE RotationStep
  <2>1. Overlap
    BY <1>5 DEF RotationStep, Shift, Archive, Reopen
  <2> QED BY <2>1, ReaderOverlapped
<1>6. CASE ReadDone
  <2>1. reader' = Reader("done")
    BY <1>6 DEF ReadDone
  <2>2. reader' \in Readers /\ reader'.pc = "done"
    BY <2>1 DEF Reader, Readers
  <2> QED BY <2>2 DEF ReaderOK, Listing, Walking, Scanning, Decoding
<1>7. CASE ReaderStep
  BY <1>6, <1>7, BeginReadOK, ListOK, ScanIndexOK, DecodeOK DEF ReaderStep
<1>8. ASSUME NEW d \in Dirs, NEW size \in Sizes, NEW n \in BackupCounts, Reconfigure(d, size, n)
      PROVE  ReaderOK'
  BY <1>8, ReaderOverlapped DEF Reconfigure
<1>9. ASSUME NEW size \in Sizes, NEW n \in BackupCounts, NEW reopened \in BOOLEAN,
             ReconfigureFails(size, n, reopened)
      PROVE  ReaderOK'
  BY <1>9, ReaderOverlapped DEF ReconfigureFails
<1>10. ASSUME NEW damage \in Damage, Restart(damage)
       PROVE  ReaderOK'
  BY <1>10, ReaderOverlapped DEF Restart
<1> QED BY <1>1, <1>4, <1>5, <1>7, <1>8, <1>9, <1>10 DEF Next

(* A reader that no rotation, reconfiguration, damaged write or restart    *)
(* overlaps returns every record that was on undamaged segments when it    *)
(* began, newest first and none twice, whatever is appended meanwhile.     *)
THEOREM QuietReadsAreComplete == Spec => QuietReadIsComplete
<1> DEFINE Complete == ReadDone =>
             /\ reader.due \subseteq ToSet(reader.out)
             /\ \A j, k \in DOMAIN reader.out : j < k => reader.out[j] > reader.out[k]
<1>1. ASSUME ReaderOK, ReadDone
      PROVE  /\ reader.due \subseteq ToSet(reader.out)
             /\ \A j, k \in DOMAIN reader.out : j < k => reader.out[j] > reader.out[k]
  <2>1. reader.pc = "scan" /\ DOMAIN reader.paths = {}
    BY <1>1 DEF ReadDone
  <2>2. reader.due \subseteq ToSet(reader.out)
    BY <1>1, <2>1 DEF ReaderOK, Scanning
  <2> QED BY <1>1, <2>1, <2>2 DEF ReaderOK, Walking, Falling
<1>2. ReaderOK => Complete
  BY <1>1
<1>3. Init => ReaderOK
  BY InitReaderOK
<1>4. LogInv /\ ReaderOK /\ [Next]_vars => ReaderOK'
  BY NextKeepsReaderOK
<1>5. Spec => []ReaderOK
  BY <1>3, <1>4, LogInvariant, PTL DEF Spec
<1> QED BY <1>2, <1>5, PTL DEF QuietReadIsComplete

=============================================================================
