------------------------------ MODULE ReportLog ------------------------------
(***************************************************************************)
(* report.Logger (internal/report/logger.go, format.go, segment.go,        *)
(* reader.go): records are queued, batched by one writer goroutine and     *)
(* appended as compressed frames to the active segment.  A frame that is   *)
(* no checkpoint decodes only with the content of the frame before it as   *)
(* dictionary.  Segments rotate by renaming; Reconfigure moves the log to  *)
(* another directory; a reader works on the files without a lock; a write  *)
(* can fail half way and the process can end at any point.                 *)
(*                                                                         *)
(* Records are numbered in the order of the calls of Log.  writeMu is held *)
(* while rot # "none"; every other action takes and releases it, or does   *)
(* not need it.                                                            *)
(***************************************************************************)
EXTENDS Naturals, Sequences, FiniteSets, SequencesExt

CONSTANTS
    MaxRecords,         \* bound on the calls of Log
    Callers,            \* bound on the calls of Log under way at one time
    Dirs,
    FirstDir, FirstSize,        \* the options at the start
    Sizes,              \* values of max_file_size, in frames
    BackupCounts,       \* values of max_backups
    QueueCap,           \* capacity of l.records, 10000 in the code
    BatchMax,           \* batchMaxRecords
    CheckpointInterval,
    MaxFaults,          \* bound on failed file operations and crashes
    MaxChanges,         \* bound on calls of Reconfigure
    NoFile

ASSUME CapsAssumption ==
    /\ {MaxRecords, MaxFaults, MaxChanges} \subseteq Nat
    /\ {Callers, QueueCap, BatchMax, CheckpointInterval} \subseteq Nat \ {0}
ASSUME OptionsAssumption ==
    /\ Sizes \subseteq Nat \ {0} /\ FirstSize \in Sizes
    /\ BackupCounts \subseteq Nat \ {0} /\ BackupCounts # {} /\ IsFiniteSet(BackupCounts)
    /\ FirstDir \in Dirs

Records == 1 .. MaxRecords
MaxBackups == CHOOSE n \in BackupCounts : \A m \in BackupCounts : m <= n
Slots == 0 .. MaxBackups        \* 0 is requests.zrc, i is requests.zrc.i

VARIABLES
    logged,     \* calls of Log that have reached the channel
    uncounted,  \* of these, calls that have not incremented queued yet
    queue, queued, written,
    batch, timerActive,
    writer,     \* the loop run is in, and where
    logDir, maxBytes, backupCount,
    open,       \* l.fh is a file
    fileSize, prevRaw, chunksSinceCheckpoint,
    disk,       \* disk[d][i]: the frames of a segment file
    rot,        \* where rotate is
    closing,    \* Close has been called
    reader,     \* one call of iterAllReversed
    faults, changes

memVars  == <<logged, uncounted, queue, queued, written>>
runVars  == <<batch, timerActive, writer>>
optVars  == <<logDir, maxBytes, backupCount>>
fileVars == <<open, fileSize, prevRaw, chunksSinceCheckpoint>>
vars == <<memVars, runVars, optVars, fileVars, disk, rot, closing, reader, faults, changes>>

(* dict is the content of the frame the encoder was given, <<>> for a      *)
(* checkpoint; damage tells how much of the frame reached the file.        *)
Damage == {"none", "stub", "part", "headed"}
Frame == [recs : BoundedSeq(Records, BatchMax), dict : BoundedSeq(Records, BatchMax), damage : Damage]

ASSUME NoFileAssumption == NoFile \notin Seq(Frame)

TypeOK ==
    /\ logged \in 0 .. MaxRecords /\ uncounted \in 0 .. Callers
    /\ queue \in BoundedSeq(Records, QueueCap)
    /\ queued \in 0 .. logged /\ written \in 0 .. logged
    /\ batch \in BoundedSeq(Records, BatchMax)
    /\ timerActive \in BOOLEAN
    /\ writer \in [mode : {"loop", "drain", "last", "exited"}, pc : {"select", "write", "rotate"}]
    /\ logDir \in Dirs /\ maxBytes \in Sizes /\ backupCount \in BackupCounts
    /\ open \in BOOLEAN
    /\ fileSize \in Nat /\ prevRaw \in BoundedSeq(Records, BatchMax)
    /\ chunksSinceCheckpoint \in 0 .. CheckpointInterval
    /\ \A d \in Dirs, i \in Slots : disk[d][i] # NoFile => disk[d][i] \in Seq(Frame)
    /\ rot \in [pc : {"none", "shift", "archive", "reopen"}, i : Slots]
    /\ closing \in BOOLEAN
    /\ reader.pc \in {"idle", "list", "scan", "decode", "done"}
    /\ faults \in 0 .. MaxFaults /\ changes \in 0 .. MaxChanges

NoRotation == [pc |-> "none", i |-> 0]
Reader(pc) == [pc |-> pc, n |-> 0, paths |-> <<>>, metas |-> <<>>, out |-> <<>>, due |-> {}]

Init ==
    /\ logged = 0 /\ uncounted = 0 /\ queue = <<>> /\ queued = 0 /\ written = 0
    /\ batch = <<>> /\ timerActive = FALSE
    /\ writer = [mode |-> "loop", pc |-> "select"]
    /\ logDir = FirstDir /\ maxBytes = FirstSize /\ backupCount \in BackupCounts
    /\ open = TRUE /\ fileSize = 0 /\ prevRaw = <<>> /\ chunksSinceCheckpoint = 0
    /\ disk = [d \in Dirs |-> [i \in Slots |-> IF d = logDir /\ i = 0 THEN <<>> ELSE NoFile]]
    /\ rot = NoRotation /\ closing = FALSE
    /\ reader = Reader("idle")
    /\ faults = 0 /\ changes = 0

----------------------------------------------------------------------------
(* Log and Flush.                                                          *)

Log ==
    /\ logged < MaxRecords /\ uncounted < Callers
    /\ logged' = logged + 1
    /\ IF Len(queue) < QueueCap
       THEN queue' = Append(queue, logged') /\ uncounted' = uncounted + 1
       ELSE UNCHANGED <<queue, uncounted>>
    /\ UNCHANGED <<queued, written, runVars, optVars, fileVars, disk, rot, closing,
                   reader, faults, changes>>

(* queued is incremented after the writer may have seen the record.        *)
Count ==
    /\ uncounted > 0
    /\ uncounted' = uncounted - 1
    /\ queued' = queued + 1
    /\ UNCHANGED <<logged, queue, written, runVars, optVars, fileVars, disk, rot, closing,
                   reader, faults, changes>>

(* What Flush waits for.                                                   *)
FlushDone == written >= queued

----------------------------------------------------------------------------
(* The writer goroutine.                                                   *)

(* Mutated form: the timer is not armed.                                   *)
ReceiveWithoutTimer ==
    /\ writer.mode # "exited" /\ writer.pc = "select"
    /\ queue # <<>>
    /\ batch' = Append(batch, Head(queue))
    /\ queue' = Tail(queue)
    /\ timerActive' = timerActive
    /\ writer' = [writer EXCEPT !.pc = IF Len(batch') >= BatchMax THEN "write" ELSE "select"]
    /\ UNCHANGED <<logged, uncounted, queued, written, optVars, fileVars, disk, rot, closing,
                   reader, faults, changes>>

(* A full batch, or the tick of the timer, goes on to writeBatch.          *)
Receive ==
    /\ writer.mode # "exited" /\ writer.pc = "select"
    /\ queue # <<>>
    /\ batch' = Append(batch, Head(queue))
    /\ queue' = Tail(queue)
    /\ timerActive' = (timerActive \/ writer.mode = "loop")
    /\ writer' = [writer EXCEPT !.pc = IF Len(batch') >= BatchMax THEN "write" ELSE "select"]
    /\ UNCHANGED <<logged, uncounted, queued, written, optVars, fileVars, disk, rot, closing,
                   reader, faults, changes>>

TimerFires ==
    /\ writer.mode = "loop" /\ writer.pc = "select"
    /\ timerActive
    /\ timerActive' = FALSE
    /\ writer' = [writer EXCEPT !.pc = IF batch = <<>> THEN "select" ELSE "write"]
    /\ UNCHANGED <<memVars, batch, optVars, fileVars, disk, rot, closing, reader, faults, changes>>

SeeDone ==
    /\ writer = [mode |-> "loop", pc |-> "select"]
    /\ closing
    /\ writer' = [writer EXCEPT !.mode = "drain"]
    /\ UNCHANGED <<memVars, batch, timerActive, optVars, fileVars, disk, rot, closing,
                   reader, faults, changes>>

(* The default case of the drain: one last, partial batch.                 *)
DrainEnds ==
    /\ writer = [mode |-> "drain", pc |-> "select"]
    /\ queue = <<>>
    /\ writer' = IF batch = <<>> THEN [writer EXCEPT !.mode = "exited"]
                                 ELSE [mode |-> "last", pc |-> "write"]
    /\ UNCHANGED <<memVars, batch, timerActive, optVars, fileVars, disk, rot, closing,
                   reader, faults, changes>>

Active == disk[logDir][0]
Checkpoint == prevRaw = <<>> \/ chunksSinceCheckpoint >= CheckpointInterval

(* Mutated form: the first record of a batch is skipped.                   *)
NewFrameDropsFirst(damage) ==
    [recs |-> IF Len(batch) > 1 THEN Tail(batch) ELSE batch,
     dict |-> IF Checkpoint THEN <<>> ELSE prevRaw, damage |-> damage]

NewFrame(damage) ==
    [recs |-> batch, dict |-> IF Checkpoint THEN <<>> ELSE prevRaw, damage |-> damage]
AppendFrame(damage) == disk' = [disk EXCEPT ![logDir][0] = Append(@, NewFrame(damage))]

(* Mutated form: the batch is not emptied.                                 *)
BatchDoneKeepsBatch ==
    /\ written' = written + Len(batch)
    /\ batch' = batch
    /\ timerActive' = FALSE

(* Mutated form: the capacity of the batch is counted, not its length.     *)
BatchDoneCountsCapacity ==
    /\ written' = written + BatchMax
    /\ batch' = <<>>
    /\ timerActive' = FALSE

(* flush() empties the batch whatever became of it.                        *)
BatchDone ==
    /\ written' = written + Len(batch)
    /\ batch' = <<>>
    /\ timerActive' = FALSE

Resume ==
    writer' = [mode |-> IF writer.mode = "last" THEN "exited" ELSE writer.mode, pc |-> "select"]

WriteBatch ==
    /\ writer.pc = "write" /\ rot.pc = "none"
    /\ open
    /\ AppendFrame("none")
    /\ fileSize' = fileSize + 1
    /\ prevRaw' = batch
    /\ chunksSinceCheckpoint' = IF Checkpoint THEN 1 ELSE chunksSinceCheckpoint + 1
    /\ BatchDone
    /\ IF fileSize' >= maxBytes
       THEN rot' = [pc |-> "shift", i |-> backupCount] /\ writer' = [writer EXCEPT !.pc = "rotate"]
       ELSE Resume /\ UNCHANGED rot
    /\ UNCHANGED <<logged, uncounted, queue, queued, optVars, open, closing, reader, faults, changes>>

(* What a reader returns when files are damaged, renamed or closed under it *)
(* is not followed any further: the read counts as done.                  *)
Overlap == reader' = IF reader.pc \in {"list", "scan", "decode"} THEN Reader("done") ELSE reader

(* The write is refused, or stops half way, or l.fh is nil: neither size   *)
(* nor dictionary move, and the records are counted as written.            *)
WriteFails(damage) ==
    /\ writer.pc = "write" /\ rot.pc = "none"
    /\ IF open THEN faults < MaxFaults /\ faults' = faults + 1
               ELSE damage = "none" /\ UNCHANGED faults
    /\ IF damage = "none" THEN UNCHANGED <<disk, reader>> ELSE AppendFrame(damage) /\ Overlap
    /\ BatchDone
    /\ Resume
    /\ UNCHANGED <<logged, uncounted, queue, queued, optVars, fileVars, rot, closing, changes>>

----------------------------------------------------------------------------
(* rotate, called with writeMu held by writeBatch or by Reconfigure.       *)

(* Slot backupCount is removed, the slots below move up, one at a time.    *)
Shift ==
    /\ rot.pc = "shift"
    /\ IF rot.i = backupCount
       THEN disk' = [disk EXCEPT ![logDir][rot.i] = NoFile]
       ELSE IF disk[logDir][rot.i] # NoFile
       THEN disk' = [disk EXCEPT ![logDir][rot.i + 1] = disk[logDir][rot.i],
                                 ![logDir][rot.i] = NoFile]
       ELSE UNCHANGED disk
    /\ rot' = IF rot.i = 1 THEN [pc |-> "archive", i |-> 0] ELSE [rot EXCEPT !.i = @ - 1]
    /\ Overlap
    /\ UNCHANGED <<memVars, runVars, optVars, fileVars, closing, faults, changes>>

Archive ==
    /\ rot.pc = "archive"
    /\ IF Active = NoFile
       THEN UNCHANGED disk
       ELSE disk' = [disk EXCEPT ![logDir][1] = Active, ![logDir][0] = NoFile]
    /\ rot' = [rot EXCEPT !.pc = "reopen"]
    /\ Overlap
    /\ UNCHANGED <<memVars, runVars, optVars, fileVars, closing, faults, changes>>

(* The new segment starts with a checkpoint; without a file l.fh is nil.   *)
Reopen(ok) ==
    /\ rot.pc = "reopen"
    /\ IF ok
       THEN disk' = [disk EXCEPT ![logDir][0] = <<>>] /\ UNCHANGED faults
       ELSE faults < MaxFaults /\ faults' = faults + 1 /\ UNCHANGED disk
    /\ open' = ok
    /\ fileSize' = 0 /\ prevRaw' = <<>> /\ chunksSinceCheckpoint' = 0
    /\ rot' = NoRotation
    /\ IF writer.pc = "rotate" THEN Resume ELSE UNCHANGED writer
    /\ Overlap
    /\ UNCHANGED <<memVars, batch, timerActive, optVars, closing, changes>>

----------------------------------------------------------------------------
(* Reconfigure, from a hot reload.                                         *)

(* O_APPEND and O_CREATE.                                                  *)
Opened(d) == IF disk[d][0] = NoFile THEN <<>> ELSE disk[d][0]

RotateIfFull ==
    rot' = IF fileSize' >= maxBytes' THEN [pc |-> "shift", i |-> backupCount'] ELSE NoRotation

(* Mutated form: the dictionary of the old directory is kept.              *)
ReconfigureKeepsDictionary(d, size, n) ==
    /\ changes < MaxChanges /\ changes' = changes + 1
    /\ rot.pc = "none" /\ ~closing
    /\ maxBytes' = size /\ backupCount' = n
    /\ IF d = logDir
       THEN UNCHANGED <<logDir, fileVars, disk>>
       ELSE /\ logDir' = d
            /\ disk' = [disk EXCEPT ![d][0] = Opened(d)]
            /\ open' = TRUE
            /\ fileSize' = Len(Opened(d))
            /\ UNCHANGED <<prevRaw, chunksSinceCheckpoint>>
    /\ RotateIfFull
    /\ Overlap
    /\ UNCHANGED <<memVars, runVars, closing, faults>>

Reconfigure(d, size, n) ==
    /\ changes < MaxChanges /\ changes' = changes + 1
    /\ rot.pc = "none" /\ ~closing
    /\ maxBytes' = size /\ backupCount' = n
    /\ IF d = logDir
       THEN UNCHANGED <<logDir, fileVars, disk>>
       ELSE /\ logDir' = d
            /\ disk' = [disk EXCEPT ![d][0] = Opened(d)]
            /\ open' = TRUE
            /\ fileSize' = Len(Opened(d))
            /\ prevRaw' = <<>> /\ chunksSinceCheckpoint' = 0
    /\ RotateIfFull
    /\ Overlap
    /\ UNCHANGED <<memVars, runVars, closing, faults>>

(* The new directory cannot be used: the old file is opened again, or not, *)
(* and the dictionary stays, as do the new sizes.                          *)
ReconfigureFails(size, n, reopened) ==
    /\ changes < MaxChanges /\ changes' = changes + 1
    /\ faults < MaxFaults /\ faults' = faults + 1
    /\ rot.pc = "none" /\ ~closing
    /\ maxBytes' = size /\ backupCount' = n
    /\ open' = reopened
    /\ disk' = IF reopened THEN [disk EXCEPT ![logDir][0] = Opened(logDir)] ELSE disk
    /\ Overlap
    /\ UNCHANGED <<memVars, runVars, logDir, fileSize, prevRaw, chunksSinceCheckpoint, rot, closing>>

(* Close closes done; closing the file when run has returned changes       *)
(* nothing that is left.                                                   *)
Close ==
    /\ ~closing
    /\ closing' = TRUE
    /\ UNCHANGED <<memVars, runVars, optVars, fileVars, disk, rot, reader, faults, changes>>

----------------------------------------------------------------------------
(* The process ends, whatever it was doing, and is started again with the  *)
(* options it had: queue, batch and dictionary are gone.                   *)
Restart(damage) ==
    /\ faults < MaxFaults /\ faults' = faults + 1
    /\ damage # "none" => writer.pc = "write" /\ rot.pc = "none" /\ open
    /\ LET left == IF damage = "none" THEN Opened(logDir) ELSE Append(Active, NewFrame(damage))
       IN  disk' = [disk EXCEPT ![logDir][0] = left] /\ fileSize' = Len(left)
    /\ open' = TRUE /\ prevRaw' = <<>> /\ chunksSinceCheckpoint' = 0
    /\ uncounted' = 0 /\ queue' = <<>> /\ queued' = 0 /\ written' = 0
    /\ batch' = <<>> /\ timerActive' = FALSE
    /\ writer' = [mode |-> "loop", pc |-> "select"]
    /\ rot' = NoRotation /\ closing' = FALSE
    /\ Overlap
    /\ UNCHANGED <<logged, optVars, changes>>

----------------------------------------------------------------------------
(* Reading.                                                                *)

(* scanChunkIndex: it stops at the first header it cannot parse, and loses *)
(* its way after a frame that is shorter than its header says.             *)
Indexed(file) ==
    LET torn == {i \in DOMAIN file : file[i].damage # "none"}
        first == CHOOSE i \in torn : \A j \in torn : i <= j
        parses == \/ file[first].damage = "headed"
                  \/ file[first].damage = "part" /\ first < Len(file)
    IN  IF torn = {} THEN file
        ELSE SubSeq(file, 1, IF parses THEN first ELSE first - 1)

(* The payload decompresses with the content of the frame before it.       *)
Decodes(metas, i) ==
    /\ metas[i].damage = "none"
    /\ metas[i].dict # <<>> => i > 1 /\ metas[i].dict = metas[i - 1].recs

GroupStart(metas, i) ==
    CHOOSE s \in 1 .. i :
        /\ s = 1 \/ metas[s].dict = <<>>
        /\ \A j \in s + 1 .. i : metas[j].dict # <<>>

(* readSegmentReversed walks the checkpoint groups from the last one and   *)
(* gives up at the first that does not decode as a whole.                  *)
Yielded(metas) ==
    {i \in DOMAIN metas : \A j \in GroupStart(metas, i) .. Len(metas) : Decodes(metas, j)}

Content(frames) == FlattenSeq([i \in DOMAIN frames |-> frames[i].recs])

NewestFirst(metas) ==
    LET kept == Yielded(metas)
    IN  Reverse(Content(SubSeq(metas, Len(metas) + 1 - Cardinality(kept), Len(metas))))

Readable(file) == IF file = NoFile THEN {} ELSE ToSet(NewestFirst(Indexed(file)))

(* History: the records on undamaged files that a reader starting now can  *)
(* find, as long as no slot is missing.                                    *)
Reachable(d, n) ==
    LET sound == {i \in 0 .. n : /\ disk[d][i] # NoFile
                                 /\ \A j \in DOMAIN disk[d][i] : disk[d][i][j].damage = "none"
                                 /\ \A j \in 1 .. i : disk[d][j] # NoFile}
    IN  UNION {ToSet(Content(disk[d][i])) : i \in sound}

BeginRead ==
    /\ reader.pc = "idle" /\ rot.pc = "none"
    /\ reader' = [Reader("list") EXCEPT !.n = backupCount, !.due = Reachable(logDir, backupCount)]
    /\ UNCHANGED <<memVars, runVars, optVars, fileVars, disk, rot, closing, faults, changes>>

(* Mutated form: the oldest backup is not listed.                          *)
ListAllButOldest ==
    /\ reader.pc = "list"
    /\ LET exists(i) == disk[logDir][i] # NoFile
           last == CHOOSE m \in 0 .. reader.n - 1 :
                      /\ \A i \in 1 .. m : exists(i)
                      /\ m < reader.n - 1 => ~exists(m + 1)
       IN  reader' = [reader EXCEPT !.pc = "scan",
                        !.paths = (IF exists(0) THEN <<0>> ELSE <<>>) \o [i \in 1 .. last |-> i]]
    /\ UNCHANGED <<memVars, runVars, optVars, fileVars, disk, rot, closing, faults, changes>>

(* The calls of os.Stat: the first backup that is missing ends the list.   *)
List ==
    /\ reader.pc = "list"
    /\ LET exists(i) == disk[logDir][i] # NoFile
           last == CHOOSE m \in 0 .. reader.n :
                      /\ \A i \in 1 .. m : exists(i)
                      /\ m < reader.n => ~exists(m + 1)
       IN  reader' = [reader EXCEPT !.pc = "scan",
                        !.paths = (IF exists(0) THEN <<0>> ELSE <<>>) \o [i \in 1 .. last |-> i]]
    /\ UNCHANGED <<memVars, runVars, optVars, fileVars, disk, rot, closing, faults, changes>>

ScanIndex ==
    /\ reader.pc = "scan" /\ reader.paths # <<>>
    /\ LET file == disk[logDir][Head(reader.paths)]
       IN  reader' = IF file = NoFile \/ Indexed(file) = <<>>
                     THEN [reader EXCEPT !.paths = Tail(@)]
                     ELSE [reader EXCEPT !.pc = "decode", !.metas = Indexed(file)]
    /\ UNCHANGED <<memVars, runVars, optVars, fileVars, disk, rot, closing, faults, changes>>

ReadDone ==
    /\ reader.pc = "scan" /\ reader.paths = <<>>
    /\ reader' = Reader("done")
    /\ UNCHANGED <<memVars, runVars, optVars, fileVars, disk, rot, closing, faults, changes>>

(* The path is opened a second time: another file has other payloads at    *)
(* the offsets of the index.                                               *)
Decode ==
    /\ reader.pc = "decode"
    /\ LET file == disk[logDir][Head(reader.paths)]
           same == file # NoFile /\ IsPrefix(reader.metas, file)
       IN  reader' = [reader EXCEPT !.pc = "scan", !.paths = Tail(@), !.metas = <<>>,
                                    !.out = IF same THEN @ \o NewestFirst(reader.metas) ELSE @]
    /\ UNCHANGED <<memVars, runVars, optVars, fileVars, disk, rot, closing, faults, changes>>

----------------------------------------------------------------------------
WriterStep ==
    \/ Receive \/ TimerFires \/ SeeDone \/ DrainEnds
    \/ WriteBatch
    \/ \E damage \in Damage : WriteFails(damage)

RotationStep == Shift \/ Archive \/ \E ok \in BOOLEAN : Reopen(ok)

ReaderStep == BeginRead \/ List \/ ScanIndex \/ Decode \/ ReadDone

Next ==
    \/ Log \/ Count
    \/ WriterStep \/ RotationStep \/ ReaderStep
    \/ \E d \in Dirs, size \in Sizes, n \in BackupCounts : Reconfigure(d, size, n)
    \/ \E size \in Sizes, n \in BackupCounts, reopened \in BOOLEAN :
          ReconfigureFails(size, n, reopened)
    \/ Close
    \/ \E damage \in Damage : Restart(damage)

(* The writer goroutine runs, and its timer fires.                         *)
Fairness == WF_vars(WriterStep) /\ WF_vars(RotationStep)

Spec == Init /\ [][Next]_vars /\ Fairness

----------------------------------------------------------------------------
(* Properties.                                                             *)

InMemory == ToSet(queue) \cup ToSet(batch)

OnDisk ==
    {r \in Records : \E d \in Dirs, i \in Slots :
        /\ disk[d][i] # NoFile
        /\ \E j \in DOMAIN disk[d][i] :
               disk[d][i][j].damage = "none" /\ r \in ToSet(disk[d][i][j].recs)}

Promise == INSTANCE AppendLog WITH calls <- logged, pending <- InMemory, kept <- OnDisk

(* Batches, drains, renames, directory changes, failed writes and restarts *)
(* keep the promise of AppendLog: accepted records leave memory once and   *)
(* in order, none comes back, and only a whole batch is ever lost.         *)
KeepsPromise == Promise!Spec

(* A segment without damage is read whole, newest record first, whichever   *)
(* process, rotation or reconfiguration began it and however often it was  *)
(* reopened: no frame depends on content that is not in the frame before.  *)
UndamagedIsReadable ==
    \A d \in Dirs, i \in Slots :
        LET file == disk[d][i]
        IN  (file # NoFile /\ \A j \in DOMAIN file : file[j].damage = "none") =>
                NewestFirst(Indexed(file)) = Reverse(Content(file))

Rising(s) == \A a, b \in DOMAIN s : a < b => s[a] < s[b]
Precedes(s, t) == \A a \in DOMAIN s, b \in DOMAIN t : s[a] < t[b]

(* A directory holds its records in the order of acceptance, oldest in the *)
(* highest slot, none of them twice, also half way through a rotation, and *)
(* frames that were cut short keep their place.                            *)
OldestToNewest ==
    \A d \in Dirs, i, k \in Slots :
        (disk[d][i] # NoFile /\ disk[d][k] # NoFile) =>
            \A p \in DOMAIN disk[d][i], q \in DOMAIN disk[d][k] :
                /\ Rising(disk[d][i][p].recs)
                /\ (i > k \/ (i = k /\ p < q)) => Precedes(disk[d][i][p].recs, disk[d][k][q].recs)

(* Flush with no call of Log under way returns early only when nothing is  *)
(* left in memory: the counters survive failed writes and partial batches. *)
FlushLeavesNothing ==
    (FlushDone /\ uncounted = 0) => (queue = <<>> /\ batch = <<>>)

(* A reader that no rotation, reconfiguration or restart overlaps returns  *)
(* every record on the undamaged segments, newest first and none twice,    *)
(* although batches are appended under its hands.                          *)
QuietReadIsComplete ==
    [][ReadDone =>
         /\ reader.due \subseteq ToSet(reader.out)
         /\ \A j, k \in DOMAIN reader.out : j < k => reader.out[j] > reader.out[k]]_vars

(* No record waits in memory for good: a quiet period, a partial batch, a  *)
(* failed write and Close all end its wait.                                *)
NothingWaitsForever ==
    \A r \in Records : (r \in InMemory) ~> (r \notin InMemory \/ writer.mode = "exited")

(* What the comment on scanChunkIndex (segment.go:34) and the test         *)
(* TestNewToleratesCrashMidChunkWrite (logger_test.go:304) say: when a     *)
(* chunk was partially written, everything before it is still readable.    *)
BeforeDamageIsReadable ==
    \A d \in Dirs, i \in Slots :
        LET file == disk[d][i]
        IN  file # NoFile =>
                \A j \in DOMAIN file :
                    (\A k \in 1 .. j : file[k].damage = "none") =>
                        ToSet(file[j].recs) \subseteq Readable(file)
=============================================================================
