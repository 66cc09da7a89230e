------------------------- MODULE RawPipelineProofs -------------------------
(***************************************************************************)
(* Proofs about RawPipeline: type correctness, what a resumed download may *)
(* leave out, and the records of an archive that is cleaned in place.      *)
(***************************************************************************)
EXTENDS RawPipeline, FiniteSetTheorems, TLAPS

-----------------------------------------------------------------------------
(***************************************************************************)
(* Type correctness, one part of the state at a time.                      *)
(***************************************************************************)

\* All parts are well typed before anything was run.
LEMMA TypeInit == Init => TypeOK
<1> SUFFICES ASSUME Init PROVE TypeOK
  OBVIOUS
<1> USE DEF Init
<1>1. FilesOK
  BY DEF InitFiles, FilesOK
<1>2. DownloadOK
  <2>1. Cardinality({}) = 0
    BY FS_EmptySet
  <2> QED
    BY <2>1, CapacityAssumption DEF DownloadOK, NoRun, NoWorkers, WorkerStates
<1>3. ConvertOK
  BY DEF ConvertOK, NoConv, NoFiles, FileStates
<1>4. ArchiveOK
  BY DEF InitArchive, ArchiveOK, NoClean
<1> QED
  BY <1>1, <1>2, <1>3, <1>4 DEF TypeOK

\* Taking a game out of the queue makes it no longer, and putting one in
\* makes it longer by one at most.
LEMMA QueueLength ==
  ASSUME NEW Q \in SUBSET Uuids, NEW u
  PROVE  /\ Cardinality(Q) \in Nat
         /\ Cardinality(Q \ {u}) \in Nat /\ Cardinality(Q \ {u}) <= Cardinality(Q)
         /\ Cardinality(Q \cup {u}) \in Nat
         /\ Cardinality(Q \cup {u}) <= Cardinality(Q) + 1
<1>1. IsFiniteSet(Q)
  BY UuidsAssumption, FS_Subset
<1>2. Cardinality(Q) \in Nat
  BY <1>1, FS_CardinalityType
<1>3. IsFiniteSet(Q \ {u}) /\ Cardinality(Q \ {u}) <= Cardinality(Q)
  BY <1>1, FS_Subset, Q \ {u} \in SUBSET Q
<1>4. IsFiniteSet(Q \cup {u}) /\ Cardinality(Q \cup {u}) <= Cardinality(Q) + 1
  <2>1. /\ IsFiniteSet(Q \cup {u})
        /\ Cardinality(Q \cup {u}) = IF u \in Q THEN Cardinality(Q) ELSE Cardinality(Q) + 1
    BY <1>1, FS_AddElement, Zenon
  <2> QED
    BY <1>2, <2>1
<1> QED
  BY <1>2, <1>3, <1>4, FS_CardinalityType

\* The lines that are appended, or the one that is cut, are those of uuids.
LEMMA AppendTyped ==
  ASSUME FilesOK, NEW us \in SUBSET Uuids, AppendLines(us)
  PROVE  completed' \subseteq Uuids /\ torn' \in BOOLEAN /\ tail' = {}
BY DEF AppendLines, FilesOK

LEMMA CutTyped ==
  ASSUME FilesOK, NEW u \in Uuids, CutLine(u)
  PROVE  /\ completed' \subseteq Uuids /\ torn' \in BOOLEAN
         /\ tail' \subseteq Uuids /\ \A v, w \in tail' : v = w
         /\ tail' # {} => torn'
<1>1. CASE UNCHANGED <<torn, tail>>
  BY <1>1 DEF CutLine, FilesOK
<1>2. CASE torn' = TRUE /\ tail' \in {{}} \cup (IF torn THEN {} ELSE {{u}})
  <2>1. tail' = {} \/ tail' = {u}
    BY <1>2
  <2> QED
    BY <1>2, <2>1 DEF CutLine, FilesOK
<1> QED
  BY <1>1, <1>2 DEF CutLine

\* A step of a worker keeps the files and the run well typed.
LEMMA WorkerTyped ==
  ASSUME FilesOK, DownloadOK, NEW w \in Workers, WorkerStep(w)
  PROVE  FilesOK' /\ DownloadOK'
<1> USE UuidsAssumption, CapacityAssumption DEF DownloadOK, WorkerStates
<1>1. ASSUME NEW ok \in BOOLEAN, LogIn(w, ok) PROVE FilesOK' /\ DownloadOK'
  BY <1>1 DEF LogIn, Goes, files, journalFile, FilesOK
<1>2. ASSUME NEW u \in Uuids, Take(w, u) PROVE FilesOK' /\ DownloadOK'
  <2>1. Cardinality(run.queue \ {u}) <= Cardinality(run.queue)
        /\ Cardinality(run.queue \ {u}) \in Nat /\ Cardinality(run.queue) \in Nat
    BY QueueLength
  <2>2. Cardinality(run'.queue) <= Capacity \/ run'.tool = "async"
    BY <1>2, <2>1 DEF Take
  <2>3. /\ run' \in [tool : {"none", "raw", "async"}, stage : {"idle", "login", "feed", "drain"},
                     todo : SUBSET Uuids, queue : SUBSET Uuids, journal : SUBSET Uuids,
                     writer : BOOLEAN]
        /\ worker' \in [Workers -> [state : WorkerStates, uuid : Uuids \cup {None}]]
    BY <1>2 DEF Take
  <2>4. \A v \in Workers :
          worker'[v].uuid # None <=> worker'[v].state \in {"asked", "written", "stored"}
    BY <1>2 DEF Take
  <2> QED
    BY <1>2, <2>2, <2>3, <2>4 DEF Take, files, journalFile, FilesOK
<1>3. CASE Write(w)
  <2>1. worker[w].uuid \in Uuids
    BY <1>3 DEF Write
  <2> QED
    BY <1>3, <2>1 DEF Write, Goes, journalFile, FilesOK
<1>4. CASE Miss(w)
  BY <1>4 DEF Miss, IsDone, files, journalFile, FilesOK
<1>5. CASE Rename(w)
  <2>1. worker[w].uuid \in Uuids
    BY <1>5 DEF Rename
  <2>2. Moved(w) \subseteq Uuids \X {"pb", "tmp", "json"}
    BY <2>1 DEF Moved, Stored, FilesOK
  <2> QED
    BY <1>5, <2>2 DEF Rename, Goes, journalFile, FilesOK
<1>6. CASE RenameFails(w)
  BY <1>6 DEF RenameFails, IsDone, journalFile, FilesOK
<1>7. CASE Record(w)
  <2>1. worker[w].uuid \in Uuids
    BY <1>7 DEF Record
  <2> QED
    BY <1>7, <2>1 DEF Record, IsDone, files, journalFile, FilesOK
<1>8. CASE MarkDone(w)
  <2>1. run.journal \cup {worker[w].uuid} \in SUBSET Uuids
    BY <1>8 DEF MarkDone
  <2>2. completed' \subseteq Uuids /\ torn' \in BOOLEAN /\ tail' = {}
    BY <1>8, <2>1, AppendTyped DEF MarkDone
  <2>3. FilesOK'
    BY <1>8, <2>2 DEF MarkDone, FilesOK
  <2> QED
    BY <1>8, <2>3 DEF MarkDone, IsDone
<1>9. CASE MarkDoneFails(w)
  <2>1. worker[w].uuid \in Uuids
    BY <1>9 DEF MarkDoneFails
  <2> QED
    BY <1>9, <2>1 DEF MarkDoneFails, IsDone, files, journalFile, FilesOK
<1>10. CASE Leave(w)
  BY <1>10 DEF Leave, IsDone, files, journalFile, FilesOK
<1> QED
  BY <1>1, <1>2, <1>3, <1>4, <1>5, <1>6, <1>7, <1>8, <1>9, <1>10 DEF WorkerStep

\* A step of the main task, of the journal writer, or of the buffer that
\* journal.close writes.
LEMMA MainTyped ==
  ASSUME FilesOK, DownloadOK, MainStep PROVE FilesOK' /\ DownloadOK'
<1> USE UuidsAssumption, CapacityAssumption DEF DownloadOK, WorkerStates
<1>1. Cardinality({}) = 0
  BY FS_EmptySet
<1>2. CASE NoLogin
  BY <1>1, <1>2 DEF NoLogin, NoRun, files, journalFile, FilesOK
<1>3. CASE BeginFeed
  <2>1. CASE run.tool = "raw"
    BY <1>3, <2>1 DEF BeginFeed, files, journalFile, FilesOK
  <2>2. CASE run.tool # "raw"
    <3>1. run.tool = "async"
      BY <1>3, <2>2 DEF BeginFeed
    <3> QED
      BY <1>3, <3>1 DEF BeginFeed, files, journalFile, FilesOK
  <2> QED
    BY <2>1, <2>2
<1>4. ASSUME NEW u \in Uuids, Feed(u) PROVE FilesOK' /\ DownloadOK'
  <2>1. Cardinality(run.queue) < Capacity /\ run' = [run EXCEPT !.todo = @ \ {u}, !.queue = @ \cup {u}]
    BY <1>4 DEF Feed
  <2>2. Cardinality(run.queue \cup {u}) <= Cardinality(run.queue) + 1
        /\ Cardinality(run.queue \cup {u}) \in Nat /\ Cardinality(run.queue) \in Nat
    BY QueueLength
  <2>3. run'.queue = run.queue \cup {u}
    BY <2>1
  <2>4. Cardinality(run'.queue) <= Capacity
    BY <2>1, <2>2, <2>3
  <2>5. /\ run' \in [tool : {"none", "raw", "async"}, stage : {"idle", "login", "feed", "drain"},
                     todo : SUBSET Uuids, queue : SUBSET Uuids, journal : SUBSET Uuids,
                     writer : BOOLEAN]
        /\ run'.tool = run.tool /\ run'.stage = run.stage
    BY <2>1
  <2> QED
    BY <1>4, <2>4, <2>5 DEF Feed, files, journalFile, FilesOK
<1>5. CASE CloseFeed
  BY <1>5 DEF CloseFeed, files, journalFile, FilesOK
<1>6. ASSUME NEW u \in Uuids, JournalLine(u) PROVE FilesOK' /\ DownloadOK'
  <2>1. completed' \subseteq Uuids /\ torn' \in BOOLEAN /\ tail' = {}
    BY <1>6, AppendTyped, {u} \in SUBSET Uuids DEF JournalLine
  <2> QED
    BY <1>6, <2>1 DEF JournalLine, FilesOK
<1>7. CASE JournalFails
  <2>1. PICK u \in run.journal : CutLine(u)
    BY <1>7 DEF JournalFails
  <2>2. u \in Uuids
    OBVIOUS
  <2>3. /\ completed' \subseteq Uuids /\ torn' \in BOOLEAN
        /\ tail' \subseteq Uuids /\ \A v, w \in tail' : v = w
        /\ tail' # {} => torn'
    BY <2>1, <2>2, CutTyped
  <2>4. FilesOK'
    BY <1>7, <2>3 DEF JournalFails, FilesOK
  <2> QED
    BY <1>7, <2>4 DEF JournalFails
<1>8. CASE End
  BY <1>1, <1>8 DEF End, NoRun, NoWorkers, files, journalFile, FilesOK
<1> QED
  BY <1>2, <1>3, <1>4, <1>5, <1>6, <1>7, <1>8 DEF MainStep

\* The start of a download, and its end by a kill.
LEMMA StartTyped ==
  ASSUME FilesOK, DownloadOK, scenario \in Scenarios, DownloadStart
  PROVE  FilesOK' /\ DownloadOK'
<1>1. PICK tool \in {"raw", "async"}, n \in Limits, scan \in BOOLEAN : Start(tool, n, scan)
  BY DEF DownloadStart
<1> DEFINE todo == FirstN(scenario.todo \ Done(tool, scan), n)
<1>2. todo \in SUBSET Uuids
  BY ScenariosAssumption DEF FirstN
<1>3. UNCHANGED files
  BY <1>1 DEF Start
<1>4. CASE todo = {}
  BY <1>1, <1>3, <1>4 DEF Start, downloadVars, files, journalFile, FilesOK, DownloadOK
<1>5. CASE todo # {}
  <2>1. /\ run' = [NoRun EXCEPT !.tool = tool, !.stage = "login", !.todo = todo]
        /\ worker' = [w \in Workers |-> [state |-> "login", uuid |-> None]]
    BY <1>1, <1>5 DEF Start
  <2>2. Cardinality({}) <= Capacity
    BY FS_EmptySet, CapacityAssumption
  <2> HIDE DEF todo
  <2>3. DownloadOK'
    BY <1>2, <2>1, <2>2, CapacityAssumption DEF DownloadOK, NoRun, WorkerStates
  <2> QED
    BY <1>3, <2>3 DEF files, journalFile, FilesOK
<1> QED
  BY <1>4, <1>5

LEMMA KilledTyped ==
  ASSUME FilesOK, DownloadOK, Killed PROVE FilesOK' /\ DownloadOK'
<1>1. DownloadOK'
  <2>1. Cardinality({}) = 0
    BY FS_EmptySet
  <2> QED
    BY <2>1, CapacityAssumption DEF Killed, DownloadOK, NoRun, NoWorkers, WorkerStates
<1>2. /\ completed' \subseteq Uuids /\ torn' \in BOOLEAN
      /\ tail' \subseteq Uuids /\ \A v, w \in tail' : v = w
      /\ tail' # {} => torn'
  <2>1. CASE UNCHANGED journalFile
    BY <2>1 DEF journalFile, FilesOK
  <2>2. ASSUME NEW u \in BeingMarked, CutLine(u)
        PROVE  /\ completed' \subseteq Uuids /\ torn' \in BOOLEAN
               /\ tail' \subseteq Uuids /\ \A v, w \in tail' : v = w
               /\ tail' # {} => torn'
    <3>1. u \in Uuids
      BY DEF BeingMarked, DownloadOK
    <3> QED
      BY <2>2, <3>1, CutTyped
  <2> QED
    BY <2>1, <2>2 DEF Killed
<1>3. records' \subseteq Uuids \X {"pb", "tmp", "json"}
  BY DEF Killed, FilesOK, DownloadOK
<1> QED
  BY <1>1, <1>2, <1>3 DEF Killed, FilesOK

\* A step of a converter.
LEMMA ConvertTyped ==
  ASSUME FilesOK, ConvertOK, scenario \in Scenarios, Convert
  PROVE  FilesOK' /\ ConvertOK'
<1> USE DEF ConvertOK, FileStates, NoFiles, NoConv, FileGoes, files, journalFile, FilesOK
<1>1. ASSUME NEW tool \in scenario.converters, ConvertStart(tool)
      PROVE  FilesOK' /\ ConvertOK'
  BY <1>1, ScenariosAssumption DEF ConvertStart
<1>2. CASE Rescan
  BY <1>2 DEF Rescan
<1>3. ASSUME NEW f \in Convertible, FileStep(f) PROVE FilesOK' /\ ConvertOK'
  BY <1>3 DEF FileStep, Create, Undecoded, WriteOutput, WriteFails, DeleteRecord, DeleteFails
<1>4. CASE ConvertEnd
  BY <1>4 DEF ConvertEnd
<1>5. CASE ConvertKilled
  BY <1>5 DEF ConvertKilled
<1> QED
  BY <1>1, <1>2, <1>3, <1>4, <1>5 DEF Convert

\* A step of the cleaning of an archive.
LEMMA CleanTyped == ASSUME ArchiveOK, CleanStep PROVE ArchiveOK'
BY ArchiveAssumption
   DEF ArchiveOK, NoClean, CleanStep, CleanStart, CleanRecord, CleanFails, Replace,
       CopyStart, CopyRecord, CopyEnd, CleanKilled

LEMMA TypeStep == TypeOK /\ [Next]_vars => TypeOK'
<1> SUFFICES ASSUME TypeOK, [Next]_vars PROVE TypeOK'
  OBVIOUS
<1> USE DEF TypeOK
<1>1. CASE Download
  <2>1. UNCHANGED <<scenario, conv, archiveVars>>
    BY <1>1 DEF Download
  <2>2. FilesOK' /\ DownloadOK'
    BY <1>1, StartTyped, MainTyped, KilledTyped, WorkerTyped DEF Download
  <2> QED
    BY <2>1, <2>2 DEF ConvertOK, ArchiveOK, archiveVars
<1>2. CASE Convert
  <2>1. UNCHANGED <<scenario, downloadVars, archiveVars>>
    BY <1>2 DEF Convert
  <2> QED
    BY <1>2, <2>1, ConvertTyped DEF DownloadOK, downloadVars, ArchiveOK, archiveVars
<1>3. CASE Clean
  <2>1. ArchiveOK' /\ UNCHANGED <<scenario, files, downloadVars, conv>>
    BY <1>3, CleanTyped DEF Clean
  <2> QED
    BY <2>1 DEF FilesOK, files, journalFile, DownloadOK, downloadVars, ConvertOK
<1>4. CASE UNCHANGED vars
  BY <1>4 DEF vars, FilesOK, files, journalFile, DownloadOK, downloadVars, ConvertOK,
              ArchiveOK, archiveVars
<1> QED
  BY <1>1, <1>2, <1>3, <1>4 DEF Next

\* The downloads, the converters and the validator keep their state well
\* typed, whatever fails or is killed; the channel of raw-download never
\* holds more than its capacity (raw_download.rs:33).
THEOREM RawTypeCorrect == Spec => []TypeOK
<1>1. QED
  BY TypeInit, TypeStep, PTL DEF Spec

-----------------------------------------------------------------------------
(***************************************************************************)
(* What a download leaves out.  RecordKept and PartHasRecord are not       *)
(* inductive: a game gets into the journal some steps after its record is  *)
(* stored, and a converter deletes a record some steps after its output is *)
(* written.  RecordInv says what holds in between.                         *)
(***************************************************************************)

\* A game is kept as a record or as a converted game.
Kept(u) ==
  \/ <<u, "pb">> \in records
  \/ <<u, "json">> \in records
  \/ outputs[<<u, "pb">>] = "whole"

\* Whatever has, or is about to get, a line in the journal is kept.
JournalKept ==
  /\ \A u \in completed \cup tail \cup run.journal : Kept(u)
  /\ \A w \in Workers : worker[w].state = "stored" => Kept(worker[w].uuid)

\* What a converter has in hand is what it has written of it.
OutputInHand ==
  \A f \in Convertible :
    /\ conv.file[f] = "writing" => outputs[f] = "part"
    /\ conv.file[f] = "written" => outputs[f] = "whole"

RecordInv == JournalKept /\ OutputInHand /\ PartHasRecord

LEMMA RecordInit == Init => RecordInv
<1> SUFFICES ASSUME Init PROVE RecordInv
  OBVIOUS
<1>1. JournalKept
  BY DEF Init, InitFiles, JournalKept, NoRun, NoWorkers
<1>2. OutputInHand
  BY DEF Init, OutputInHand, NoConv, NoFiles
<1>3. PartHasRecord
  BY DEF Init, InitFiles, PartHasRecord, Convertible
<1> QED
  BY <1>1, <1>2, <1>3 DEF RecordInv

\* RecordKept is what RecordInv says of the journal and the disk.
LEMMA RecordInvKept == TypeOK /\ RecordInv => RecordKept
BY DEF RecordInv, JournalKept, RecordKept, Kept, Done, OnDisk, TypeOK, FilesOK

\* A step that takes no record of a .pb or .json file away, and that turns no
\* whole output into less, keeps what is kept.
LEMMA KeptStable ==
  ASSUME TypeOK, NEW u \in Uuids, Kept(u),
         <<u, "pb">> \in records => <<u, "pb">> \in records',
         <<u, "json">> \in records => <<u, "json">> \in records',
         outputs[<<u, "pb">>] = "whole" => outputs'[<<u, "pb">>] = "whole"
  PROVE  Kept(u)'
BY DEF Kept

\* Appended lines are those of the games that are given, and of those that
\* have a line already.
LEMMA AppendedLines ==
  ASSUME NEW us, AppendLines(us)
  PROVE  completed' \cup tail' \subseteq completed \cup us
BY DEF AppendLines

LEMMA CutLines ==
  ASSUME NEW u, CutLine(u)
  PROVE  completed' \cup tail' \subseteq completed \cup tail \cup {u}
BY DEF CutLine

\* A step of a download journals only what it has stored, and takes only
\* temporary files away.
LEMMA DownloadKeeps ==
  ASSUME TypeOK, RecordInv, Download PROVE RecordInv'
<1> USE DEF RecordInv
<1>1. UNCHANGED <<outputs, conv>>
  BY DEF Download, DownloadStart, MainStep, WorkerStep, Killed, Start, NoLogin, BeginFeed,
         Feed, CloseFeed, JournalLine, JournalFails, End, LogIn, Take, Write, Miss, Rename,
         RenameFails, Record, MarkDone, MarkDoneFails, Leave, files
<1>2. \A u \in Uuids, kind \in {"pb", "json"} :
        <<u, kind>> \in records => <<u, kind>> \in records'
  BY DEF Download, DownloadStart, MainStep, WorkerStep, Killed, Start, NoLogin, BeginFeed,
         Feed, CloseFeed, JournalLine, JournalFails, End, LogIn, Take, Write, Miss, Rename,
         RenameFails, Record, MarkDone, MarkDoneFails, Leave, files, Moved
<1>3. OutputInHand' /\ PartHasRecord'
  BY <1>1, <1>2 DEF OutputInHand, PartHasRecord
<1>4. \A u \in Uuids : Kept(u) => Kept(u)'
  BY <1>1, <1>2, KeptStable
<1>5. JournalKept'
  <2> USE DEF TypeOK, FilesOK, DownloadOK
  <2>1. completed' \cup tail' \cup run'.journal \subseteq Uuids
        /\ \A w \in Workers : worker'[w].state = "stored" => worker'[w].uuid \in Uuids
    <3>1. TypeOK'
      BY TypeStep DEF Next
    <3> QED
      BY <3>1
  <2>2. CASE UNCHANGED <<completed, tail>> /\ run'.journal \subseteq run.journal
             /\ \A w \in Workers : worker'[w].state = "stored" => worker'[w] = worker[w]
    BY <2>1, <2>2, <1>4 DEF JournalKept
  <2>3. ASSUME DownloadStart PROVE JournalKept'
    <3>1. PICK tool \in {"raw", "async"}, n \in Limits, scan \in BOOLEAN : Start(tool, n, scan)
      BY <2>3 DEF DownloadStart
    <3>2. UNCHANGED <<completed, tail>>
      BY <3>1 DEF Start, files, journalFile
    <3>3. CASE UNCHANGED downloadVars
      BY <3>2, <3>3, <2>2 DEF downloadVars
    <3>4. CASE /\ run'.journal = {}
               /\ worker' = [w \in Workers |-> [state |-> "login", uuid |-> None]]
      BY <3>2, <3>4, <2>2
    <3> QED
      BY <3>1, <3>3, <3>4 DEF Start, NoRun
  <2>4. CASE MainStep
    <3>1. ASSUME NEW u \in Uuids, JournalLine(u) PROVE JournalKept'
      <4>1. completed' \cup tail' \subseteq completed \cup {u} /\ u \in run.journal
            /\ run'.journal \subseteq run.journal /\ UNCHANGED worker
        BY <3>1, AppendedLines DEF JournalLine
      <4> QED
        BY <4>1, <2>1, <1>4 DEF JournalKept
    <3>2. CASE JournalFails
      <4>1. PICK u \in run.journal : CutLine(u)
        BY <3>2 DEF JournalFails
      <4>2. completed' \cup tail' \subseteq completed \cup tail \cup {u}
            /\ run'.journal = {} /\ UNCHANGED worker
        BY <3>2, <4>1, CutLines DEF JournalFails
      <4> QED
        BY <4>1, <4>2, <2>1, <1>4 DEF JournalKept
    <3>3. CASE NoLogin
      BY <2>2, <3>3 DEF NoLogin, NoRun, files, journalFile
    <3>4. CASE BeginFeed
      BY <2>2, <3>4 DEF BeginFeed, files, journalFile
    <3>5. ASSUME NEW u \in Uuids, Feed(u) PROVE JournalKept'
      BY <2>2, <3>5 DEF Feed, files, journalFile
    <3>6. CASE CloseFeed
      BY <2>2, <3>6 DEF CloseFeed, files, journalFile
    <3>7. CASE End
      BY <2>2, <3>7 DEF End, NoRun, NoWorkers, files, journalFile
    <3> QED
      BY <2>4, <3>1, <3>2, <3>3, <3>4, <3>5, <3>6, <3>7 DEF MainStep
  <2>5. CASE Killed
    <3>1. run'.journal = {} /\ \A w \in Workers : worker'[w].state # "stored"
      BY <2>5 DEF Killed, NoRun, NoWorkers
    <3>2. CASE UNCHANGED journalFile
      BY <3>1, <3>2, <2>2 DEF journalFile
    <3>3. ASSUME NEW u \in BeingMarked, CutLine(u) PROVE JournalKept'
      <4>1. u \in Uuids /\ Kept(u)
        BY DEF BeingMarked, JournalKept
      <4>2. completed' \cup tail' \subseteq completed \cup tail \cup {u}
        BY <3>3, CutLines
      <4> QED
        BY <3>1, <4>1, <4>2, <2>1, <1>4 DEF JournalKept
    <3> QED
      BY <2>5, <3>2, <3>3 DEF Killed
  <2>6. ASSUME NEW w \in Workers, WorkerStep(w) PROVE JournalKept'
    <3>1. CASE Rename(w)
      <4>1. worker'[w].uuid = worker[w].uuid /\ worker[w].uuid \in Uuids
        BY <3>1 DEF Rename, Goes
      <4>2. Kept(worker[w].uuid)'
        BY <3>1, <4>1 DEF Rename, Moved, Stored, Kept
      <4>3. UNCHANGED <<completed, tail, run>>
            /\ \A v \in Workers \ {w} : worker'[v] = worker[v]
        BY <3>1 DEF Rename, Goes, journalFile
      <4> QED
        BY <4>1, <4>2, <4>3, <2>1, <1>4 DEF JournalKept
    <3>2. CASE Record(w) \/ MarkDoneFails(w)
      <4>1. UNCHANGED <<completed, tail>>
            /\ run'.journal \subseteq run.journal \cup {worker[w].uuid}
            /\ worker[w].state = "stored" /\ worker'[w].state # "stored"
            /\ \A v \in Workers \ {w} : worker'[v] = worker[v]
        BY <3>2 DEF Record, MarkDoneFails, IsDone, files, journalFile
      <4> QED
        BY <4>1, <2>1, <1>4 DEF JournalKept
    <3>3. CASE MarkDone(w)
      <4>1. completed' \cup tail' \subseteq completed \cup run.journal \cup {worker[w].uuid}
            /\ run'.journal = {}
            /\ worker[w].state = "stored" /\ worker'[w].state # "stored"
            /\ \A v \in Workers \ {w} : worker'[v] = worker[v]
        BY <3>3, AppendedLines DEF MarkDone, IsDone
      <4> QED
        BY <4>1, <2>1, <1>4 DEF JournalKept
    <3> QED
      BY <2>2, <2>6, <3>1, <3>2, <3>3
         DEF WorkerStep, LogIn, Take, Write, Miss, RenameFails, Leave, Goes, IsDone, files,
             journalFile
  <2> QED
    BY <2>3, <2>4, <2>5, <2>6 DEF Download
<1> QED
  BY <1>3, <1>5

\* A converter deletes a record only when its output is whole, and cuts an
\* output off only while the record is there.
LEMMA ConvertKeeps ==
  ASSUME TypeOK, RecordInv, Convert PROVE RecordInv'
<1> USE DEF RecordInv, TypeOK, FilesOK, ConvertOK
<1>1. UNCHANGED <<completed, tail, run, worker>>
  BY DEF Convert, ConvertStart, Rescan, FileStep, Create, Undecoded, WriteOutput, WriteFails,
         DeleteRecord, DeleteFails, ConvertEnd, ConvertKilled, files, journalFile, downloadVars
<1>2. ASSUME NEW f \in Convertible, FileStep(f)
      PROVE  /\ OutputInHand' /\ PartHasRecord'
             /\ \A u \in Uuids : Kept(u) => Kept(u)'
  <2> USE DEF OutputInHand, PartHasRecord, Kept, FileGoes, FileStates
  <2>1. CASE Create(f)
    BY <1>2, <2>1 DEF Create, journalFile
  <2>2. CASE Undecoded(f)
    BY <1>2, <2>2 DEF Undecoded, files
  <2>3. CASE WriteOutput(f)
    BY <1>2, <2>3 DEF WriteOutput
  <2>4. CASE WriteFails(f)
    BY <1>2, <2>4 DEF WriteFails
  <2>5. CASE DeleteRecord(f)
    <3>1. /\ conv.file[f] = "written" /\ outputs[f] = "whole" /\ UNCHANGED outputs
          /\ conv' = [conv EXCEPT !.file[f] = "other"]
          /\ records \ {f} \subseteq records'
      BY <1>2, <2>5 DEF DeleteRecord
    <3>2. OutputInHand'
      BY <3>1
    <3>3. PartHasRecord'
      BY <3>1
    <3>4. ASSUME NEW u \in Uuids, Kept(u) PROVE Kept(u)'
      <4>1. <<u, "json">> # f
        BY DEF Convertible
      <4> QED
        BY <3>1, <3>4, <4>1
    <3> QED
      BY <3>2, <3>3, <3>4
  <2>6. CASE DeleteFails(f)
    BY <1>2, <2>6 DEF DeleteFails
  <2> QED
    BY <1>2, <2>1, <2>2, <2>3, <2>4, <2>5, <2>6 DEF FileStep
<1>3. CASE UNCHANGED <<records, outputs>> /\ \A f \in Convertible : conv'.file[f] \in {"other", "pending"}
  BY <1>3, <1>1 DEF OutputInHand, PartHasRecord, Kept, JournalKept
<1>4. CASE \E f \in Convertible : FileStep(f)
  <2>1. JournalKept'
    BY <1>1, <1>2, <1>4 DEF JournalKept, DownloadOK
  <2> QED
    BY <1>2, <1>4, <2>1
<1> QED
  BY <1>3, <1>4 DEF Convert, ConvertStart, Rescan, ConvertEnd, ConvertKilled, NoConv, NoFiles,
     files

LEMMA RecordStep == TypeOK /\ RecordInv /\ [Next]_vars => RecordInv'
<1> SUFFICES ASSUME TypeOK, RecordInv, [Next]_vars PROVE RecordInv'
  OBVIOUS
<1>1. CASE UNCHANGED <<files, downloadVars, conv>>
  BY <1>1 DEF RecordInv, JournalKept, OutputInHand, PartHasRecord, Kept, files, journalFile,
              downloadVars
<1> QED
  BY <1>1, DownloadKeeps, ConvertKeeps DEF Next, Clean, vars

\* Whatever runs are killed or fail between the rename of a record and the line
\* of the journal, within that line, or during a conversion that deletes
\* records: what a resumed download leaves out is stored or converted
\* (raw_download.rs:204-212, convert.rs:467-475).
THEOREM DoneIsKept == Spec => []RecordKept
<1>1. QED
  BY TypeInit, TypeStep, RecordInit, RecordStep, RecordInvKept, PTL DEF Spec

\* A game whose output was cut off can be converted again, since its record is
\* still there (convert.rs:463-480, convert_pb.py:87-99).
THEOREM CutOutputHasRecord == Spec => []PartHasRecord
<1>1. RecordInv => PartHasRecord
  BY DEF RecordInv
<1> QED
  BY <1>1, TypeInit, TypeStep, RecordInit, RecordStep, PTL DEF Spec

-----------------------------------------------------------------------------
(***************************************************************************)
(* The cleaning of an archive.  While it is scanned, the staging archive   *)
(* has the valid records behind the scan that could be read; while the     *)
(* staging archive is copied back, the original has what has been copied.  *)
(***************************************************************************)

CopyInv ==
  /\ ~cut /\ clean.stage # "copy" => Valid \ unread \subseteq source
  /\ ~cut /\ clean.stage = "copy" => Valid \ unread \subseteq staged
  /\ clean.stage = "scan" =>
       /\ clean.left \subseteq source
       /\ (Valid \ unread) \cap (source \ clean.left) \subseteq staged
  /\ clean.stage = "copy" =>
       clean.left \subseteq staged /\ staged \ clean.left \subseteq source

LEMMA CopyInit == HistoryInit => CopyInv
BY ArchiveAssumption DEF HistoryInit, Init, InitArchive, CopyInv, NoClean

LEMMA CopyStep == TypeOK /\ CopyInv /\ [HistoryNext]_allVars => CopyInv'
<1> SUFFICES ASSUME TypeOK, CopyInv, [HistoryNext]_allVars PROVE CopyInv'
  OBVIOUS
<1> USE DEF CopyInv, NoClean, TypeOK, ArchiveOK
<1>1. CASE UNCHANGED <<archiveVars, cut, unread>>
  BY <1>1 DEF archiveVars
<1>2. ASSUME CleanStep, CutCopy, PassedOver PROVE CopyInv'
  <2>0. /\ ~cut' => ~cut /\ ~(clean.stage = "copy" /\ CleanKilled)
        /\ \A e \in unread \ unread' : clean'.stage = "idle" /\ e \in source'
    BY <1>2 DEF CutCopy, PassedOver
  <2>1. CASE CleanStart
    BY <2>0, <2>1 DEF CleanStart
  <2>2. ASSUME NEW e \in Entries, NEW read \in BOOLEAN, CleanRecord(e, read) PROVE CopyInv'
    <3>1. ~read => e \in unread'
      <4> SUFFICES ASSUME ~read PROVE e \in unread'
        OBVIOUS
      <4>1. CleanRecord(e, FALSE) /\ clean'.stage = "scan"
        BY <2>2 DEF CleanRecord
      <4> QED
        BY <1>2, <4>1 DEF PassedOver
    <3>2. /\ clean.stage = "scan" /\ clean'.stage = "scan" /\ e \in clean.left
          /\ clean'.left = clean.left \ {e} /\ UNCHANGED source
          /\ staged \subseteq staged' /\ (read /\ e \in Valid => e \in staged')
      BY <2>2 DEF CleanRecord, IsFirst
    <3>3. unread \subseteq unread'
      BY <2>0, <3>2
    <3> QED
      BY <2>0, <3>1, <3>2, <3>3
  <2>3. ASSUME NEW e \in Entries, CopyRecord(e) PROVE CopyInv'
    BY <2>0, <2>3 DEF CopyRecord, IsFirst
  <2>4. CASE CleanFails
    BY <2>0, <2>4 DEF CleanFails
  <2>5. CASE Replace
    BY <2>0, <2>5 DEF Replace
  <2>6. CASE CopyStart
    BY <2>0, <2>6 DEF CopyStart
  <2>7. CASE CopyEnd
    BY <2>0, <2>7 DEF CopyEnd
  <2>8. CASE CleanKilled
    BY <2>0, <2>8 DEF CleanKilled
  <2> QED
    BY <1>2, <2>1, <2>2, <2>3, <2>4, <2>5, <2>6, <2>7, <2>8 DEF CleanStep
<1>3. CASE HistoryNext
  <2>1. CASE Clean
    BY <1>2, <1>3, <2>1 DEF HistoryNext, Clean
  <2>2. CASE Download \/ Convert
    <3>1. UNCHANGED archiveVars
      BY <2>2 DEF Download, Convert
    <3>2. ~(clean.stage = "copy" /\ CleanKilled)
      BY <3>1 DEF archiveVars, CleanKilled
    <3>3. \A e \in Entries : ~CleanRecord(e, FALSE)
      BY <3>1 DEF archiveVars, CleanRecord, IsFirst
    <3>4. /\ ~cut' => ~cut
          /\ \A e \in unread \ unread' : clean'.stage = "idle" /\ e \in source'
      BY <1>3, <3>2 DEF HistoryNext, CutCopy, PassedOver
    <3> QED
      BY <3>1, <3>4 DEF archiveVars
  <2> QED
    BY <1>3, <2>1, <2>2 DEF HistoryNext, Next
<1> QED
  BY <1>1, <1>3 DEF allVars, vars

\* However cleanings fail or end, before, within or after a copy: until a copy was
\* cut short, every valid record is in the archive, or in the staging archive
\* while that is copied, but for those that a run could not read (main.rs:157-209,
\* 255-272).
THEOREM ArchiveKept == HistorySpec => []OneWholeCopy
<1>1. HistoryInit => TypeOK
  BY TypeInit DEF HistoryInit
<1>2. TypeOK /\ [HistoryNext]_allVars => TypeOK'
  BY TypeStep DEF HistoryNext, allVars
<1>3. CopyInv => OneWholeCopy
  BY DEF CopyInv, OneWholeCopy, Archived
<1> QED
  BY <1>1, <1>2, <1>3, CopyInit, CopyStep, PTL DEF HistorySpec
=============================================================================
