---------------------------- MODULE RawPipeline ----------------------------
(***************************************************************************)
(* The commands without a database together: a download with many accounts *)
(* at a time, a converter that runs alongside it, and the cleaning of an   *)
(* archive of converted games.  They share nothing but files.  A scenario  *)
(* says which of them are used.                                            *)
(***************************************************************************)
EXTENDS RawDownload, RawConvert, ArchiveClean

CONSTANT Scenarios

ASSUME ScenariosAssumption ==
  \A s \in Scenarios :
    s.todo \subseteq Uuids /\ s.converters \subseteq Converters /\ s.clean \in BOOLEAN

vars == <<scenario, files, downloadVars, conv, archiveVars>>

Init ==
  /\ scenario \in Scenarios
  /\ InitFiles
  /\ run = NoRun /\ worker = NoWorkers
  /\ conv = NoConv
  /\ InitArchive

Download ==
  /\ DownloadStart \/ MainStep \/ Killed \/ \E w \in Workers : WorkerStep(w)
  /\ UNCHANGED <<scenario, conv, archiveVars>>

Convert ==
  /\ \/ \E tool \in scenario.converters : ConvertStart(tool)
     \/ Rescan
     \/ \E f \in Convertible : FileStep(f)
     \/ ConvertEnd
     \/ ConvertKilled
  /\ UNCHANGED <<scenario, downloadVars, archiveVars>>

Clean ==
  /\ scenario.clean /\ CleanStep
  /\ UNCHANGED <<scenario, files, downloadVars, conv>>

Next == Download \/ Convert \/ Clean

Spec == Init /\ [][Next]_vars

TypeOK == scenario \in Scenarios /\ FilesOK /\ DownloadOK /\ ConvertOK /\ ArchiveOK

-----------------------------------------------------------------------------
\* What a download leaves out is there: a game that its journal or its scan of
\* the disk counts as done has a whole record, or a whole output when a
\* converter has deleted the record, whatever runs were killed or failed
\* (raw_download.rs:204-212, convert.rs:467-475).
RecordKept ==
  \A u \in Done("raw", TRUE) \cup Done("async", TRUE) :
    \/ <<u, "pb">> \in records
    \/ <<u, "json">> \in records
    \/ outputs[<<u, "pb">>] = "whole"

\* A game whose output is cut off is not lost: its record is still there, and
\* it can be converted again (convert.rs:463-480, convert_pb.py:87-99).
PartHasRecord ==
  \A u \in Uuids : outputs[<<u, "pb">>] = "part" => <<u, "pb">> \in records

\* History: whether a copy was cut short, and the records that a cleaning could
\* not read, until it ends with them in the archive still.
VARIABLES cut, unread
CutCopy == cut' = (cut \/ (clean.stage = "copy" /\ CleanKilled))
PassedOver ==
  unread' = (unread \cup {e \in Entries : CleanRecord(e, FALSE)})
              \ (IF clean'.stage = "idle" THEN source' ELSE {})

\* The records of the archive that count: the original is written anew while the
\* staging archive is copied over it.
Archived == IF clean.stage = "copy" THEN staged ELSE source

\* Until a copy is cut short, every valid record is in the archive, or in the
\* staging archive while that is copied, however runs fail or are killed; only
\* a record that a run could not read may be gone (main.rs:157-209, 255-272).
\* docs/mjai-validator.md:28 says that invalid files are removed and that the
\* replacement is "safe" and "atomic": unread records and copies that are cut
\* short are why no more than this holds.
OneWholeCopy == ~cut => Valid \ unread \subseteq Archived

-----------------------------------------------------------------------------
\* The tasks of a download are scheduled, requests are answered or time out,
\* and so are logins.
Tasks(A) == A /\ UNCHANGED <<scenario, conv, archiveVars, cut, unread>>
allVars == <<vars, cut, unread>>

Fairness ==
  /\ WF_allVars(run.stage # "idle" /\ Tasks(MainStep))
  /\ \A w \in Workers : WF_allVars(run.stage # "idle" /\ Tasks(WorkerStep(w)))

HistoryInit == Init /\ cut = FALSE /\ unread = {}
HistoryNext == Next /\ CutCopy /\ PassedOver
HistorySpec == HistoryInit /\ [][HistoryNext]_allVars /\ Fairness

\* Every worker of async_downloader.py has ended with an exception, and the
\* coordinator waits for results that nobody brings (async_downloader.py:376).
AllDead ==
  /\ run.tool = "async" /\ run.queue # {}
  /\ \A w \in Workers : worker[w].state \in {"off", "dead"}

\* A download ends, whatever logins, games, files and journal lines fail: no
\* worker waits for the feeder while that waits for a worker
\* (raw_download.rs:397-437).
RunEnds == run.stage # "idle" ~> run.stage = "idle" \/ AllDead
=============================================================================
