---------------------------- MODULE RawDownload ----------------------------
(***************************************************************************)
(* The downloads with many accounts: raw-download                          *)
(* (src/majsoul/raw_download.rs), which stores records as .pb, and         *)
(* tensoul-download/async_downloader.py, which stores converted games as   *)
(* .json.  Each account is a worker with a connection of its own; a queue  *)
(* feeds them, and what they have stored goes to the journal.              *)
(***************************************************************************)
EXTENDS RawFiles

CONSTANTS
  Workers,
  None,             \* no uuid
  Capacity,         \* of the channel to the workers (1024)
  Limits            \* values of --limit; Cardinality(Uuids) is no limit

ASSUME CapacityAssumption == Capacity \in Nat \ {0} /\ None \notin Uuids

VARIABLES
  scenario,         \* what is used together, see RawPipeline
  run,              \* the download that is running
  worker            \* its workers

downloadVars == <<run, worker>>

\* journal: sent to the journal writer; writer: it has not failed
NoRun == [tool |-> "none", stage |-> "idle", todo |-> {}, queue |-> {},
          journal |-> {}, writer |-> TRUE]
NoWorkers == [w \in Workers |-> [state |-> "off", uuid |-> None]]

WorkerStates == {"off", "login", "ready", "asked", "written", "stored", "dead"}

DownloadOK ==
  /\ run \in [tool : {"none", "raw", "async"}, stage : {"idle", "login", "feed", "drain"},
              todo : SUBSET Uuids, queue : SUBSET Uuids, journal : SUBSET Uuids,
              writer : BOOLEAN]
  /\ run.tool = "none" <=> run.stage = "idle"
  /\ Cardinality(run.queue) <= Capacity \/ run.tool = "async"
  /\ worker \in [Workers -> [state : WorkerStates, uuid : Uuids \cup {None}]]
  /\ \A w \in Workers :
       worker[w].uuid # None <=> worker[w].state \in {"asked", "written", "stored"}

Stored(tool) == IF tool = "raw" THEN "pb" ELSE "json"
Goes(w, state) == worker' = [worker EXCEPT ![w].state = state]
IsDone(w, state) == worker' = [worker EXCEPT ![w] = [state |-> state, uuid |-> None]]

\* Every account logs in, unless there is nothing to download.
Start(tool, n, scan) ==
  LET todo == FirstN(scenario.todo \ Done(tool, scan), n)
  IN /\ run.stage = "idle"
     /\ IF todo = {} THEN UNCHANGED downloadVars
        ELSE /\ run' = [NoRun EXCEPT !.tool = tool, !.stage = "login", !.todo = todo]
             /\ worker' = [w \in Workers |-> [state |-> "login", uuid |-> None]]
     /\ UNCHANGED files

LogIn(w, ok) ==
  /\ worker[w].state = "login"
  /\ Goes(w, IF ok THEN "ready" ELSE "off")
  /\ UNCHANGED <<run, files>>

\* mutant: the accounts that fail are waited for
AllLoggedIn == \A w \in Workers : worker[w].state \notin {"login", "off"}

\* the main task waits for logged_in + login_failed
LoginsSettled == \A w \in Workers : worker[w].state # "login"

NoLogin ==
  /\ run.stage = "login" /\ LoginsSettled
  /\ \A w \in Workers : worker[w].state = "off"
  /\ run' = NoRun
  /\ UNCHANGED <<worker, files>>

\* raw-download feeds a bounded channel while the workers take from it;
\* async_downloader.py fills the queue before they start.
BeginFeed ==
  /\ run.stage = "login" /\ LoginsSettled
  /\ \E w \in Workers : worker[w].state = "ready"
  /\ run' = IF run.tool = "raw" THEN [run EXCEPT !.stage = "feed"]
            ELSE [run EXCEPT !.stage = "drain", !.queue = run.todo, !.todo = {}]
  /\ UNCHANGED <<worker, files>>

\* mutant: the channel has no bound
FeedUnbounded(u) ==
  /\ run.stage = "feed" /\ IsFirst(u, run.todo)
  /\ run' = [run EXCEPT !.todo = @ \ {u}, !.queue = @ \cup {u}]
  /\ UNCHANGED <<worker, files>>

Feed(u) ==
  /\ run.stage = "feed" /\ IsFirst(u, run.todo)
  /\ Cardinality(run.queue) < Capacity
  /\ run' = [run EXCEPT !.todo = @ \ {u}, !.queue = @ \cup {u}]
  /\ UNCHANGED <<worker, files>>

CloseFeed ==
  /\ run.stage = "feed" /\ run.todo = {}
  /\ run' = [run EXCEPT !.stage = "drain"]
  /\ UNCHANGED <<worker, files>>

-----------------------------------------------------------------------------
\* A worker.
Take(w, u) ==
  /\ run.stage \in {"feed", "drain"} /\ worker[w].state = "ready"
  /\ IsFirst(u, run.queue)
  /\ run' = [run EXCEPT !.queue = @ \ {u}]
  /\ worker' = [worker EXCEPT ![w] = [state |-> "asked", uuid |-> u]]
  /\ UNCHANGED files

\* The record arrives and is written to a temporary file.  Only that of
\* raw-download has a name that converters look for.
Write(w) ==
  /\ worker[w].state = "asked"
  /\ records' = IF run.tool = "raw" THEN records \cup {<<worker[w].uuid, "tmp">>} ELSE records
  /\ Goes(w, "written")
  /\ UNCHANGED <<run, journalFile, outputs>>

\* The game is refused or timed out, or writing fails.
Miss(w) ==
  /\ worker[w].state = "asked"
  /\ IsDone(w, "ready")
  /\ UNCHANGED <<run, files>>

HasTemporary(w) == run.tool = "async" \/ <<worker[w].uuid, "tmp">> \in records
Moved(w) == (records \ {<<worker[w].uuid, "tmp">>}) \cup {<<worker[w].uuid, Stored(run.tool)>>}

Rename(w) ==
  /\ worker[w].state = "written" /\ HasTemporary(w)
  /\ records' = Moved(w)
  /\ Goes(w, "stored")
  /\ UNCHANGED <<run, journalFile, outputs>>

RenameFails(w) ==
  /\ worker[w].state = "written"
  /\ records' = records \ {<<worker[w].uuid, "tmp">>}
  /\ IsDone(w, "ready")
  /\ UNCHANGED <<run, journalFile, outputs>>

\* mutant: the journal gets its line before the file is in place
RecordBeforeRename(w) ==
  /\ worker[w].state \in {"written", "stored"} /\ run.tool = "raw"
  /\ run' = [run EXCEPT !.journal = IF run.writer THEN @ \cup {worker[w].uuid} ELSE @]
  /\ IsDone(w, "ready")
  /\ UNCHANGED files

\* raw-download sends the uuid to the journal writer, if that still receives;
\* async_downloader.py appends the line itself.
Record(w) ==
  /\ worker[w].state = "stored" /\ run.tool = "raw"
  /\ run' = [run EXCEPT !.journal = IF run.writer THEN @ \cup {worker[w].uuid} ELSE @]
  /\ IsDone(w, "ready")
  /\ UNCHANGED files

\* The line goes out together with those that could not be written before.
MarkDone(w) ==
  /\ worker[w].state = "stored" /\ run.tool = "async"
  /\ AppendLines(run.journal \cup {worker[w].uuid})
  /\ run' = [run EXCEPT !.journal = {}]
  /\ IsDone(w, "ready")
  /\ UNCHANGED <<records, outputs>>

\* The line cannot be written and stays in the buffer; the exception ends the
\* worker's task.
MarkDoneFails(w) ==
  /\ worker[w].state = "stored" /\ run.tool = "async"
  /\ run' = [run EXCEPT !.journal = @ \cup {worker[w].uuid}]
  /\ IsDone(w, "dead")
  /\ UNCHANGED files

\* the channel is closed and empty
Leave(w) ==
  /\ run.tool = "raw" /\ run.stage = "drain" /\ run.queue = {}
  /\ worker[w].state = "ready"
  /\ IsDone(w, "off")
  /\ UNCHANGED <<run, files>>

-----------------------------------------------------------------------------
\* raw-download joins its workers; async_downloader.py waits until as many
\* games are done with as were queued.
WorkersDone ==
  /\ run.stage = "drain" /\ run.queue = {}
  /\ \A w \in Workers :
       worker[w].state \in (IF run.tool = "raw" THEN {"off"} ELSE {"off", "ready", "dead"})

\* journal_writer, and the buffer that journal.close writes at the end
JournalLine(u) ==
  /\ u \in run.journal
  /\ run.tool = "raw" \/ WorkersDone
  /\ run' = [run EXCEPT !.journal = @ \ {u}]
  /\ AppendLines({u})
  /\ UNCHANGED <<worker, records, outputs>>

JournalFails ==
  /\ run.tool = "raw" \/ WorkersDone
  /\ \E u \in run.journal : CutLine(u)
  /\ run' = [run EXCEPT !.journal = {}, !.writer = FALSE]
  /\ UNCHANGED <<worker, records, outputs>>

End ==
  /\ WorkersDone /\ run.journal = {}
  /\ run' = NoRun /\ worker' = NoWorkers
  /\ UNCHANGED files

\* A run is killed, perhaps within a line of the journal.  One of
\* async_downloader.py may also be stopped by a signal; then the files that
\* its threads are writing are still put in place.
BeingMarked ==
  run.journal \cup {worker[w].uuid : w \in {v \in Workers : worker[v].state = "stored"}}

Killed ==
  /\ run.stage # "idle"
  /\ run' = NoRun /\ worker' = NoWorkers
  /\ \/ UNCHANGED journalFile
     \/ \E u \in BeingMarked : CutLine(u)
  /\ \E ws \in SUBSET {w \in Workers : run.tool = "async" /\ worker[w].state = "written"} :
       records' = records \cup {<<worker[w].uuid, "json">> : w \in ws}
  /\ UNCHANGED outputs

WorkerStep(w) ==
  \/ \E ok \in BOOLEAN : LogIn(w, ok)
  \/ \E u \in Uuids : Take(w, u)
  \/ Write(w)
  \/ Miss(w)
  \/ Rename(w)
  \/ RenameFails(w)
  \/ Record(w)
  \/ MarkDone(w)
  \/ MarkDoneFails(w)
  \/ Leave(w)

MainStep ==
  \/ NoLogin
  \/ BeginFeed
  \/ \E u \in Uuids : Feed(u)
  \/ CloseFeed
  \/ \E u \in Uuids : JournalLine(u)
  \/ JournalFails
  \/ End

DownloadStart ==
  \E n \in Limits :
    \/ "raw" \in scenario.tools /\ Start("raw", n, TRUE)
    \/ "async" \in scenario.tools /\ \E scan \in BOOLEAN : Start("async", n, scan)
=============================================================================
