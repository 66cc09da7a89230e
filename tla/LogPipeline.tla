---------------------------- MODULE LogPipeline ----------------------------
(***************************************************************************)
(* The Tenhou half of tenhou-scraper: the `logs` table of src/db.rs and    *)
(* the commands that move a log id through it.  `fetch` and `import`       *)
(* insert ids, `download` (src/download.rs) fills xml_data, `convert`      *)
(* (src/convert.rs) writes one mjai file per game of the payload, and      *)
(* `reset-errors` puts quarantined rows back into the queues.              *)
(*                                                                         *)
(* Every invocation is an operating-system process that takes a snapshot   *)
(* of its work queue, works on it for a long time, and then updates the    *)
(* rows of that snapshot one by one, each UPDATE in its own transaction.   *)
(* Nothing locks a row in between, so invocations interleave freely.       *)
(*                                                                         *)
(* Abstractions: log ids are positive numbers in the order of              *)
(* `ORDER BY id`; a payload is stored or NULL; whether a download or the   *)
(* conversion of a game succeeds is chosen freely; the --players and       *)
(* --hanchan filters of convert select a sub-table and are left out.       *)
(***************************************************************************)
EXTENDS OrderedSets

CONSTANTS
  Ids,                  \* log ids, compared as the table's TEXT key is
  Downloaders,          \* processes that run `tenhou-scraper download`
  Converters,           \* processes that run `tenhou-scraper convert`
  Games,                \* number of games in the payload of each id
  MaxDownloadAttempts,  \* Database::MAX_DOWNLOAD_ATTEMPTS, 3 in the code
  MaxConvertAttempts,   \* Database::MAX_CONVERT_ATTEMPTS, 3 in the code
  Concurrent,           \* download --concurrent
  Limits,               \* values of --limit tried by download and convert
  PageSize,             \* PAGE_SIZE of convert.rs, 500 in the code
  Disturbances          \* what may go wrong, or be done by the operator

ASSUME IdsAssumption == Ids \subseteq Nat \ {0} /\ IsFiniteSet(Ids)

ASSUME ProcessAssumption == IsFiniteSet(Downloaders) /\ IsFiniteSet(Converters)

ASSUME BoundAssumption ==
  /\ Games \in [Ids -> Nat \ {0}]
  /\ MaxDownloadAttempts \in Nat \ {0}
  /\ MaxConvertAttempts \in Nat \ {0}
  /\ Concurrent \in Nat \ {0}
  /\ PageSize \in Nat \ {0}
  /\ Limits \subseteq Nat \ {0}

ASSUME DisturbanceAssumption ==
  Disturbances \subseteq {"crash", "db_error", "cleanup_error", "reset"}

VARIABLES
  \* the `logs` table: the ids that have a row, and its columns
  known, is_downloaded, xml_data, download_attempts,
  is_converted, convert_attempts,
  \* the output directory: <<id, game>> for every finished output file
  files,
  \* download: the ids of its snapshot without a recorded outcome
  work,
  \* convert: what a run does next, its unmarked page, the id cursor, whether
  \* the page is the last one, games written and ids failed on this page
  stage, page, cursor, last, written, failed,
  \* history of the current convert run: the queue at its start, and the ids
  \* it put on a page
  queued, tried

downloadCols == <<is_downloaded, xml_data, download_attempts>>
convertCols  == <<is_converted, convert_attempts>>
table        == <<known, downloadCols, convertCols>>
runVars      == <<stage, page, cursor, last, written, failed>>
history      == <<queued, tried>>
vars         == <<table, files, work, runVars, history>>

-----------------------------------------------------------------------------
(***************************************************************************)
(* The queries.                                                            *)
(***************************************************************************)

\* mutant: the query forgets the attempt limit
UndownloadedForever == {id \in known : is_downloaded[id] \in {0, -1}}

\* get_undownloaded_ids: fresh rows, and error rows with attempts remaining
Undownloaded ==
  {id \in known :
     \/ is_downloaded[id] = 0
     \/ is_downloaded[id] = -1 /\ download_attempts[id] < MaxDownloadAttempts}

\* mutant: rows that have failed are not tried again
UnconvertedFresh ==
  {id \in known : is_downloaded[id] = 1 /\ xml_data[id] /\ is_converted[id] = 0}

\* get_unconverted_logs without a cursor
Unconverted ==
  {id \in known :
     /\ is_downloaded[id] = 1
     /\ xml_data[id]
     /\ \/ is_converted[id] = 0
        \/ is_converted[id] = -1 /\ convert_attempts[id] < MaxConvertAttempts}

\* mutant: the query ignores the cursor
UnconvertedFromStart(c) == Unconverted

\* get_unconverted_logs with `id > cursor`; a run starts with cursor 0, below
\* every id
UnconvertedAfter(c) == {id \in Unconverted : id > c}

FilesOf(id) == {<<id, g>> : g \in 1..Games[id]}

-----------------------------------------------------------------------------
(***************************************************************************)
(* The updates, each one a transaction.                                    *)
(***************************************************************************)

MarkDownloaded(id) ==
  /\ is_downloaded' = [is_downloaded EXCEPT ![id] = 1]
  /\ xml_data' = [xml_data EXCEPT ![id] = TRUE]
  /\ UNCHANGED download_attempts

MarkDownloadError(id) ==
  /\ is_downloaded' = [is_downloaded EXCEPT ![id] = -1]
  /\ download_attempts' = [download_attempts EXCEPT ![id] = @ + 1]
  /\ UNCHANGED xml_data

MarkConverted(id) ==
  /\ is_converted' = [is_converted EXCEPT ![id] = 1]
  /\ UNCHANGED convert_attempts

MarkConvertError(id) ==
  /\ is_converted' = [is_converted EXCEPT ![id] = -1]
  /\ convert_attempts' = [convert_attempts EXCEPT ![id] = @ + 1]

\* fetch and import: INSERT OR IGNORE, so an existing row keeps its progress
InsertLogId(id) ==
  /\ id \notin known
  /\ known' = known \cup {id}
  /\ UNCHANGED <<downloadCols, convertCols, files, work, runVars, history>>

\* `download --retry-errors`: resets before it takes its snapshot, as a
\* transaction of its own
ResetDownloadErrors(p) ==
  /\ "reset" \in Disturbances
  /\ work[p] = {}
  /\ is_downloaded' =
       [id \in Ids |-> IF is_downloaded[id] = -1 THEN 0 ELSE is_downloaded[id]]
  /\ download_attempts' =
       [id \in Ids |-> IF is_downloaded[id] = -1 THEN 0 ELSE download_attempts[id]]
  /\ UNCHANGED <<known, xml_data, convertCols, files, work, runVars, history>>

\* mutant: the reset has no WHERE clause
ResetEveryConversion(p) ==
  /\ "reset" \in Disturbances
  /\ stage[p] = "idle"
  /\ is_converted' = [id \in Ids |-> 0]
  /\ convert_attempts' = [id \in Ids |-> 0]
  /\ UNCHANGED <<known, downloadCols, files, work, runVars, history>>

\* `convert --retry-errors`
ResetConvertErrors(p) ==
  /\ "reset" \in Disturbances
  /\ stage[p] = "idle"
  /\ is_converted' =
       [id \in Ids |-> IF is_converted[id] = -1 THEN 0 ELSE is_converted[id]]
  /\ convert_attempts' =
       [id \in Ids |-> IF is_converted[id] = -1 THEN 0 ELSE convert_attempts[id]]
  /\ UNCHANGED <<known, downloadCols, files, work, runVars, history>>

-----------------------------------------------------------------------------
(***************************************************************************)
(* download_logs.  The snapshot is taken once.  buffer_unordered starts    *)
(* the requests in id order and keeps Concurrent of them in flight, so the *)
(* ones in flight are the first Concurrent ids without an outcome; their   *)
(* results arrive in any order and are recorded one at a time.             *)
(***************************************************************************)

InFlight(p) == FirstN(work[p], Concurrent)

TakeSnapshot(p, ids) ==
  /\ work[p] = {}
  /\ ids # {}
  /\ work' = [work EXCEPT ![p] = ids]
  /\ UNCHANGED <<table, files, runVars, history>>

DownloadAll(p) == TakeSnapshot(p, Undownloaded)

DownloadLimited(p, n) == TakeSnapshot(p, FirstN(Undownloaded, n))

\* record_outcome
RecordOutcome(p, id, ok) ==
  /\ id \in InFlight(p)
  /\ IF ok THEN MarkDownloaded(id) ELSE MarkDownloadError(id)
  /\ work' = [work EXCEPT ![p] = @ \ {id}]
  /\ UNCHANGED <<known, convertCols, files, runVars, history>>

\* the process is killed, or record_outcome fails and `?` ends the run: the
\* outcomes not yet recorded are lost
DownloadAbort(p) ==
  /\ Disturbances \cap {"crash", "db_error"} # {}
  /\ work[p] # {}
  /\ work' = [work EXCEPT ![p] = {}]
  /\ UNCHANGED <<table, files, runVars, history>>

-----------------------------------------------------------------------------
(***************************************************************************)
(* convert_logs.  Without --limit it pages through the queue with an id    *)
(* cursor; with --limit it converts one batch.                             *)
(***************************************************************************)

\* convert_batch begins: every row of the page is still to be converted
Batch(p, ids) ==
  /\ page' = [page EXCEPT ![p] = ids]
  /\ written' = [written EXCEPT ![p] = [id \in Ids |-> 0]]
  /\ failed' = [failed EXCEPT ![p] = {}]

ConvertAll(p) ==
  /\ stage[p] = "idle"
  /\ stage' = [stage EXCEPT ![p] = "paging"]
  /\ cursor' = [cursor EXCEPT ![p] = 0]
  /\ last' = [last EXCEPT ![p] = FALSE]
  /\ queued' = [queued EXCEPT ![p] = Unconverted]
  /\ tried' = [tried EXCEPT ![p] = {}]
  /\ UNCHANGED <<table, files, work, page, written, failed>>

ConvertLimited(p, n) ==
  LET ids == FirstN(Unconverted, n) IN
  /\ stage[p] = "idle"
  /\ ids # {}
  /\ stage' = [stage EXCEPT ![p] = "batch"]
  /\ cursor' = [cursor EXCEPT ![p] = 0]
  /\ last' = [last EXCEPT ![p] = TRUE]
  /\ Batch(p, ids)
  /\ queued' = [queued EXCEPT ![p] = ids]
  /\ tried' = [tried EXCEPT ![p] = ids]
  /\ UNCHANGED <<table, files, work>>

\* mutant: a full page is taken for the last one
ShortOrFullPage(ids) == Cardinality(ids) <= PageSize

\* a page that is not full is the last one
ShortPage(ids) == Cardinality(ids) < PageSize

NextPage(p) ==
  LET ids == FirstN(UnconvertedAfter(cursor[p]), PageSize) IN
  /\ stage[p] = "paging"
  /\ ids # {}
  /\ stage' = [stage EXCEPT ![p] = "batch"]
  /\ \E id \in ids : IsLast(id, ids) /\ cursor' = [cursor EXCEPT ![p] = id]
  /\ last' = [last EXCEPT ![p] = ShortPage(ids)]
  /\ Batch(p, ids)
  /\ tried' = [tried EXCEPT ![p] = @ \cup ids]
  /\ UNCHANGED <<table, files, work, queued>>

\* the query returns an empty page
NoMorePages(p) ==
  /\ stage[p] = "paging"
  /\ UnconvertedAfter(cursor[p]) = {}
  /\ stage' = [stage EXCEPT ![p] = "idle"]
  /\ UNCHANGED <<table, files, work, page, cursor, last, written, failed, history>>

\* mutant: one game too many is converted
UnresolvedOneMore(p) ==
  {id \in page[p] \ failed[p] : written[p][id] <= Games[id]}

\* mutant: the games after one that failed are converted
UnresolvedThoughFailed(p) == {id \in page[p] : written[p][id] < Games[id]}

\* mutant: only the first game of a payload is converted
UnresolvedFirstGame(p) == {id \in page[p] \ failed[p] : written[p][id] = 0}

\* ids of the page whose conversion is still going on
Unresolved(p) ==
  {id \in page[p] \ failed[p] : written[p][id] < Games[id]}

\* convert_one_game succeeds: write_atomic renames the finished file into
\* place.  The pool converts the ids of a page in parallel, the games of one
\* id in order.
WriteGame(p, id) ==
  /\ stage[p] = "batch"
  /\ id \in Unresolved(p)
  /\ written' = [written EXCEPT ![p][id] = @ + 1]
  /\ files' = files \cup {<<id, written[p][id] + 1>>}
  /\ UNCHANGED <<table, work, stage, page, cursor, last, failed, history>>

\* what may be left of the files this attempt wrote: convert_single removes
\* them, and a removal that fails is only logged
Leftovers(mine) ==
  IF "cleanup_error" \in Disturbances THEN SUBSET mine ELSE {{}}

\* convert_one_game, or the parsing before it, fails
FailGame(p, id) ==
  LET mine == {<<id, g>> : g \in 1..written[p][id]} IN
  /\ stage[p] = "batch"
  /\ id \in Unresolved(p)
  /\ failed' = [failed EXCEPT ![p] = @ \cup {id}]
  /\ \E left \in Leftovers(mine) : files' = files \ (mine \ left)
  /\ UNCHANGED <<table, work, stage, page, cursor, last, written, history>>

\* what convert_logs does after the last row of a page is marked
AfterPage(p) == IF last[p] THEN "idle" ELSE "paging"

\* Once the whole page is converted the rows are marked in id order; a failed
\* UPDATE is only logged.
MarkRow(p, id) ==
  /\ stage[p] = "batch"
  /\ Unresolved(p) = {}
  /\ IsFirst(id, page[p])
  /\ page' = [page EXCEPT ![p] = @ \ {id}]
  /\ \/ IF id \in failed[p] THEN MarkConvertError(id) ELSE MarkConverted(id)
     \/ "db_error" \in Disturbances /\ UNCHANGED convertCols
  /\ stage' = [stage EXCEPT ![p] = IF page[p] = {id} THEN AfterPage(p) ELSE @]
  /\ UNCHANGED <<known, downloadCols, files, work, cursor, last, written, failed, history>>

\* the process is killed, or the query for the next page fails
ConvertAbort(p) ==
  /\ \/ "crash" \in Disturbances /\ stage[p] # "idle"
     \/ "db_error" \in Disturbances /\ stage[p] = "paging"
  /\ stage' = [stage EXCEPT ![p] = "idle"]
  /\ Batch(p, {})
  /\ queued' = [queued EXCEPT ![p] = {}]
  /\ UNCHANGED <<table, files, work, cursor, last, tried>>

-----------------------------------------------------------------------------
Init ==
  /\ known = {}
  /\ is_downloaded = [id \in Ids |-> 0]
  /\ xml_data = [id \in Ids |-> FALSE]
  /\ download_attempts = [id \in Ids |-> 0]
  /\ is_converted = [id \in Ids |-> 0]
  /\ convert_attempts = [id \in Ids |-> 0]
  /\ files = {}
  /\ work = [p \in Downloaders |-> {}]
  /\ stage = [p \in Converters |-> "idle"]
  /\ page = [p \in Converters |-> {}]
  /\ cursor = [p \in Converters |-> 0]
  /\ last = [p \in Converters |-> FALSE]
  /\ written = [p \in Converters |-> [id \in Ids |-> 0]]
  /\ failed = [p \in Converters |-> {}]
  /\ queued = [p \in Converters |-> {}]
  /\ tried = [p \in Converters |-> {}]

DownloadStart(p) == DownloadAll(p) \/ \E n \in Limits : DownloadLimited(p, n)

DownloadStep(p) == \E id \in Ids, ok \in BOOLEAN : RecordOutcome(p, id, ok)

ConvertStart(p) == ConvertAll(p) \/ \E n \in Limits : ConvertLimited(p, n)

ConvertStep(p) ==
  \/ NextPage(p)
  \/ NoMorePages(p)
  \/ \E id \in Ids : WriteGame(p, id)
  \/ \E id \in Ids : FailGame(p, id)
  \/ \E id \in Ids : MarkRow(p, id)

Next ==
  \/ \E id \in Ids : InsertLogId(id)
  \/ \E p \in Downloaders :
       ResetDownloadErrors(p) \/ DownloadStart(p) \/ DownloadStep(p) \/ DownloadAbort(p)
  \/ \E p \in Converters :
       ResetConvertErrors(p) \/ ConvertStart(p) \/ ConvertStep(p) \/ ConvertAbort(p)

Spec == Init /\ [][Next]_vars

\* A run that has started is never suspended for ever: its process keeps
\* being scheduled.
RunFairness ==
  /\ \A p \in Downloaders : WF_vars(DownloadStep(p))
  /\ \A p \in Converters : WF_vars(ConvertStep(p))

\* The operator, or a cron job, keeps invoking both commands, with whatever
\* --limit.
OperatorFairness ==
  /\ \A p \in Downloaders : WF_vars(DownloadStart(p))
  /\ \A p \in Converters : WF_vars(ConvertStart(p))

-----------------------------------------------------------------------------
Columns == [Ids -> {-1, 0, 1}]
Counts  == [Ids -> Nat]

TypeOK ==
  /\ known \subseteq Ids
  /\ is_downloaded \in Columns
  /\ is_converted \in Columns
  /\ xml_data \in [Ids -> BOOLEAN]
  /\ download_attempts \in Counts
  /\ convert_attempts \in Counts
  /\ files \subseteq UNION {FilesOf(id) : id \in Ids}
  /\ work \in [Downloaders -> SUBSET known]
  /\ stage \in [Converters -> {"idle", "paging", "batch"}]
  /\ page \in [Converters -> SUBSET known]
  /\ \A p \in Converters : stage[p] = "batch" <=> page[p] # {}
  /\ cursor \in [Converters -> Nat]
  /\ last \in [Converters -> BOOLEAN]
  /\ written \in [Converters -> Counts]
  /\ \A p \in Converters, id \in Ids : written[p][id] <= Games[id]
  /\ failed \in [Converters -> SUBSET Ids]
  /\ queued \in [Converters -> SUBSET known]
  /\ tried \in [Converters -> SUBSET known]

\* Three strikes then quarantine (db.rs:40), whatever overlaps: the attempt
\* counters pass their limit only by one for every further invocation that
\* runs at the same time, because each holds an id in its snapshot at most
\* once and a snapshot only takes ids below the limit.
AttemptsBounded ==
  \A id \in Ids :
    /\ download_attempts[id] <= MaxDownloadAttempts - 1 + Cardinality(Downloaders)
    /\ convert_attempts[id] <= MaxConvertAttempts - 1 + Cardinality(Converters)

\* The strengthening of AttemptsBounded that the steps preserve: an invocation
\* that holds an id has the right to one more strike.
DownloadAttemptsInv ==
  \A id \in Ids :
    /\ download_attempts[id] + Cardinality({p \in Downloaders : id \in work[p]})
         <= MaxDownloadAttempts - 1 + Cardinality(Downloaders)
    /\ is_downloaded[id] = 0 => download_attempts[id] = 0

ConvertAttemptsInv ==
  \A id \in Ids :
    /\ convert_attempts[id] + Cardinality({p \in Converters : id \in page[p]})
         <= MaxConvertAttempts - 1 + Cardinality(Converters)
    /\ is_converted[id] = 0 => convert_attempts[id] = 0

\* A page of a convert run holds no id of an earlier page of that run, so a
\* failure is retried by the next run and not by this one (convert.rs:48-50).
TriedOnce ==
  [][\A p \in Converters :
       stage[p] = "paging" /\ stage'[p] = "batch" => page'[p] \cap tried[p] = {}]_vars

\* A convert run without --limit that ends by itself has put every id on a
\* page that was in the queue when it began, whatever was downloaded meanwhile
\* (convert.rs:46-50: the cursor "visits every queued row").
QueueCovered ==
  [][\A p \in Converters :
       stage[p] # "idle" /\ stage'[p] = "idle" /\ queued'[p] = queued[p]
         => queued[p] \subseteq tried[p]]_vars

\* `stats` warns of inconsistent numbers when more rows are converted than
\* downloaded (main.rs:636-637).
StatsConsistent ==
  Cardinality({id \in known : is_converted[id] = 1})
    <= Cardinality({id \in known : is_downloaded[id] = 1})

\* Every convert run and every download run ends (convert.rs:48-50: a failure
\* is "never re-fetched forever"), even when no outcome can be marked.
RunsEnd ==
  /\ \A p \in Converters : stage[p] # "idle" ~> stage[p] = "idle"
  /\ \A p \in Downloaders : work[p] # {} ~> work[p] = {}

Quarantined(id) ==
  \/ is_downloaded[id] = -1 /\ download_attempts[id] >= MaxDownloadAttempts
  \/ is_converted[id] = -1 /\ convert_attempts[id] >= MaxConvertAttempts

-----------------------------------------------------------------------------
(***************************************************************************)
(* One download and one convert process at a time implement LogLifecycle.  *)
(***************************************************************************)

OneConverter == \A p, q \in Converters : p = q
OneAtATime == OneConverter /\ \A p, q \in Downloaders : p = q

\* nobody else completes a download that is in the snapshot
SnapshotPending ==
  \A p \in Downloaders : \A id \in work[p] : is_downloaded[id] # 1

\* nobody else converts a row of the page, or takes its payload away
PagePending ==
  \A p \in Converters : \A id \in page[p] :
    is_downloaded[id] = 1 /\ is_converted[id] # 1

\* what the run has written of a row is still there
WrittenPresent ==
  \A p \in Converters : \A id \in page[p] \ failed[p] :
    \A g \in 1..written[p][id] : <<id, g>> \in files

\* a converted row has its payload and all its files
ConvertedComplete ==
  \A id \in Ids :
    is_converted[id] = 1 => is_downloaded[id] = 1 /\ FilesOf(id) \subseteq files

RowsFresh ==
  \A id \in Ids \ known : is_downloaded[id] = 0 /\ is_converted[id] = 0

\* Between its query and its last mark, what an invocation read of a row stays
\* true, and a converted row is complete, although no row is ever locked
\* (db.rs:222-244, 335-341: the marks are unconditional).
OwnershipInv ==
  /\ SnapshotPending
  /\ PagePending
  /\ WrittenPresent
  /\ ConvertedComplete
  /\ RowsFresh

PhaseOf(id) ==
  CASE id \notin known -> "unknown"
    [] id \in known /\ is_downloaded[id] # 1 -> "wanted"
    [] id \in known /\ is_downloaded[id] = 1 /\ is_converted[id] # 1 -> "stored"
    [] id \in known /\ is_downloaded[id] = 1 /\ is_converted[id] = 1 -> "converted"

Lifecycle ==
  INSTANCE LogLifecycle
    WITH phase    <- [id \in Ids |-> PhaseOf(id)],
         complete <- {id \in Ids : FilesOf(id) \subseteq files}

\* No interleaving of fetch, download, convert, resets and crashes takes a
\* payload or a conversion back, or marks a log converted whose files are not
\* all there.
ImplementsLifecycle == Lifecycle!Spec

-----------------------------------------------------------------------------
\* History: whether files could have been left behind by a kill, a removal or
\* a mark that failed.
VARIABLE untidy

Unmarked(p) == stage[p] = "batch" /\ page'[p] # page[p] /\ UNCHANGED convertCols
LeftBehind(p) ==
  \E id \in failed'[p] \ failed[p] : files' \cap {<<id, g>> : g \in 1..written[p][id]} # {}

HistoryInit == Init /\ untidy = FALSE
HistoryNext ==
  /\ Next
  /\ untidy' = (untidy \/ \E p \in Converters :
                            ConvertAbort(p) \/ Unmarked(p) \/ LeftBehind(p))
HistorySpec ==
  HistoryInit /\ [][HistoryNext]_<<vars, untidy>> /\ RunFairness /\ OperatorFairness

\* A log is all-or-nothing in the output directory: a row that is not
\* converted and not being converted has no file there, not even between its
\* failure and its mark (convert.rs:129-131), as long as no process was killed
\* and all removals and marks succeeded.
NoPartialOutput ==
  ~untidy =>
    \A id \in Ids :
      is_converted[id] # 1 /\ (\A p \in Converters : id \notin page[p] \ failed[p])
        => files \cap FilesOf(id) = {}

\* No id starves behind ids that keep failing, even if every run has
\* --limit 1: if from some time on no run is cut short, all marks succeed and
\* no attempts are reset, each listed log is in the end converted or
\* quarantined (convert.rs:48-50, db.rs:205-220).
Orderly ==
  /\ \A p \in Downloaders : ~DownloadAbort(p) /\ ~ResetDownloadErrors(p)
  /\ \A p \in Converters : ~ConvertAbort(p) /\ ~Unmarked(p) /\ ~ResetConvertErrors(p)
Settled == \A id \in known : is_converted[id] = 1 \/ Quarantined(id)
EveryLogSettles == <>[][Orderly]_vars => <>[]Settled
=============================================================================
