# Verification of tenhou-scraper

TLA+ models of the scrapers and converters of this repository, the TLC runs
that check them on small instances, and theorems about them that TLAPS checks
for every value of the constants. `PROJECT.json` lists the runs, the source
lines of every definition (`map`), the hazards and the theorems. Line numbers
below are those of the files under `src/`.

## 1. The system

A command-line program (`src/main.rs`) with a SQLite database (`src/db.rs`) in
the middle, libraries that convert game records, and tools that share only
files. Each command is a process; any number of them may run on one database.
SQLite makes each statement atomic (WAL, busy timeout of 5 s); there is no
transaction over several statements (but for the players of a day) and no row is
locked or leased between a query and the updates that follow from it.

| Component | State | Operations | What makes it correct | Module |
|---|---|---|---|---|
| `logs` table, `download` (db.rs, download.rs) | per id: `is_downloaded`, `xml_data`, `download_attempts` | snapshot of the queue, concurrent requests, one outcome at a time, `--retry-errors` | rows move forward only; three strikes, then quarantine; nothing starves | `LogPipeline` |
| `convert` (convert.rs, util.rs) | `is_converted`, `convert_attempts`, output files, page, cursor | id-cursor paging, parallel batch, one file per game, cleanup, marks | each queued row once per run; all-or-nothing output; runs end | `LogPipeline` |
| `fetch`, `fetch --import-dir` (fetch.rs) | `fetch_state`, `fetch_attempts`, inserted ids | selection of dates, requests, attempts, inserts, marks, import | a skipped day has all its ids; 20-minute politeness; every log is listed in the end | `TenhouFetch` |
| Majsoul RPC (majsoul/rpc.rs) | `req_idx`, `pending`, channels | `call`, reader task, timeout, drain | a response reaches its own call; nothing leaks; each call returns | `MajsoulRpc` |
| Majsoul scraping (api.rs, main.rs) | rows, fetched days and players | scrape-all, fetch-room, fetch-days, scrape-players, fetch-full-uuids, recover-orphans, resolve-uuids, resolve-phantoms, ... | what is marked as fetched is complete; rounds converge; a full uuid is that of its game | `MajsoulTables`, `MajsoulScrape` |
| Majsoul downloads (majsoul/download.rs, parallel_download.rs, json_download.rs) | rows, attempts, connection | download, bulk-download, download-json with retries, restarts, version mismatch | what is stored stays stored; the queue drains; the row that was queued is the row that is marked | `MajsoulDownload` |
| Majsoul gateway and login (gateway.rs, rpc.rs) | connection, version | discovery, login sequence, outcome classes | retries are bounded | partly, in `MajsoulDownload` |
| Raw download (raw_download.rs), Python downloader (tensoul-download) | work channel or queue, journal, files | workers per account, journal writer, resume | what a resumed run leaves out is stored; no deadlock | `RawFiles`, `RawDownload` |
| Raw conversion (majsoul/convert.rs, convert_pb.py) | outputs, records | convert, delete the record | no game is lost that has a cut output | `RawConvert` |
| mjai-validator (dataset/) | archive, staging copy; a pass over lines | validate, clean in place | no valid record is lost | `ArchiveClean`, `MjaiValidator` |
| Majsoul events to mjai (majsoul/convert.rs) | pending reach, last discarder | one event after the other | order, payer and acceptance are those of the game | `MajsoulMoves` |
| convlog (crates/convlog) | takes and discards of four seats, backtracking table | merge into one event order, dora timing | finds the order that was played; terminates | `KyokuRound`, `KyokuConv` |
| mjlog2json-core | two flags of a seat under replay | replay of mjlog actions | gives the log that tenhou.net/6 would | `MjlogReplay`, `MeldCodes` |
| mjlog parser, tenhou-json | - | decoding and encoding of calls | a call keeps its tiles and its seat | partly, in `MeldCodes` |
| token pool | index | round robin | - | not modelled: no caller |
| export, package, tenhou2mjai, browser, proto, auth | - | pure conversions, file and browser I/O | - | not modelled |

How they interact: `fetch` inserts rows that `download` selects; `download`
fills the payload that `convert` selects; `convert` runs the chain mjlog parser
-> mjlog2json-core -> tenhou-json -> convlog per game. The Majsoul scraping
commands fill `majsoul_logs`, from which the three Majsoul downloads take their
queues; each download has one `MajsoulRpc` connection. Raw download, the Python
downloader, the two converters of their records and the validator share `todo.txt`,
`completed.log` and directories.

What is hard here: overlapping processes that act on old snapshots, runs killed
between two statements or within a line of a file, marks that are lost or that
hit no row, responses racing timeouts, queues in which failing entries stay at
the head, listings that keep growing at the source, one game under several keys,
and records that do not say in which order things happened. The `hazards` of
PROJECT.json list each with its line.

## 2. The modules

### LogPipeline (with OrderedSets and LogLifecycle)

State: one variable for each column of `logs` (`known` is the set of rows),
`files` for the output directory, `work` for the outstanding ids of each
download process, and `stage`, `page`, `cursor`, `last`, `written`, `failed`
for each convert process. `queued` and `tried` are history.

| Action | Code |
|---|---|
| `InsertLogId` | `insert_log_id`, as fetch and import call it |
| `ResetDownloadErrors`, `ResetConvertErrors` | `--retry-errors`, a statement before the run's snapshot |
| `DownloadAll`, `DownloadLimited` | `get_undownloaded_ids` without and with `--limit` |
| `RecordOutcome` | one iteration of the download loop: a request in flight ends and `record_outcome` marks the row |
| `DownloadAbort` | the process is killed, or `?` on a failed mark ends the run |
| `ConvertAll`, `ConvertLimited`, `NextPage`, `NoMorePages` | `convert_logs`: paging, or one batch with `--limit` |
| `WriteGame`, `FailGame` | `convert_one_game` inside `convert_single`, with the removal of earlier files on failure |
| `MarkRow` | the marking loop of `convert_batch`; a failed mark is only logged |
| `ConvertAbort` | the process is killed, or `?` on the page query ends the run |

`buffer_unordered(n)` starts requests in queue order and keeps n in flight, so
the outcomes that can come next are those of the first n unresolved ids
(`InFlight`). Within a page the thread pool converts rows in parallel and the
games of one row in order; rows are marked in id order after the whole page.

Abstracted: payload contents, HTTP, compression, file formats; whether a request
or a conversion succeeds is free. The `--players` and `--hanchan` filters select
a sub-table and are left out. `write_atomic` (temporary file, rename) is one
step: a kill inside it leaves at most a temporary file that nothing reads.

`LogLifecycle` is the promise to an operator: a log goes unknown -> wanted ->
stored -> converted, never back, and is converted only when all its files are
there. `ImplementsLifecycle` is the refinement under `PhaseOf` and
`FilesOf(id) \subseteq files`.

### TenhouFetch

State: Tenhou's side (`today`, `published`), the tables (`known`, `marked`,
`checkedAge`), and a run's stage, days, answers and results. `Start` selects
the days, `Request` is one file, `RecordAttempt`, `Insert` and `FinishDay` are
the statements of the sequential loop after *all* requests are done,
`ImportFile` is one file of an import directory, `Abort` a kill or a failed
statement. `Publish`, `NextDay` and `Tick` are Tenhou and the clock (external).
Ages stop at `Window`, which stands for "20 minutes or more".

### MajsoulRpc

State: `req_idx`, `pending`, the requests on the wire (`frames`), the reader
task, and for each call its program counter, index, oneshot channel and result.
An action is what happens between two await points or in one critical section
of the `pending` mutex: `FetchAdd`, `Claim`, `Exhaust`, `Send`, `SendFail`,
`Receive`, `Expire`, `Remove` for a call (one counter value, the locked
insert-if-absent, ...), `Respond`, `ReaderStops` (Close or error, with drain)
and `StreamEnds` (end of stream, without) for the reader. The server may
answer in any order, or never; a response may come after its call's timeout,
and then finds whatever call holds the index by that time.

### MajsoulLogs (MajsoulTables, MajsoulScrape, MajsoulDownload)

`MajsoulTables` has the tables and their statements as operators. A game stands
for its full uuid. Its row may have the normalized uuid as its key, or a masked
one that only the room listing knows (docs/orphan-uuid-recovery-approaches.md);
both rows can exist. A `scenario` fixes the games of an instance and which
commands are used on them, so that the runs that interact are explored together
and the others do not multiply.

| Action | Code |
|---|---|
| `ScrapeAll`, `ScrapeChunk`, `ScrapeChunkFails`, `ScrapeDate`, `Expand`, `ScrapePlayer`, `ScrapePlayerFails`, `ScrapeMatch`, `ScrapeCheck` | a round of scrape-all (main.rs:1164-1379): dates, players, cross match, the decision on another round |
| `ScrapeKilled` | a kill or a database error, with any part of the chunk or player stored |
| `FetchRoomDay`, `FetchPlayer`, `FetchPublic`, `Populate`, `FetchFullUuids`, `RecoverPlayer`, `RecoverMatch`, `ResolveUuid`, `FetchDay`, `ScrapePipelinePlayer`, `ResetCappedPlayers` | a day, player or row of the other commands |
| `DownloadStart` | the queue of one of the three downloads, with or without `--limit`; any number of processes at a time |
| `Connect`, `ConnectFails`, `Restart`, `VersionMismatch` | `discover_and_connect` with its four attempts, `--restart-every`, and the three version mismatches of a run |
| `Arrives`, `Refused`, `Unconvertible` | what becomes of a game, and its mark |
| `DownloadAbort`, `DownloadEnd`, `RetryErrors` | rate limit, failed statement or kill; the end; `--retry-errors` |
| `Publish`, `NextDay` | games are played (external) |

The loops of the other commands are taken apart into one step per day, player
or row, in any order: what such a step writes is inserted if absent or filled
if empty, so a run that is interleaved with others, or killed, is a sequence of
these steps. Pagination is one step; where pages may be missing without an error
(main.rs:971) the step takes any part of the listing.

The three downloads are processes (`Downloaders`), each with its own queue, connection and
counters in `download[p]`; they share the table and nothing else, and nothing locks it. A run of
scrape-all is one at a time in the model.

### RawPipeline (RawFiles, RawDownload, RawConvert, ArchiveClean)

`RawFiles` is what the commands without a database share: the lines of
`completed.log`, of which the last may lack its newline (`torn`) and may or may
not be whole (`tail`), the records and the outputs. `.tmp_*.pb` is a file of its own,
because both converters glob `*.pb`.

`RawDownload` is both multi-account downloads. `Start` reads the journal and the
disk as each tool does; `LogIn`, `NoLogin` and `BeginFeed` are the start of the
workers; `Feed` and `CloseFeed` the bounded channel of raw-download (the queue of
async_downloader.py has no bound and is filled first); `Take`, `Write`, `Miss`,
`Rename`, `RenameFails`, `Record`, `MarkDone`, `MarkDoneFails` and `Leave` are a
worker; `JournalLine` and `JournalFails` the journal writer, or the buffer of
journal.py when it is closed; `Killed` a kill, perhaps within a line.

`RawConvert` is convert-raw with and without `--delete`, and convert_pb.py, which looks for
new files until it is stopped. Outputs are written in place (`Create`,
`WriteOutput`), and their existence means that the file is converted.
`ArchiveClean` is mjai-validator `--clean`: staging archive, rename, or copy
when rename fails. A record may fail to be read (`CleanRecord` with `read` false): its header, its path or
its data is in error, or the stream was before it. The code passes it over in each case and goes on to
replace the archive, so the action does not stop the run either. Only a failure to open or to write does
(`CleanFails`). What is valid is a set; `MjaiValidator` is the pass over the
lines of one file, which `MajsoulMoves` applies to the files it produces.

### KyokuConv (with KyokuRound)

A tenhou.net/6 log keeps, for each seat, the tiles it took and the tiles it put
down, and nothing of the order between the seats. `KyokuRound` plays rounds and
writes that log (external: it is the input of convlog): draws with and without
tsumogiri, chi, pon, daiminkan, ankan, kakan, reach, rounds that end by ron,
chankan, tsumo or without a winner, and the rule for the indicators. `played` is
what happened, which the log does not contain.

`KyokuConv` converts it. `TakesOf` and `DiscardsOf` are the conversion of the
items with `finalize_discards`. An attempt is the closure of that name: `Take`,
`DiscardStep` and the choice of the next actor are the three parts of its loop
body; the choice has an action for each outcome of the entry in `backtracks`
(`NobodyCalls`, `CallIsCertain`, `GuessFirst`, `GuessSecond`, `GiveUpGuess`).
`Retry` is the loop around the attempts. `begun` is history. The closure is a record of the
lists it captures and its locals, and what it does next is a function of that record
(`TakeFails`, `Taken`, `DiscardFails`, `Thrown`, `Candidates`, `Caller`, ...), on which the
proof about the search rests.

Abstracted: a tile is a number or `Other`, which stands for all tiles that play
no part; red fives are tiles of their own, as in the code. Which hand tiles a
call uses is left out here (`MeldCodes` has it), and so are the scores. The logs
are complete logs of legal rounds, so `InsufficientDiscards`, malformed naki
strings and a bad `kyoku_num` do not occur; `Feeds` never fails either.

### MjlogReplay, MajsoulMoves, MeldCodes (with Lists)

The same rounds of `KyokuRound` are recorded in two more ways and converted by
the code that reads these. All three modules are pure: folds over the events of a round.
`Lists` has the filters of a list in its order.

`MjlogReplay` writes the mjlog of a game of two such rounds, cuts it at its INIT tags
(`Rounds`, extract_round_indices) and replays the actions of each seat with the
flags `reach` and `lastDraw` (`ReplayOne`, replay_actions). The result must be
the tenhou.net/6 log that `KyokuRound` wrote, which ties the two input formats
of convlog together.

`MajsoulMoves` writes the Majsoul record and folds `events_to_mjai` over it, with
`reach` for pending_reach, `discarder` for last_discarder and `dropped` for
dropped_reach; there is one operator for each branch of the loop. The order of `tiles` and
`froms` within a call comes from the server and is an assumption.

`MeldCodes` takes a call through the bits of an N tag, the tiles as they lie on
the table, the text of tenhou-json and the naki string of convlog, as functions
over all 135 tiles, directions and unused copies.

### Layout

A property stands in the module whose behaviour it is about, together with the
history variables it needs: `untidy` in `LogPipeline`, `interrupted` in `TenhouFetch`,
`promised`, `announced` and `disputed` in `MajsoulLogs`, `cut` and `unread` in `RawPipeline`, each with a
`HistorySpec` that adds it to the specification. The MC modules hold
only the constants of the instances and what is about an instance.
The theorems about a module are in the module named after it with `Proofs`. `KyokuRoundProofs` has what
holds of the rounds that `KyokuRound` plays, of the logs that it writes and of the lists that `KyokuConv`
makes of them. Two modules
build on it: `KyokuConvProofs` with what holds of the search of convlog, and `KyokuRecordProofs` with what
the other two ways of recording a round are converted to (`MajsoulMoves`, `MjlogReplay`).

## 3. The runs

| Run | Instance | Shows |
|---|---|---|
| logs_single | 3 ids (one with 2 games), 1 download with 2 in flight, 1 convert, page size 2, limit 1, all disturbances; 128k states | `OwnershipInv`, `AttemptsBounded`, `NoPartialOutput`, `TriedOnce`, `QueueCovered`, refinement of `LogLifecycle`; `RunsEnd` and `EveryLogSettles` under fairness |
| logs_two_downloads | 2 ids, 2 downloads, 1 convert | violation of `StatsConsistent`, finding 1 |
| rpc_calls | 3 calls, 2 indices (modulus 3), counter modulo 7 started at 5, 2 tries; 152k states | `NoLeak`, `OwnResponseBeforeTimeout`, `ClosedIsTrue`; `EveryCallReturns` |
| fetch_listed | 3 days, 3 ids, one run at a time, 2 days in flight, 20 minutes = 2 ticks, import of a whole day, kills and failed statements; 11k states | `MarkedDayListed`, `PoliteUninterrupted`; `ListedAfterInterrupts` |
| fetch_default_end | the same days with the default options, no failure | violation of `EveryLogListed`, finding 2 |
| kyoku_rounds | rounds of 4 to 6 turns, 2 or 3 tiles, four profiles (calls; kans; reach and tsumogiri; ends on a draw); 918k states | `RoundRecovered`, `CertainIsRight`, `LegalOrder`, `DoraTiming`, `OneDoubtConverts`, `NoAttemptTwice`; `ReplayedAlike`, `MajsoulRecovered`, `MeldsKeepTheirTiles` |
| kyoku_two_doubts, kyoku_won | the profiles of calls and of ends on a draw | violations, findings 3 and 4 |
| majsoul_reach | reach and tsumogiri, five turns | violation of `AcceptedAtNextDraw`, finding 6 |
| majsoul_pipeline | ten scenarios over 3 games on 2 days (two with masked uuids, one without its first account), 2 chunks a day, 2 players, room listings cut at 1 game, limits of 1 and none, a restart after each game, and in two scenarios two downloads at the same time; 211k states | `ConvergedExhaustive`, `PhasesExhaustive`, `FullUuidRight`, `StoredForGood`; `ScrapeEnds`, `QueueDrains` |
| majsoul_downloadable | fetch-room, resolve-uuids and bulk-download of one game | violation of `NotYetDownloaded`, finding 5 |
| raw_alongside | 3 games and 2 accounts with a channel of one; one game alongside each of three converters; an archive of 3 records, one invalid, each readable or not; 426k states | `RecordKept`, `PartHasRecord`, `OneWholeCopy`; `RunEnds`; no deadlock |

Why the bounds suffice. *logs*: three ids give a page of two, a short page, and rows
before, on and behind the cursor; a payload of two games gives a failure after a
written file; limits of 1 and 2 attempts instead of 3 reach quarantine and what
follows it, and no statement compares a counter with anything but the limit.
Overlapping processes of one kind are covered by the theorem about
`AttemptsBounded`, which is proved for any number, and by the violation.

*rpc*: three calls on two usable indices fill the index space, skip index 0,
exhaust the tries and reuse an index; the counter's modulus is no multiple of
the index modulus, as 2^32 is none of 60007, so both wraps are met (counter 5, 6,
then 0 again, which maps to 2, 0, 0, 1, 2). *fetch*: the third day keeps
day 2 from being today for ever, and day 1 has two ids, so that it can be listed
partly.

*kyoku*: every round within the bounds of four profiles is explored. Six
turns (discards and kans) with three called tiles and at most two uncalled
discards are the fewest in which two places to guess at interfere: with five,
every guess is resolved and `EveryRoundConverts` holds. Five turns with kans give
a kakan or ankan after a daiminkan of the same seat; four turns with reach and
tsumogiri give a placeholder before, in and after a reach and a daiminkan, and
five the next draw of a seat after its reach. Tiles
are numbered in the order in which they come up, which removes the symmetry
between them. Longer rounds add turns in which nothing is in doubt; what they can
add beyond the bounds is three or more places to guess at, which the conversion
already fails on with two. `NoAttemptTwice` stands for termination: an attempt is
a function of the log and of `backtracks`, of which there are finitely many.
Two rounds a game show what a converter carries from one into the next.
`MeldsKeepTheirTiles` has no bound: it ranges over all N tags of legal calls.

*majsoul*: a scenario is a set of commands that write the same columns. Two days
give a date that is marked while the other fails; two chunks a date that is fetched
in part; a listing cut at one game is cut as soon as two games share a chunk; a page limit
of two is reached by a player of two games. Two masked uuids give an orphan
with a candidate, with none, and two rows for one game. Attempts stop at the limit
of 3 plus one, mismatches and connects at the code's own limits. Two downloads at the same time run
on the row of one game, with one queue (download twice) and with two (download, bulk-download, or each
twice): a mark touches one row, so what two processes can do to a row they can do with one row; more
processes and rows are covered by the theorem about `StoredForGood`. *raw*: with
three games and a channel of one the feeder blocks while a worker holds a game;
two accounts give a login that fails beside one that works, and a dead worker
beside a living one. Converters look at one file at a time, so one game
shows every order of its steps and those of the download. Three records with an invalid one
in the middle tell a cut archive from a cleaned one, and the first, the last or all of them can be unreadable.

Deadlock is checked except where the system may stop: all calls returned, all
days fetched, the round converted, a scenario of commands used up.
No symmetry is used. Every action is taken in some passing run.

Fairness. `LogPipeline!RunFairness`: a run that has begun is scheduled.
`OperatorFairness`: the commands are invoked again and again, as a cron job or
the manual's loop does. `MajsoulRpc!FairSpec`: the runtime polls a call that can
go on and its timer fires; a send completes or fails, which the operating system
decides. The reader and the server get no fairness. `TenhouFetch!Fairness`: time
passes, the operator starts a run whenever there is a day to ask for, a run goes
on, and - strong fairness - a file that is asked for again and again is some time
answered. `MajsoulLogs!Fairness`: a run of scrape-all goes on, and each process that runs download is
scheduled and started again and again. `RawPipeline!Fairness`: each worker task
and the main task of a download are scheduled, and requests and logins end in an
answer or a timeout. No liveness property holds without these: a request that always fails
or an operator who never runs a command leaves logs where they are. The
disturbances that would defeat a property are not assumed away from the start but from some
time on (`<>[][...]`), so it covers what they leave behind.

Conditions of the properties.

* `RoundRecovered` is for rounds that end on a discard; for those that end on a
  draw finding 4 refutes it, and `LegalOrder` is what remains.
  `OneDoubtConverts` is for one place to guess at, see finding 3.
* `CertainIsRight` speaks of a search that has not guessed (`Unguessed`: the first attempt, with nothing in
  `backtracks`), of a round with any end. It leaves out the dora events, of which `DoraTiming` speaks.
* `NoPartialOutput` is claimed as long as no convert was killed and all its marks and
  removals succeeded (`untidy`): the code cleans up only inside the process that wrote.
* `MarkedDayListed` promises one complete file of a marked day: a day
  is marked when one log type answered with something (fetch.rs:165), so a type
  whose request failed may be missing. It needs an `--end` before today and
  imported files that cover their day. `PoliteUninterrupted` is for one run at a
  time and up to the first interrupted one: attempts are recorded only after all
  requests of the run (fetch.rs:149), so fetch.rs:54-55, which promises
  politeness "even after failures or interrupted runs", says more than the code does.
* The `BeforeTimeout` properties of `MajsoulRpc` hold up to the
  first timeout: after one, the late response of the timed-out request can be
  delivered to the call that reuses its index, and `pending.remove(&idx)` may take
  another call's entry. Reuse needs 60006 further indices within the life of the
  late response (26278 around the wrap of the counter), so the code relies on the
  distance, not on a check.
* `ConvergedExhaustive` is about the games that are listed when scrape-all starts
  and that a player it has still to fetch leads to. The promise is withdrawn for
  a game whose day or player another command marks without having got the game, and
  for one that a cut room listing leaves out (`TakenAway`).
* `StoredForGood` leaves out two kinds of rows, in which a stored record does get lost. Rows that share a
  full uuid: the cross match and resolve-uuids can give a masked row the uuid of a game that has a row,
  and then the marks for one of them hit the other. And rows in dispute (`disputed`): two downloads
  have read the row into their queues, and one is not yet done with it. The error mark is
  unconditional (db.rs:509-515), as it is in finding 1, so when that one fails late it turns the row back
  that the other has stored. No document or comment says that two Majsoul downloads may overlap or may not, so
  this is a condition and not a finding. What the property does claim of overlapping downloads is that these are the only
  rows at risk: a row is safe from every download that read its queue after the row was stored.
* `OneWholeCopy` holds until a copy over the original is cut short, and for the records that could be read
  (all but `unread`). docs/mjai-validator.md:28 says "Removes invalid files from archives" and promises a safe
  atomic replacement. The fallback from rename to copy (main.rs:261) is not atomic, and what is removed
  is also every valid record that could not be read (main.rs:160-168, 184-187), with all that is behind an error in the
  archive's stream: the run goes on and puts the shortened archive in the place of the original.
* The model has one run of scrape-all, one multi-account download, one converter and one
  cleaning at a time; two of a kind at once are not modelled, and the properties about them say nothing of it.
* `RunEnds` leaves out the runs of async_downloader.py in which every worker has ended with an
  exception: the coordinator then waits for ever (async_downloader.py:376).
* `MajsoulRecovered` asks that no acceptance is invented or misplaced; that each
  reach gets its own is `AcceptedAtNextDraw`, which finding 6 refutes.

## 4. Findings

1. `mark_download_error` (db.rs:230-236) is unconditional. With two overlapping
   downloads the later failure of one turns a stored, even converted row back
   into a failed one; `stats` then reports what main.rs:636-637 calls
   inconsistent (`logs_two_downloads`).
2. `fetch` defaults to an end date of today and to skipping marked days, and
   marks today's file while it grows, which main.rs:118-121 gives as the reason
   for *not* doing so in fetch-days. Logs listed later that day are lost
   (`fetch_default_end`).
3. The search of convlog does not try all combinations: a later guess keeps its
   entry while an earlier one changes, all entries can be used up together, and
   a round that was played is rejected, against the comments at conv.rs:409 and
   conv.rs:808-810 (`kyoku_two_doubts`).
4. An attempt on a wrong guess can reach the draw on which the round was won
   before the other seats have used up their tiles. conv.rs:224-229 takes that
   for the end of the round: the conversion succeeds and the rest of the events
   is missing (`kyoku_won`).
5. bulk-download marks the normalized full uuid (parallel_download.rs:127, 134),
   which is the key of no row for a game that the room listing knows under
   another short uuid: the record is stored and counted, the row stays
   "downloadable" (db.rs:577) for ever. download-json marks the full uuid
   itself, which is the key of no row at all (`majsoul_downloadable`).
6. events_to_mjai keeps one pending reach for all seats. A second declaration
   before the first reacher's next draw overwrites it, and the first
   reach_accepted is lost, against convert.rs:154 and 201 (`majsoul_reach`).

## 5. The proofs

| Theorem | Statement | Assumes |
|---|---|---|
| `LogPipelineProofs!TypeCorrect` | `[]TypeOK` | the module's assumptions on its constants |
| `LogPipelineProofs!QuarantineHolds` | `[]AttemptsBounded` | the same: any overlap, crash or reset |
| `LogPipelineProofs!RowsOwned` | `[]OwnershipInv` | `OneAtATime`: at most one download and one convert process |
| `LogPipelineProofs!PipelineImplementsLifecycle` | `ImplementsLifecycle` | `OneAtATime` |
| `LogPipelineProofs!NothingIsTriedTwice` | `TriedOnce` | the module's assumptions: any overlap |
| `LogPipelineProofs!QueueIsVisited` | `QueueCovered` | `OneAtATime` |
| `LogPipelineProofs!NoPartialLogs` | `[]NoPartialOutput` | `OneConverter`: at most one convert process, any number of downloads |
| `TenhouFetchProofs!FetchTypeCorrect` | `[]TypeOK` | the module's assumptions |
| `TenhouFetchProofs!SkippedDaysListed` | `[]MarkedDayListed` | `ClosedDays`: no `--end` of today, whole import files |
| `TenhouFetchProofs!FetchIsPolite` | `[]PoliteUninterrupted` | `OneRun`: one run at a time |
| `MajsoulRpcProofs!RpcTypeCorrect` | `[]TypeOK` | the module's assumptions |
| `MajsoulRpcProofs!PendingLeaksNothing` | `[]NoLeak` | the same |
| `MajsoulRpcProofs!CallsRegistered`, `ResponsesMatch`, `ReportedClosedIsClosed` | `[]Registered`, `[]OwnResponseBeforeTimeout`, `[]ClosedIsTrue` | the same |
| `MajsoulLogsProofs!MajsoulTypeCorrect` | `[]TypeOK` | the modules' assumptions |
| `MajsoulLogsProofs!FullUuidsAreRight` | `[]FullUuidRight` | the same, of which `OneGameAtATime` |
| `MajsoulLogsProofs!PhasesLoseNothing` | `[]PhasesExhaustive` | the same |
| `MajsoulLogsProofs!ConvergedMissesNothing` | `[]ConvergedExhaustive` | the same |
| `MajsoulLogsProofs!StoredIsKept` | `StoredForGood` | the same: any number of downloads at the same time |
| `RawPipelineProofs!RawTypeCorrect` | `[]TypeOK` | the modules' assumptions |
| `RawPipelineProofs!DoneIsKept`, `CutOutputHasRecord` | `[]RecordKept`, `[]PartHasRecord` | the same |
| `RawPipelineProofs!ArchiveKept` | `[]OneWholeCopy` | the same: any number of cleanings, one after the other |
| `KyokuConvProofs!SearchEnds` | `NoAttemptTwice` | nothing: every round, every number of places to guess at |
| `KyokuConvProofs!ConvTypeOK` | `[]TypeOK` | tiles are numbers, `Other` is none, `Nobody` is no seat and no tile |
| `KyokuConvProofs!OrderIsLegal` | `[]LegalOrder` | the same: every legal round, every guess |
| `KyokuConvProofs!DoraIsTimed` | `[]DoraTiming` | the same |
| `KyokuConvProofs!CertainIsPlayed` | `[]CertainIsRight` | the same: every legal round, until the search comes to a guess |
| `KyokuRecordProofs!RecordIsRecovered` | `[]MajsoulRecovered` | the same: every legal round, played to its end |
| `KyokuRecordProofs!RoundsReplayAlike` | `[]ReplayedAlike` | the same: an mjlog of two such rounds |

With these, every safety property of the logs, fetch, RPC, Majsoul and raw runs is a theorem. Of
the run of the rounds these are: that what convlog returns is legal, that it is the round that was played if
nothing had to be guessed, and that the two formats whose records keep the order are converted to the round that was played and to the log that was written of it.
`OneGameAtATime` says that two games of one account do not start at the same time; the key of
the cross match (account and start, db.rs:866-931) relies on it.

The arguments:

* *Quarantine.* `AttemptsBounded` is not inductive: a process that holds an id
  has one strike to give. `DownloadAttemptsInv` and `ConvertAttemptsInv` add
  these rights: attempts plus holders of the id stay below the limit plus the
  number of processes. A snapshot takes an id only below the limit, an outcome
  turns a right into an attempt, a reset only lowers.
* *Ownership.* `OwnershipInv` is inductive with `TypeOK`. Its parts feed each
  other: a page row stays stored and unconverted because no second process marks
  it (`PagePending`, `SnapshotPending`), so its written files stay
  (`WrittenPresent`), so the mark finds them complete (`ConvertedComplete`).
  `OneAtATime` is needed: with two processes finding 1 breaks it.
* *Refinement.* Each action maps to a step of `LogLifecycle` or to a stutter;
  `WriteGame` and `FailGame` to `Output` or a stutter, `MarkRow` to `Finish`,
  for which `OwnershipInv` supplies the files.
* *The queue of a convert run.* `TriedInv`: what a run has tried lies at or before its cursor, so a
  page, which is taken after the cursor, is new. `CoverInv`: what it has not
  tried is still in the queue and after the cursor, and a last page leaves nothing. The first
  elements of a set come before those that a LIMIT drops (`FirstNBefore`), and a page that is not
  full drops none (`FirstNShort`). While other processes cannot touch these rows (`OwnershipInv`),
  only the run's own marks change the queue, and these are behind its cursor.
* *No partial output.* `PartialInv`: until a kill, or a removal or mark that fails, every file
  of a row that is not converted was written by the run that has the row in its page, is among the
  `written` first games, and the row has not failed yet. A failure removes exactly these; a
  success marks the row. Downloads cannot disturb this, so their number is free.
* *Marked days.* A run asks only for days before today (`AsksClosed`), whose
  files no longer change (`DayClosed`), so what it got of a day contains a whole
  file of it (`GotWhole`), and the day is marked only after all of that is
  inserted (`MarkedWhole`).
* *Politeness.* `PoliteInv`: until a run is interrupted, the attempt that is recorded for a day is
  no older than the last request for a file of it, unless the run has still to record it
  (`AttemptsKnown`), and what a run still has to ask for was last asked for at least 20 minutes
  ago (`AsksOld`), of which the records assure it when it starts.
* *Full uuids.* `RowsInv`: a row was inserted with its full uuid or by a room listing, and its
  owner played its game. The cross match and the recoveries give a row the full uuid of a game
  of the same account and start, which by `OneGameAtATime` is its own game.
* *Scraping.* `AnnouncedInv`: an announced game has its full uuid or one of its accounts is
  still to be scraped. `PromiseInv` follows each promised game through the rounds of
  scrape-all: it has its full uuid, or one of its accounts is still to be fetched, or its day is
  still to be listed and leads to such an account; a chunk that failed keeps its day from being marked.
* *Stored records.* A mark is for a row that was open when its download read its queue, perhaps long ago.
  `QueueInv`: every row of every queue is still not downloaded, unless another row has its
  full uuid or it is in dispute, and each row in two queues is in dispute. A row can be stored only by a
  download that has it in its queue; another one that has it too makes it disputed, and it stays so until the
  last of them is done with it (`DisputedKept`). So a mark of a row that is neither shared nor
  disputed never hits a stored one (`TurnMarks`).
* *Raw files.* `RecordInv`: what the journal or the scan of the disk counts as done has a record or an
  output; a converter that has deleted, or is about to delete, a record has its output whole
  (`OutputInHand`). `CopyInv`: the valid records that a cleaning has behind it are in the
  staging archive or could not be read, and those before it are in the source.
* *The search of convlog.* An attempt is a function of the lists and of `backtracks`, and so is
  what it leaves there. The proof shows that this function is injective. An attempt asks for a key at
  most once, since the actor's discard index grows between two guesses (`Behind`), and
  asking turns the entry by one step of the cycle absent, first, second, absent. So the entries that are left tell
  every choice that was made (`Chosen`): two failed attempts that leave the same entries took the same course
  (`PathUnique`, by a least step at which they differ) and began with the same
  (`RunInjective`). Hence backtracks that come back would make the attempt before them come back
  first, down to the first attempt, which began with none; but where none are left the loop ends.
  The invariant (`SearchInv`) says that the present attempt has a course
  from some C in `begun`, and that everything in `begun` but the empty backtracks was left by an attempt that began
  with another member than C. It speaks of courses of any length, so TLC cannot evaluate it; what it implies,
  `NoAttemptTwice`, TLC checks.
* *The lists of a seat.* `RoundInv` says of a round under way what the log of each seat looks
  like: which items a turn adds, that only the seat whose turn it is can be one take ahead, what follows a kan, and
  that a reach has no call before it. From it `ListsAligned` shows, for lists of any length, that what
  `DiscardsFrom` makes of them is `Aligned`: there is a place P in the discards for each take, from which the
  discards of this take reach to the place of the next (`Turn`: a dahai, a reach with its dahai, a kan that a draw
  follows, or none after a daiminkan and at the end). The functions behind `DiscardsFrom` are recursive; their induction is done
  by a least index at which a claim fails (`UpTo`, `Repeat`, `Growing`), once for the layout of the discards
  (`RawLaidOut`) and once for the filling of tsumogiri and the dropping of placeholders (`FinalsSteps`).
* *A legal order.* `AttemptInv` keeps an attempt to these places, whichever way it guesses (`InPlace`):
  between two turns each seat's discards are at the place of its takes, and only the actor that is to discard is
  one turn behind. So the next take or discard is the one that belongs there, a daiminkan or kan is followed
  by a draw of the same seat, and the lists are not read past their ends. `InOrder` adds what the last move
  is: before a take it is the discard in `lastDiscard` of the seat in `lastActor`, or a kan of the
  actor, which is what `Unexpected` compares a call with.
* *Indicators.* `DoraDue` counts: the indicators shown and the two flags (`doraAtDiscard`, `doraAtTsumo`) are as many as
  the kans. While a flag is set the next take is a draw, and the only open kan that no draw has followed is
  the last one, whose flag is `doraAtDiscard`; so what is shown at a draw is due for an earlier kan. That a reach
  needs no flag tested rests on the lists: a seat that has a flag has called, and then it cannot declare reach.
* *Without a guess.* The lists of a seat are its takes and its discards among the events of the round, in their
  order (`ListsInv`), whose turns and indicators `TurnsInv` follows. `Track` says that an attempt is at some
  event n of the round: each of its indices counts the takes or discards of a seat among the first n events, its
  events without dora are the first n, and its flags and its feed of indicators are those due there. An attempt
  can leave this course only at a discard that a naki of another seat fits. That naki answers a discard of this
  seat and tile in the round (`NakiAnswers`); if the seat has no later discard of the tile, which is
  what `Ambiguous` looks for, it is this one (`ClaimIsNext`). And `Noted`, that each key of `backtracks` names a
  discard already passed, shows that no key is asked for again in the first attempt, so that backtracks are empty
  only if nothing was guessed.
* *A record is recovered.* `events_to_mjai` is a fold over the events of the record, so the claim is about
  each prefix of a round. `PlayInv` joins `RoundInv` with `PlayedInv`: which event may follow
  which (`Chain`; a dora is revealed only after a draw, a discard or a kan, a reach is followed by its dahai, a
  call takes the last discard), and how the last of them goes with the table
  (`LastFits`). For each kind of record entry a lemma says what the loop has written and what
  `reach`, `discarder` and `dropped` are after it; together they give what was played, but for
  acceptances, of which none is misplaced. The validator is a second fold; its pass is put in closed form, one
  claim for each pair of neighbouring events, and `Chain` gives each of them.
* *Replay of an mjlog.* `ReplayInv` says of a round under way that the replay of a seat's actions so far gives the
  lists of takes and discards that `KyokuRound` has written for it, that `reach` is off, and that
  `lastDraw` is nothing for every seat that is not about to discard. The rest is about the file: where it is
  cut (`Rounds`), that each round has exactly the tags that were written, and how many dora tags. The two ways differ in
  one thing, a placeholder at the end of a seat's discards, which the replay takes off
  (`WithoutLastZeros`); that changes nothing, since `finalize_discards` drops it.
* *RPC.* `LeakInv` adds to `NoLeak` that a call without an index has an empty
  channel and no entry. `ResponseInv` adds to `Registered` that on an open
  connection no channel was closed and that what a channel holds is the call's
  own; a timeout is remembered in `result`, so the step is proved under "no
  timeout before and after".

Before it was proved, each inductive invariant but `SearchInv` was checked by TLC as an invariant
of the run of its module; of `Aligned`, with the places counted out instead of chosen.

Only model-checked:

* All liveness: `RunsEnd`, `EveryLogSettles`, `ListedAfterInterrupts`, `EveryCallReturns`, `ScrapeEnds`,
  `QueueDrains`, `RunEnds`. Fairness and ENABLED are out of the prover's reach.
* `RoundRecovered` and `OneDoubtConverts` of `KyokuConv`. They are claims about a heuristic: the log does not
  determine the order, and larger rounds may escape them. What is proved instead is that whatever is
  returned is legal, though it may be another legal round than the one that was played, and that without a guess
  it is the one that was played (`CertainIsPlayed`).
* `MeldsKeepTheirTiles` ranges over all N tags of legal calls, so TLC has checked it completely.

## 6. What is left

Proofs: that `Feeds` never fails for the indicators of a legal round after a guess, as it does not before one
(`CertainIsPlayed`); it needs the count of `DoraDue` for the round as well. The modules have no
RECURSIVE operators, so that all of them can be proved about.

Not modelled, and why:

* `to_tenhou.rs` is a skeleton that always returns an error; the token pool has no caller.
* The conversion of rows of `majsoul_logs` (`convert_logs` in majsoul/convert.rs) repeats the policy of the Tenhou
  convert: queue, attempts, one file, mark.
* The score table (calc.rs) and the points of a round: functions of han and fu
  without state. They decide nothing about the order of events.
* The decoding of XML, JSON and protobuf and the tile codes (except for calls),
  export, packaging and tenhou2mjai: input and output without state of their own.
* The browser, the password hash, the gateways' fallback and the requests of a
  login: what happens is decided outside of this repository. Only their outcome
  and its retries are modelled.
* Games with three players: `nukidora` is an event of the converter, but the
  validator and convlog ask for four hands.
* The vendored tensoul package, and the one-time migration of file names in
  raw-download and tensoul-download.
