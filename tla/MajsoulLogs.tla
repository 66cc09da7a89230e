---------------------------- MODULE MajsoulLogs ----------------------------
(***************************************************************************)
(* The Majsoul pipeline up to the downloaded records: scraping fills the   *)
(* tables, and the downloads take their queue from them, each in a process *)
(* of its own.  A scenario says which games there are, which commands are  *)
(* used together, and how many downloads at the same time.                 *)
(***************************************************************************)
EXTENDS MajsoulScrape, MajsoulDownload

CONSTANT Scenarios

ASSUME ScenariosAssumption ==
  \A s \in Scenarios :
    /\ s.games \subseteq Games
    /\ s.kinds \subseteq DownloadKinds /\ s.downloaders \subseteq Downloaders

vars == <<scenario, service, tables, scrape, download, succeeded>>

Init ==
  /\ scenario \in Scenarios
  /\ today \in Days
  /\ published \in SUBSET {g \in scenario.games : DayOf[g] <= today}
  /\ InitTables
  /\ scrape = NoScrape
  /\ download = [p \in Downloaders |-> NoDownload] /\ succeeded = {}

\* Games are played, and get into the listings the same day.
Publish(g) ==
  /\ g \in scenario.games \ published /\ DayOf[g] = today
  /\ published' = published \cup {g}
  /\ UNCHANGED <<scenario, today, tables, scrape, download, succeeded>>

NextDay ==
  /\ today + 1 \in Days
  /\ today' = today + 1
  /\ UNCHANGED <<scenario, published, tables, scrape, download, succeeded>>

Scrape == ScrapeStep /\ UNCHANGED <<scenario, service, download, succeeded>>
Others == OtherCommand /\ UNCHANGED <<scenario, service, download, succeeded>>
Downloads(p) == DownloadStep(p) /\ UNCHANGED <<scenario, service, scrape>>

Next ==
  \/ \E g \in Games : Publish(g)
  \/ NextDay
  \/ Scrape
  \/ Others
  \/ \E p \in Downloaders : Downloads(p)

Spec == Init /\ [][Next]_vars

TypeOK == scenario \in Scenarios /\ TablesOK /\ ScrapeOK /\ DownloadOK
-----------------------------------------------------------------------------
\* History: the games that scrape-all is to find, those that scrape-players is
\* to find, and the rows that two downloads have queued at the same time.
VARIABLES promised, announced, disputed
historyVars == <<vars, promised, announced, disputed>>

\* A run has to find the games that are listed when it starts, by way of a
\* player it has not fetched: one who is known already, or becomes known
\* because the date of the game is still to be fetched.
InReach(g) ==
  \/ \E p \in Accounts(g) : throne[p] = "new"
  \/ /\ DayOf[g] \notin room_fetched /\ ~Skipped(g)
     /\ \E p \in Accounts(g) : throne[p] = "absent"

\* Another command may mark the date of a game, or a player of it whose pages
\* broke off before it, and a room listing may be cut before it.
TakenAway(g) ==
  \/ UNCHANGED scrape /\ DayOf[g] \in room_fetched' \ room_fetched
  \/ /\ UNCHANGED scrape
     /\ \E p \in Accounts(g) : \E pages \in SUBSET (PlayerListing(p) \ {g}) :
          FetchFullUuids(p, pages)
  \/ /\ \E got \in RoomAnswers(DayOf[g], ChunkOf[g]) :
          g \notin got /\ ScrapeChunk(DayOf[g], ChunkOf[g], got)
     /\ \A p \in Accounts(g) : throne'[p] # "new"

Promise ==
  IF scrape' # scrape /\ scrape.stage \in {"idle", "converged"}
  THEN promised' = {g \in published : InReach(g)}
  ELSE promised' = {g \in promised : ~TakenAway(g)}

\* fetch-days has listed the game and names a player who is not yet scraped
Announce ==
  announced' = announced \cup
    {g \in published : /\ DayOf[g] \in day_fetched' \ day_fetched
                       /\ \E p \in Accounts(g) : pipeline[p] # "fetched"}

\* A row stays in dispute until the last download that has it is done with it.
Held(u) == \E p \in Downloaders : u \in download[p].todo
Contested(u) ==
  \E p, q \in Downloaders : p # q /\ u \in download[p].todo /\ u \in download[q].todo
Dispute == disputed' = {u \in Uuids : Held(u)' /\ (u \in disputed \/ Contested(u)')}

HistoryInit == Init /\ promised = {} /\ announced = {} /\ disputed = {}
HistoryNext == Next /\ Promise /\ Announce /\ Dispute

\* A run goes on until it ends; download is started again and again.
Fairness ==
  /\ WF_vars(/\ scenario.commands = {"scrape-all"}
             /\ scrape.stage \notin {"idle", "converged"} /\ Scrape)
  /\ \A p \in Downloaders : WF_vars(scenario.kinds = {"download"} /\ Downloads(p))
HistorySpec == HistoryInit /\ [][HistoryNext]_historyVars /\ Fairness

\* When scrape-all reports convergence, every game within its reach at the
\* start has a row with its full uuid, whatever failed in between
\* (main.rs:1254-1258, 1358-1372).
ConvergedExhaustive ==
  scrape.stage = "converged" => \A g \in promised : rows[g].full = g

\* What counts as downloadable is not yet downloaded (db.rs:577).
NotYetDownloaded ==
  \A u \in UndownloadedWithFull :
    rows[u].full \notin succeeded

\* When no player of the pipeline is left to scrape, every game announced by
\* fetch-days has a row, although runs are killed between the players of a day
\* and its mark (api.rs:377-394, main.rs:1466-1540).
PhasesExhaustive ==
  Unfetched(pipeline) = {} => \A g \in announced : rows[g].full = g

\* No row ever gets the full uuid of another game, whichever command set it
\* (db.rs:866-931).
FullUuidRight == \A u \in Uuids : rows[u].full \in {None, GameOf[u]}

\* A record that is stored stays stored, whatever other downloads, scraping runs
\* and resets are under way (db.rs:501-515).  The marks are unconditional, so
\* there are two ways to lose it: another row has the same full uuid, or two
\* downloads had the row in their queues at the same time and one is not yet
\* done with it.  The property says that these are the only ones.
StoredForGood ==
  [][\A u \in Uuids :
       /\ rows[u].is_downloaded = 1
       /\ u \notin disputed
       /\ \A v \in Uuids \ {u} : rows[u].full = None \/ rows[v].full # rows[u].full
       => rows'[u].is_downloaded = 1]_historyVars

\* scrape-all comes to its end, if from some time on its requests are answered
\* (main.rs:1164-1379).
NoFailure == scrape'.failures => scrape.failures
ScrapeEnds ==
  scenario.commands = {"scrape-all"} =>
    (<>[][NoFailure]_vars => []<>(scrape.stage \in {"idle", "converged"}))

\* download gets every row out of its queue, stored or with three attempts, even
\* one row at a time, if from some time on its runs are not cut short and its
\* marks are not lost (db.rs:484-515, download.rs:83-129).
Whole ==
  scenario.kinds = {"download"} =>
    \A p \in Downloaders :
      /\ download'[p].stage = "idle" /\ download[p].stage # "idle" =>
           /\ download[p].stage = "ask"
           /\ download[p].todo = {} \/ download[p].mismatches = 3
      /\ ~RetryErrors(p)
      /\ \A u \in Uuids :
           /\ Arrives(p, u, FALSE) => rows'[u].is_downloaded = 1
           /\ VersionMismatch(p, u, FALSE) => download[p].mismatches = 3
QueueDrains ==
  scenario.kinds = {"download"} =>
    (<>[][Whole]_vars => <>[](Undownloaded = {}))
=============================================================================

