--------------------------- MODULE MajsoulScrape ---------------------------
(***************************************************************************)
(* How the games of the throne room get into the tables: scrape-all with   *)
(* its rounds, and the commands that do one part of its work (fetch-room,  *)
(* fetch, fetch-public, fetch-full-uuids, recover-orphans, resolve-uuids,  *)
(* resolve-phantoms, fetch-days, scrape-players, reset-capped-players).    *)
(*                                                                         *)
(* The loops of these other commands are taken apart into steps, one per   *)
(* day or player, which occur in any order: what a step writes is inserted *)
(* if absent or filled if empty, so that a run that is interleaved with    *)
(* others, or killed, is some sequence of such steps.                      *)
(***************************************************************************)
EXTENDS MajsoulTables

VARIABLE scrape       \* the run of scrape-all

ScrapeStages == {"idle", "dates", "expand", "players", "match", "check", "converged"}
NoScrape == [stage |-> "idle", dates |-> {}, none |-> FALSE, chunks |-> {}, ok |-> FALSE,
             players |-> {}, new |-> FALSE, failures |-> FALSE]

ScrapeOK ==
  scrape \in [stage : ScrapeStages, dates : SUBSET Days, none : BOOLEAN,
              chunks : SUBSET Chunks, ok : BOOLEAN, players : SUBSET Players,
              new : BOOLEAN, failures : BOOLEAN]

-----------------------------------------------------------------------------
\* scrape-all

\* mutant: every round asks for all dates
NewRoundAllDates ==
  [NoScrape EXCEPT !.stage = "dates", !.dates = 1..today, !.chunks = Chunks, !.ok = TRUE]

\* A round begins with the dates up to today that are not marked as fetched.
NewRound ==
  LET dates == {d \in Days : d <= today} \ room_fetched
  IN [NoScrape EXCEPT !.stage = IF dates = {} THEN "expand" ELSE "dates",
                      !.dates = dates, !.none = (dates = {}),
                      !.chunks = Chunks, !.ok = TRUE]

ScrapeAll ==
  /\ "scrape-all" \in scenario.commands /\ scrape.stage \in {"idle", "converged"}
  /\ scrape' = NewRound
  /\ UNCHANGED tables

\* The first chunk of the first date that is still to be asked for.
CurrentDate(d, c) ==
  scrape.stage = "dates" /\ IsFirst(d, scrape.dates) /\ IsFirst(c, scrape.chunks)

ScrapeChunk(d, c, got) ==
  /\ CurrentDate(d, c)
  /\ rows' = InsertRoomGames(got)
  /\ throne' = Upsert(throne, AccountsOf({g \in got : ~Skipped(g)}))
  /\ scrape' = [scrape EXCEPT !.chunks = @ \ {c}, !.new = @ \/ Inserted(rows')]
  /\ UNCHANGED <<room_fetched, pipeline, day_fetched>>

\* fetch_with_retry gave up
ScrapeChunkFails(d, c) ==
  /\ CurrentDate(d, c)
  /\ scrape' = [scrape EXCEPT !.chunks = @ \ {c}, !.ok = FALSE, !.failures = TRUE]
  /\ UNCHANGED tables

\* mutant: the date is marked whatever failed
ScrapeDateAnyway(d) ==
  /\ scrape.stage = "dates" /\ scrape.chunks = {} /\ IsFirst(d, scrape.dates)
  /\ room_fetched' = room_fetched \cup {d}
  /\ scrape' = [scrape EXCEPT !.dates = @ \ {d}, !.chunks = Chunks, !.ok = TRUE,
                              !.stage = IF scrape.dates = {d} THEN "expand" ELSE @]
  /\ UNCHANGED <<rows, throne, pipeline, day_fetched>>

\* A date is marked only if all of its chunks were fetched.
ScrapeDate(d) ==
  /\ scrape.stage = "dates" /\ scrape.chunks = {} /\ IsFirst(d, scrape.dates)
  /\ room_fetched' = IF scrape.ok THEN room_fetched \cup {d} ELSE room_fetched
  /\ scrape' = [scrape EXCEPT !.dates = @ \ {d}, !.chunks = Chunks, !.ok = TRUE,
                              !.stage = IF scrape.dates = {d} THEN "expand" ELSE @]
  /\ UNCHANGED <<rows, throne, pipeline, day_fetched>>

Expand ==
  /\ scrape.stage = "expand"
  /\ scrape' = [scrape EXCEPT !.players = Unfetched(throne),
                              !.stage = IF Unfetched(throne) = {} THEN "match" ELSE "players"]
  /\ UNCHANGED tables

DonePlayer(p) ==
  [scrape EXCEPT !.players = @ \ {p},
                 !.stage = IF scrape.players = {p} THEN "match" ELSE @]

\* The pages of a player, of which every player is a new one to fetch.
ScrapePlayer(p) ==
  LET games == PlayerListing(p)
  IN /\ scrape.stage = "players" /\ p \in scrape.players
     /\ rows' = InsertFullGames(games, p)
     /\ throne' = MarkFetched(Upsert(throne, AccountsOf(games)), p)
     /\ scrape' = [DonePlayer(p) EXCEPT !.new = @ \/ Inserted(rows')]
     /\ UNCHANGED <<room_fetched, pipeline, day_fetched>>

ScrapePlayerFails(p) ==
  /\ scrape.stage = "players" /\ p \in scrape.players
  /\ scrape' = [DonePlayer(p) EXCEPT !.failures = TRUE]
  /\ UNCHANGED tables

ScrapeMatch ==
  /\ scrape.stage = "match"
  /\ rows' = CrossMatched
  /\ scrape' = [scrape EXCEPT !.stage = "check", !.new = @ \/ rows' # rows]
  /\ UNCHANGED <<throne, room_fetched, pipeline, day_fetched>>

Converged ==
  /\ ~scrape.new /\ ~scrape.failures
  /\ scrape.none /\ Unfetched(throne) = {}

ScrapeCheck ==
  /\ scrape.stage = "check"
  /\ scrape' = IF Converged THEN [NoScrape EXCEPT !.stage = "converged"] ELSE NewRound
  /\ UNCHANGED tables

\* A run is killed, or ends on an error of the database, between two
\* statements: the games of a chunk or of a player are stored in part, and a
\* game of a chunk perhaps without its players.
StoredInPart ==
  \/ UNCHANGED tables
  \/ \E d \in Days, c \in Chunks :
       /\ CurrentDate(d, c)
       /\ \E part \in SUBSET RoomListing(d, c) : \E whole \in SUBSET part :
            /\ rows' = InsertRoomGames(part)
            /\ throne' = Upsert(throne, AccountsOf({g \in whole : ~Skipped(g)}))
       /\ UNCHANGED <<room_fetched, pipeline, day_fetched>>
  \/ \E p \in scrape.players :
       /\ \E part \in SUBSET PlayerListing(p) :
            /\ rows' = InsertFullGames(part, p)
            /\ throne' = Upsert(throne, AccountsOf(part))
       /\ UNCHANGED <<room_fetched, pipeline, day_fetched>>

ScrapeKilled ==
  /\ scrape.stage \notin {"idle", "converged"}
  /\ scrape' = NoScrape
  /\ StoredInPart

ScrapeStep ==
  \/ ScrapeAll
  \/ \E d \in Days, c \in Chunks : \E got \in RoomAnswers(d, c) : ScrapeChunk(d, c, got)
  \/ \E d \in Days, c \in Chunks : ScrapeChunkFails(d, c)
  \/ \E d \in Days : ScrapeDate(d)
  \/ Expand
  \/ \E p \in Players : ScrapePlayer(p)
  \/ \E p \in Players : ScrapePlayerFails(p)
  \/ ScrapeMatch
  \/ ScrapeCheck
  \/ ScrapeKilled

-----------------------------------------------------------------------------
\* The other commands.

\* fetch-room: one date up to today, marked or not (--skip-fetched leaves the marked ones
\* out).  A chunk that fails is only logged, and the date is marked all the
\* same, unless the run is killed before.  The players are not recorded.
FetchRoomDay(d, got, killed) ==
  /\ d <= today
  /\ \A c \in Chunks : got \cap RoomListing(d, c) \in RoomAnswers(d, c) \cup {{}}
  /\ rows' = InsertRoomGames(got)
  /\ room_fetched' = IF killed THEN room_fetched ELSE room_fetched \cup {d}
  /\ UNCHANGED <<throne, pipeline, day_fetched>>

\* fetch: the games of one player in a range of dates
FetchPlayer(p, days) ==
  /\ rows' = InsertFullGames({g \in PlayerListing(p) : DayOf[g] \in days}, p)
  /\ UNCHANGED <<throne, room_fetched, pipeline, day_fetched>>

\* fetch-public: a game of the lists of the server, under one of its players
FetchPublic(g, p) ==
  /\ g \in published /\ p \in Accounts(g)
  /\ rows' = InsertFullGames({g}, p)
  /\ UNCHANGED <<throne, room_fetched, pipeline, day_fetched>>

\* fetch-full-uuids: the table is filled from the rows if it is empty; a page
\* that is refused or cannot be decoded ends the pages, and what came before
\* it is taken for the whole.
Populate ==
  /\ throne = [p \in Players |-> "absent"]
  /\ throne' = Upsert(throne, {rows[u].owner : u \in Present})
  /\ UNCHANGED <<rows, room_fetched, pipeline, day_fetched>>

FetchFullUuids(p, pages) ==
  /\ throne[p] = "new"
  /\ rows' = InsertFullGames(pages, p)
  /\ throne' = MarkFetched(throne, p)
  /\ UNCHANGED <<room_fetched, pipeline, day_fetched>>

\* recover-orphans: the pages of a player are all there or an error, after
\* which the player stays unfetched; orphans are matched in the end.
RecoverPlayer(p) == FetchFullUuids(p, PlayerListing(p))

RecoverMatch ==
  /\ rows' = CrossMatched
  /\ UNCHANGED <<throne, room_fetched, pipeline, day_fetched>>

\* resolve-uuids, resolve-phantoms: the server names the full uuid of a short one
ResolveUuid(u) ==
  /\ u \in Orphans
  /\ rows' = SetOrphanFull(u, GameOf[u])
  /\ UNCHANGED <<throne, room_fetched, pipeline, day_fetched>>

\* mutant: the mark comes before the players
FetchDayMarkFirst(d, killed) ==
  /\ d <= today /\ d \notin day_fetched
  /\ day_fetched' = day_fetched \cup {d}
  /\ pipeline' = IF killed THEN pipeline ELSE Upsert(pipeline, AccountsOf(DayListing(d)))
  /\ UNCHANGED <<rows, throne, room_fetched>>

\* fetch-days: one day; its players in one transaction, then its mark (account 0,
\* which gets a row too, is left out)
FetchDay(d, killed) ==
  /\ d <= today /\ d \notin day_fetched
  /\ pipeline' = Upsert(pipeline, AccountsOf(DayListing(d)))
  /\ day_fetched' = IF killed THEN day_fetched ELSE day_fetched \cup {d}
  /\ UNCHANGED <<rows, throne, room_fetched>>

\* scrape-players
ScrapePipelinePlayer(p) ==
  /\ pipeline[p] = "new"
  /\ rows' = InsertFullGames(PlayerListing(p), p)
  /\ pipeline' = MarkFetched(pipeline, p)
  /\ UNCHANGED <<throne, room_fetched, day_fetched>>

ResetCappedPlayers ==
  /\ throne' = ResetCapped
  /\ UNCHANGED <<rows, room_fetched, pipeline, day_fetched>>

OtherStep ==
  \/ /\ "fetch-room" \in scenario.commands
     /\ \E d \in Days, killed \in BOOLEAN :
          \E got \in SUBSET DayListing(d) : FetchRoomDay(d, got, killed)
  \/ /\ "fetch" \in scenario.commands
     /\ \E p \in Players, days \in SUBSET Days : FetchPlayer(p, days)
  \/ /\ "fetch-public" \in scenario.commands
     /\ \E g \in published, p \in Players : FetchPublic(g, p)
  \/ "fetch-full-uuids" \in scenario.commands /\ Populate
  \/ /\ "fetch-full-uuids" \in scenario.commands
     /\ \E p \in Players : \E pages \in SUBSET PlayerListing(p) : FetchFullUuids(p, pages)
  \/ "recover-orphans" \in scenario.commands /\ \E p \in Players : RecoverPlayer(p)
  \/ "recover-orphans" \in scenario.commands /\ RecoverMatch
  \/ "resolve-uuids" \in scenario.commands /\ \E u \in Uuids : ResolveUuid(u)
  \/ "fetch-days" \in scenario.commands /\ \E d \in Days, killed \in BOOLEAN : FetchDay(d, killed)
  \/ "scrape-players" \in scenario.commands /\ \E p \in Players : ScrapePipelinePlayer(p)
  \/ "reset-capped-players" \in scenario.commands /\ ResetCappedPlayers

OtherCommand == OtherStep /\ UNCHANGED scrape
=============================================================================
