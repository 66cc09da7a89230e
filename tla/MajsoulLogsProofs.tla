------------------------- MODULE MajsoulLogsProofs -------------------------
(***************************************************************************)
(* Proofs about MajsoulLogs: type correctness, the full uuids of the rows, *)
(* what the scraping runs promise when they report that nothing is left,   *)
(* and the records that stay stored.                                       *)
(***************************************************************************)
EXTENDS MajsoulLogs, FiniteSetTheorems, TLAPS

-----------------------------------------------------------------------------
(***************************************************************************)
(* The rows of majsoul_logs.                                               *)
(***************************************************************************)

\* The owner of a row played its game.
OwnerPlays ==
  \A u \in Uuids : rows[u].owner # None => rows[u].owner \in Accounts(GameOf[u])

\* A row was inserted with its full uuid, or by a room listing.
RowOrigin ==
  \A u \in Present : rows[u].full = u \/ u = RoomUuid[GameOf[u]]

RowsInv == OwnerPlays /\ FullUuidRight /\ RowOrigin

\* What scraping may do to a row r of uuid u: leave it, insert it from a room
\* listing, insert it with its full uuid, or fill in the full uuid.
Filled(u, r, s) ==
  \/ s = r
  \/ /\ r = Absent /\ u = RoomUuid[GameOf[u]]
     /\ \E p \in Accounts(GameOf[u]) : s = [Absent EXCEPT !.owner = p]
  \/ /\ r = Absent /\ u \in Games
     /\ \E p \in Accounts(u) : s = [Absent EXCEPT !.owner = p, !.full = u]
  \/ /\ r.owner # None /\ r.full = None
     /\ s = [r EXCEPT !.full = GameOf[u]]
RowsFilled ==
  rows' = [u \in Uuids |-> rows'[u]] /\ \A u \in Uuids : Filled(u, rows[u], rows'[u])

\* What a download may do to a row: nothing, or set its mark and its attempts.
RowsMarked ==
  /\ rows' = [u \in Uuids |-> rows'[u]]
  /\ \A u \in Uuids :
       \/ rows'[u] = rows[u]
       \/ /\ rows[u].owner # None
          /\ \E d \in {-1, 0, 1}, n \in 0..AttemptBound :
               rows'[u] = [rows[u] EXCEPT !.is_downloaded = d, !.attempts = n]

\* The accounts of a game are players, and the first of them is one.
LEMMA AccountsTyped ==
  ASSUME NEW g \in Games
  PROVE  /\ Accounts(g) \subseteq Players
         /\ ~Skipped(g) => FirstAccount(g) \in Accounts(g)
<1>1. PlayersOf[g] \in Seq(Players \cup {None})
  BY GamesAssumption
<1>2. \A i \in 1..Len(PlayersOf[g]) : PlayersOf[g][i] \in Players \cup {None}
  BY <1>1
<1>3. PlayersOf[g] # << >> => 1 \in 1..Len(PlayersOf[g])
  BY <1>1
<1> QED
  BY <1>2, <1>3 DEF Accounts, Skipped, FirstAccount

\* A listing has games only.
LEMMA ListingsTyped ==
  ASSUME TablesOK
  PROVE  /\ \A p : PlayerListing(p) \subseteq Games
         /\ \A p : \A g \in PlayerListing(p) : p \in Accounts(g)
         /\ \A d : DayListing(d) \subseteq Games
         /\ \A d, c : RoomListing(d, c) \subseteq Games
         /\ \A d, c : \A got \in RoomAnswers(d, c) : got \subseteq Games
BY DEF TablesOK, PlayerListing, DayListing, RoomListing, RoomAnswers

\* The statements of scraping only fill rows.
LEMMA RoomFills ==
  ASSUME TablesOK, NEW games \in SUBSET Games, rows' = InsertRoomGames(games)
  PROVE  RowsFilled
<1>1. SUFFICES ASSUME NEW u \in Uuids PROVE Filled(u, rows[u], rows'[u])
  BY DEF RowsFilled, InsertRoomGames
<1>2. CASE rows[u] = Absent /\ \E g \in games : RoomUuid[g] = u /\ ~Skipped(g)
  <2>1. PICK g \in games : RoomUuid[g] = u /\ ~Skipped(g)
    BY <1>2
  <2>2. GameOf[u] = g /\ u = RoomUuid[GameOf[u]]
    BY <2>1, GamesAssumption
  <2>3. FirstAccount(GameOf[u]) \in Accounts(GameOf[u])
    BY <2>1, <2>2, AccountsTyped
  <2>4. rows'[u] = [Absent EXCEPT !.owner = FirstAccount(GameOf[u])]
    BY <1>2 DEF InsertRoomGames
  <2> QED
    BY <1>2, <2>2, <2>3, <2>4 DEF Filled
<1>3. CASE ~(rows[u] = Absent /\ \E g \in games : RoomUuid[g] = u /\ ~Skipped(g))
  BY <1>3 DEF InsertRoomGames, Filled
<1> QED
  BY <1>2, <1>3

LEMMA FullFills ==
  ASSUME TablesOK, NEW games \in SUBSET Games, NEW p,
         \A g \in games : p \in Accounts(g),
         rows' = InsertFullGames(games, p)
  PROVE  RowsFilled
<1>1. SUFFICES ASSUME NEW u \in Uuids PROVE Filled(u, rows[u], rows'[u])
  BY DEF RowsFilled, InsertFullGames
<1>2. CASE u \notin games
  BY <1>2 DEF InsertFullGames, Filled
<1>3. CASE u \in games /\ rows[u] = Absent
  BY <1>3 DEF InsertFullGames, Filled
<1>4. CASE u \in games /\ rows[u] # Absent
  <2>1. rows[u].owner # None /\ GameOf[u] = u
    BY <1>4, GamesAssumption DEF TablesOK
  <2>2. rows[u] \in Row
    BY DEF TablesOK
  <2>3. rows'[u] = [rows[u] EXCEPT !.full = IF @ = None THEN u ELSE @]
    BY <1>4 DEF InsertFullGames
  <2> QED
    BY <2>1, <2>2, <2>3 DEF Filled, Row
<1> QED
  BY <1>2, <1>3, <1>4

\* The one candidate of an orphan has the orphan's game, since both are games
\* of the same account with the same start.
LEMMA CandidateHasItsGame ==
  ASSUME TablesOK, RowsInv, NEW u \in Orphans, NEW f \in Candidates(u)
  PROVE  rows[f].full = GameOf[u]
<1>1. /\ f \in Uuids /\ rows[f].owner # None /\ rows[f].full # None
      /\ rows[f].owner = rows[u].owner
      /\ StartTime[GameOf[f]] = StartTime[GameOf[u]]
  BY DEF Candidates, Orphans, Present, MatchKey
<1>2. u \in Uuids /\ GameOf[u] \in Games /\ GameOf[f] \in Games
  BY <1>1, GamesAssumption DEF Orphans, Present
<1>3. rows[f].owner \in Accounts(GameOf[f]) /\ rows[f].owner \in Accounts(GameOf[u])
  BY <1>1, <1>2 DEF RowsInv, OwnerPlays
<1>4. GameOf[f] = GameOf[u]
  BY <1>1, <1>2, <1>3, OneGameAtATime DEF Accounts
<1> QED
  BY <1>1, <1>4 DEF RowsInv, FullUuidRight

LEMMA CrossMatchFills ==
  ASSUME TablesOK, RowsInv, rows' = CrossMatched
  PROVE  RowsFilled
<1>1. SUFFICES ASSUME NEW u \in Uuids PROVE Filled(u, rows[u], rows'[u])
  BY DEF RowsFilled, CrossMatched
<1>2. CASE u \in Orphans /\ Rivals(u) = {} /\ Cardinality(Candidates(u)) = 1
  <2>1. Candidates(u) # {}
    BY <1>2, FS_EmptySet
  <2>2. (CHOOSE f \in Candidates(u) : TRUE) \in Candidates(u)
    BY <2>1
  <2>3. rows[CHOOSE f \in Candidates(u) : TRUE].full = GameOf[u]
    BY <1>2, <2>2, CandidateHasItsGame
  <2>4. rows'[u] = [rows[u] EXCEPT !.full = GameOf[u]]
    BY <1>2, <2>3 DEF CrossMatched
  <2> QED
    BY <1>2, <2>4 DEF Filled, Orphans, Present
<1>3. CASE ~(u \in Orphans /\ Rivals(u) = {} /\ Cardinality(Candidates(u)) = 1)
  BY <1>3 DEF CrossMatched, Filled
<1> QED
  BY <1>2, <1>3

LEMMA ResolveFills ==
  ASSUME TablesOK, NEW v \in Orphans, rows' = SetOrphanFull(v, GameOf[v])
  PROVE  RowsFilled
<1>1. \A u \in Uuids : rows[u] \in Row
  BY DEF TablesOK
<1>2. v \in Uuids /\ rows[v].owner # None /\ rows[v].full = None
  BY DEF Orphans, Present
<1>3. rows' = [rows EXCEPT ![v] = [rows[v] EXCEPT !.full = GameOf[v]]]
  BY <1>2 DEF SetOrphanFull
<1> QED
  BY <1>1, <1>2, <1>3 DEF RowsFilled, Filled, TablesOK

LEMMA NothingFills == ASSUME TablesOK, UNCHANGED rows PROVE RowsFilled
BY DEF RowsFilled, Filled, TablesOK

\* The table stays well typed, and the rows keep what RowsInv says of them.
RowsTyped ==
  rows \in [Uuids -> Row] /\ \A u \in Uuids : rows[u].owner = None => rows[u] = Absent

LEMMA FilledKeeps ==
  ASSUME TablesOK, RowsInv, RowsFilled
  PROVE  /\ RowsTyped' /\ RowsInv'
         /\ \A u \in Uuids : rows[u].full # None => rows'[u].full = rows[u].full
         /\ \A u \in Present : rows'[u].is_downloaded = rows[u].is_downloaded
         /\ Present \subseteq Present'
<1>1. ASSUME NEW u \in Uuids
      PROVE  /\ rows'[u] \in Row /\ (rows'[u].owner = None => rows'[u] = Absent)
             /\ rows'[u].owner # None => rows'[u].owner \in Accounts(GameOf[u])
             /\ rows'[u].full \in {None, GameOf[u]}
             /\ rows'[u].owner # None => rows'[u].full = u \/ u = RoomUuid[GameOf[u]]
             /\ rows[u].full # None => rows'[u].full = rows[u].full
             /\ rows[u].owner # None => /\ rows'[u].is_downloaded = rows[u].is_downloaded
                                        /\ rows'[u].owner = rows[u].owner
  <2> DEFINE r == rows[u]
             s == rows'[u]
  <2>1. r \in Row /\ (r.owner = None => r = Absent) /\ GameOf[u] \in Games
    BY GamesAssumption DEF TablesOK
  <2>2. /\ r.owner # None => r.owner \in Accounts(GameOf[u])
        /\ r.full \in {None, GameOf[u]}
        /\ r.owner # None => r.full = u \/ u = RoomUuid[GameOf[u]]
    BY DEF RowsInv, OwnerPlays, FullUuidRight, RowOrigin, Present
  <2>3. Accounts(GameOf[u]) \subseteq Players /\ None \notin Players /\ None \notin Games
    BY <2>1, AccountsTyped, GamesAssumption
  <2>4. CASE s = r
    BY <2>1, <2>2, <2>4
  <2>5. CASE /\ r = Absent /\ u = RoomUuid[GameOf[u]]
             /\ \E p \in Accounts(GameOf[u]) : s = [Absent EXCEPT !.owner = p]
    BY <2>1, <2>3, <2>5 DEF Absent, Row, AttemptBound, MaxDownloadAttempts
  <2>6. CASE /\ r = Absent /\ u \in Games
             /\ \E p \in Accounts(u) : s = [Absent EXCEPT !.owner = p, !.full = u]
    <3>1. GameOf[u] = u
      BY <2>6, GamesAssumption
    <3>2. PICK p \in Accounts(u) : s = [Absent EXCEPT !.owner = p, !.full = u]
      BY <2>6
    <3>3. Absent \in [owner : {None}, full : {None}, is_downloaded : {0}, attempts : {0}]
      BY DEF Absent
    <3>4. Absent \in Row /\ p \in Players /\ u \in Games
      BY <2>3, <2>6, <3>1, <3>3 DEF Row, AttemptBound, MaxDownloadAttempts
    <3>5. s.owner = p /\ s.full = u /\ s \in Row
      BY <3>2, <3>4 DEF Row
    <3>6. r.full = None /\ r.owner = None
      BY <2>6 DEF Absent
    <3> QED
      BY <2>3, <2>6, <3>1, <3>5, <3>6
  <2>7. CASE /\ r.owner # None /\ r.full = None
             /\ s = [r EXCEPT !.full = GameOf[u]]
    <3>1. s \in Row /\ s.owner = r.owner /\ s.full = GameOf[u] /\ s.is_downloaded = r.is_downloaded
      BY <2>1, <2>7 DEF Row
    <3>2. u = RoomUuid[GameOf[u]] \/ u = None
      BY <2>2, <2>7
    <3> QED
      BY <2>2, <2>3, <2>7, <3>1, <3>2, GamesAssumption
  <2> QED
    BY <2>4, <2>5, <2>6, <2>7 DEF RowsFilled, Filled
<1>2. rows' \in [Uuids -> Row]
  BY <1>1 DEF RowsFilled
<1> QED
  BY <1>1, <1>2 DEF RowsTyped, RowsInv, OwnerPlays, FullUuidRight, RowOrigin, Present

LEMMA MarkedKeeps ==
  ASSUME TablesOK, RowsInv, RowsMarked
  PROVE  /\ RowsTyped' /\ RowsInv' /\ Present' = Present
         /\ \A u \in Uuids : rows'[u].full = rows[u].full
<1>1. ASSUME NEW u \in Uuids
      PROVE  /\ rows'[u] \in Row /\ (rows'[u].owner = None => rows'[u] = Absent)
             /\ rows'[u].owner = rows[u].owner /\ rows'[u].full = rows[u].full
  <2>1. rows[u] \in Row /\ (rows[u].owner = None => rows[u] = Absent)
    BY DEF TablesOK
  <2>2. CASE rows'[u] = rows[u]
    BY <2>1, <2>2
  <2>3. ASSUME NEW d \in {-1, 0, 1}, NEW n \in 0..AttemptBound, rows[u].owner # None,
               rows'[u] = [rows[u] EXCEPT !.is_downloaded = d, !.attempts = n]
        PROVE  /\ rows'[u] \in Row
               /\ rows'[u].owner = rows[u].owner /\ rows'[u].full = rows[u].full
    BY <2>1, <2>3 DEF Row
  <2> QED
    BY <2>2, <2>3 DEF RowsMarked
<1>2. rows' \in [Uuids -> Row]
  BY <1>1 DEF RowsMarked
<1> QED
  BY <1>1, <1>2 DEF RowsTyped, RowsInv, OwnerPlays, FullUuidRight, RowOrigin, Present

\* Room listings, pages, days and players: every step of scraping fills rows.
LEMMA ScrapeRows ==
  ASSUME TablesOK, RowsInv, ScrapeStep
  PROVE  RowsFilled
<1>1. ASSUME NEW d \in Days, NEW c \in Chunks, NEW got \in RoomAnswers(d, c),
             ScrapeChunk(d, c, got)
      PROVE  RowsFilled
  BY <1>1, RoomFills, ListingsTyped DEF ScrapeChunk
<1>2. ASSUME NEW p \in Players, ScrapePlayer(p) PROVE RowsFilled
  BY <1>2, FullFills, ListingsTyped DEF ScrapePlayer
<1>3. CASE ScrapeMatch
  BY <1>3, CrossMatchFills DEF ScrapeMatch
<1>4. CASE ScrapeKilled
  <2>1. CASE UNCHANGED tables
    BY <2>1, NothingFills DEF tables
  <2>2. ASSUME NEW d \in Days, NEW c \in Chunks, NEW part \in SUBSET RoomListing(d, c),
               rows' = InsertRoomGames(part)
        PROVE  RowsFilled
    BY <2>2, RoomFills, ListingsTyped
  <2>3. ASSUME NEW p \in scrape.players, NEW part \in SUBSET PlayerListing(p),
               rows' = InsertFullGames(part, p)
        PROVE  RowsFilled
    BY <2>3, FullFills, ListingsTyped
  <2> QED
    BY <1>4, <2>1, <2>2, <2>3 DEF ScrapeKilled, StoredInPart
<1>5. CASE UNCHANGED rows
  BY <1>5, NothingFills
<1> QED
  BY <1>1, <1>2, <1>3, <1>4, <1>5
     DEF ScrapeStep, ScrapeAll, ScrapeChunkFails, ScrapeDate, Expand, ScrapePlayerFails,
         ScrapeCheck, tables

LEMMA OtherRows ==
  ASSUME TablesOK, RowsInv, OtherStep
  PROVE  RowsFilled
<1>1. ASSUME NEW d \in Days, NEW killed \in BOOLEAN, NEW got \in SUBSET DayListing(d),
             FetchRoomDay(d, got, killed)
      PROVE  RowsFilled
  BY <1>1, RoomFills, ListingsTyped DEF FetchRoomDay
<1>2. ASSUME NEW p \in Players, NEW days \in SUBSET Days, FetchPlayer(p, days)
      PROVE  RowsFilled
  <2>1. {g \in PlayerListing(p) : DayOf[g] \in days} \subseteq PlayerListing(p)
    OBVIOUS
  <2> QED
    BY <1>2, <2>1, FullFills, ListingsTyped DEF FetchPlayer
<1>3. ASSUME NEW g \in published, NEW p \in Players, FetchPublic(g, p)
      PROVE  RowsFilled
  BY <1>3, FullFills DEF FetchPublic, TablesOK
<1>4. ASSUME NEW p \in Players, NEW pages \in SUBSET PlayerListing(p),
             FetchFullUuids(p, pages)
      PROVE  RowsFilled
  BY <1>4, FullFills, ListingsTyped DEF FetchFullUuids
<1>5. CASE RecoverMatch
  BY <1>5, CrossMatchFills DEF RecoverMatch
<1>6. ASSUME NEW u \in Uuids, ResolveUuid(u) PROVE RowsFilled
  BY <1>6, ResolveFills DEF ResolveUuid
<1>7. ASSUME NEW p \in Players, ScrapePipelinePlayer(p) PROVE RowsFilled
  BY <1>7, FullFills, ListingsTyped DEF ScrapePipelinePlayer
<1>8. CASE UNCHANGED rows
  BY <1>8, NothingFills
<1> QED
  BY <1>1, <1>2, <1>3, <1>4, <1>5, <1>6, <1>7, <1>8
     DEF OtherStep, Populate, RecoverPlayer, FetchDay, ResetCappedPlayers

\* Every step of a download marks rows.
LEMMA OneRowMarked ==
  ASSUME TablesOK, NEW v,
         \/ rows' = MarkMajsoulDownloaded(v)
         \/ rows' = MarkMajsoulDownloadError(v)
         \/ UNCHANGED rows
  PROVE  RowsMarked
<1> USE DEF RowsMarked
<1>1. \A u \in Uuids : rows[u] \in Row
  BY DEF TablesOK
<1>2. CASE UNCHANGED rows
  BY <1>2 DEF TablesOK
<1>3. CASE v \notin Present
  BY <1>2, <1>3 DEF MarkMajsoulDownloaded, MarkMajsoulDownloadError
<1>4. CASE v \in Present
  <2>1. v \in Uuids /\ rows[v].owner # None /\ rows[v].attempts \in 0..AttemptBound
    BY <1>1, <1>4 DEF Present, Row
  <2>2. ASSUME NEW d \in {-1, 0, 1}, NEW n \in 0..AttemptBound,
               rows' = [rows EXCEPT ![v] = [rows[v] EXCEPT !.is_downloaded = d, !.attempts = n]]
        PROVE  RowsMarked
    BY <2>1, <2>2 DEF TablesOK
  <2>3. CASE rows' = MarkMajsoulDownloaded(v)
    <3>1. rows' = [rows EXCEPT ![v] = [rows[v] EXCEPT !.is_downloaded = 1,
                                                     !.attempts = rows[v].attempts]]
      BY <1>1, <1>4, <2>1, <2>3 DEF MarkMajsoulDownloaded, Row, TablesOK
    <3> QED
      BY <2>1, <2>2, <3>1
  <2>4. CASE rows' = MarkMajsoulDownloadError(v)
    <3> DEFINE n == IF rows[v].attempts = AttemptBound THEN rows[v].attempts
                    ELSE rows[v].attempts + 1
    <3>1. n \in 0..AttemptBound
      BY <2>1 DEF AttemptBound, MaxDownloadAttempts
    <3>2. rows' = [rows EXCEPT ![v] = [rows[v] EXCEPT !.is_downloaded = -1, !.attempts = n]]
      BY <1>1, <1>4, <2>1, <2>4 DEF MarkMajsoulDownloadError, Row, TablesOK
    <3> QED
      BY <2>2, <3>1, <3>2
  <2> QED
    BY <1>2, <2>3, <2>4
<1> QED
  BY <1>3, <1>4

LEMMA DownloadRows ==
  ASSUME TablesOK, NEW p, DownloadStep(p)
  PROVE  RowsMarked
<1>1. ASSUME NEW u \in Uuids, NEW saved \in BOOLEAN, Arrives(p, u, saved) PROVE RowsMarked
  BY <1>1, OneRowMarked DEF Arrives
<1>2. ASSUME NEW u \in Uuids, NEW reported \in BOOLEAN, Unconvertible(p, u, reported)
      PROVE  RowsMarked
  BY <1>2, OneRowMarked DEF Unconvertible
<1>3. ASSUME NEW u \in Uuids, NEW marked \in BOOLEAN, Refused(p, u, marked) PROVE RowsMarked
  BY <1>3, OneRowMarked DEF Refused
<1>4. ASSUME NEW u \in Uuids, NEW marked \in BOOLEAN, VersionMismatch(p, u, marked)
      PROVE  RowsMarked
  BY <1>4, OneRowMarked DEF VersionMismatch
<1>5. CASE RetryErrors(p)
  <2>1. \A u \in Uuids : rows[u] \in Row /\ (rows[u].owner = None => rows[u] = Absent)
    BY DEF TablesOK
  <2>2. \A u \in Uuids : rows[u].is_downloaded = -1 => rows[u].owner # None
    BY <2>1 DEF Absent
  <2>3. 0 \in 0..AttemptBound
    BY DEF AttemptBound, MaxDownloadAttempts
  <2> QED
    BY <1>5, <2>1, <2>2, <2>3 DEF RetryErrors, ResetMajsoulDownloadErrors, RowsMarked
<1>6. CASE UNCHANGED rows
  BY <1>6, OneRowMarked
<1> QED
  BY <1>1, <1>2, <1>3, <1>4, <1>5, <1>6
     DEF DownloadStep, DownloadStart, Connect, ConnectFails, Restart, DownloadAbort,
         DownloadEnd, tables

-----------------------------------------------------------------------------
(***************************************************************************)
(* Type correctness.  The cross match takes a full uuid from another row,  *)
(* so the rows' part of it needs what RowsInv says of them.                *)
(***************************************************************************)
Inv == TypeOK /\ RowsInv

LEMMA LogsInit == Init => Inv
<1> SUFFICES ASSUME Init PROVE Inv
  OBVIOUS
<1> USE DEF Init
<1>1. TablesOK
  <2>1. Absent \in [owner : {None}, full : {None}, is_downloaded : {0}, attempts : {0}]
    BY DEF Absent
  <2>2. Absent \in Row
    BY <2>1 DEF Row, AttemptBound, MaxDownloadAttempts
  <2> QED
    BY <2>2, ScenariosAssumption DEF InitTables, TablesOK
<1>2. ScrapeOK
  BY DEF ScrapeOK, NoScrape, ScrapeStages
<1>3. DownloadOK
  BY RestartAssumption DEF DownloadOK, DownloadRuns, NoDownload
<1>4. RowsInv
  BY DEF InitTables, RowsInv, OwnerPlays, FullUuidRight, RowOrigin, Present, Absent
<1> QED
  BY <1>1, <1>2, <1>3, <1>4 DEF Inv, TypeOK

\* The tables of players keep their values.
PlayerTable == [Players -> {"absent", "new", "fetched"}]

LEMMA PlayersTyped ==
  ASSUME NEW table \in PlayerTable
  PROVE  /\ \A ps : Upsert(table, ps) \in PlayerTable
         /\ \A p : MarkFetched(table, p) \in PlayerTable
BY DEF PlayerTable, Upsert, MarkFetched

\* All but the rows.
OtherTables ==
  /\ throne \in PlayerTable /\ room_fetched \subseteq Days
  /\ pipeline \in PlayerTable /\ day_fetched \subseteq Days

LEMMA NewRoundTyped ==
  ASSUME NEW s, s = NewRound
  PROVE  s \in [stage : ScrapeStages, dates : SUBSET Days, none : BOOLEAN,
                chunks : SUBSET Chunks, ok : BOOLEAN, players : SUBSET Players,
                new : BOOLEAN, failures : BOOLEAN]
<1> DEFINE dates == {d \in Days : d <= today} \ room_fetched
<1>1. s = [stage |-> IF dates = {} THEN "expand" ELSE "dates", dates |-> dates,
           none |-> (dates = {}), chunks |-> Chunks, ok |-> TRUE, players |-> {},
           new |-> FALSE, failures |-> FALSE]
  BY DEF NewRound, NoScrape
<1>2. dates \subseteq Days
  OBVIOUS
<1> HIDE DEF dates
<1> QED
  BY <1>1, <1>2 DEF ScrapeStages

LEMMA ScrapeTyped ==
  ASSUME TablesOK, ScrapeOK, ScrapeStep
  PROVE  ScrapeOK' /\ OtherTables'
<1> USE DEF ScrapeOK, OtherTables, TablesOK, PlayerTable
<1>1. CASE ScrapeAll
  BY <1>1, NewRoundTyped DEF ScrapeAll, tables
<1>2. ASSUME NEW d \in Days, NEW c \in Chunks, NEW got \in RoomAnswers(d, c),
             ScrapeChunk(d, c, got)
      PROVE  ScrapeOK' /\ OtherTables'
  <2>1. Inserted(rows') \in BOOLEAN
    BY DEF Inserted
  <2> QED
    BY <1>2, <2>1, PlayersTyped DEF ScrapeChunk
<1>3. ASSUME NEW d \in Days, NEW c \in Chunks, ScrapeChunkFails(d, c)
      PROVE  ScrapeOK' /\ OtherTables'
  BY <1>3 DEF ScrapeChunkFails, tables
<1>4. ASSUME NEW d \in Days, ScrapeDate(d) PROVE ScrapeOK' /\ OtherTables'
  BY <1>4 DEF ScrapeDate, ScrapeStages
<1>5. CASE Expand
  BY <1>5 DEF Expand, Unfetched, ScrapeStages, tables
<1>6. ASSUME NEW p \in Players, ScrapePlayer(p) PROVE ScrapeOK' /\ OtherTables'
  <2>1. Inserted(rows') \in BOOLEAN
    BY DEF Inserted
  <2>2. Upsert(throne, AccountsOf(PlayerListing(p))) \in PlayerTable
    BY PlayersTyped
  <2>3. throne' \in PlayerTable
    BY <1>6, <2>2, PlayersTyped DEF ScrapePlayer
  <2> QED
    BY <1>6, <2>1, <2>3 DEF ScrapePlayer, DonePlayer, ScrapeStages
<1>7. ASSUME NEW p \in Players, ScrapePlayerFails(p) PROVE ScrapeOK' /\ OtherTables'
  BY <1>7 DEF ScrapePlayerFails, DonePlayer, ScrapeStages, tables
<1>8. CASE ScrapeMatch
  BY <1>8 DEF ScrapeMatch, ScrapeStages
<1>9. CASE ScrapeCheck
  BY <1>9, NewRoundTyped DEF ScrapeCheck, NoScrape, ScrapeStages, tables
<1>10. CASE ScrapeKilled
  <2>1. ScrapeOK'
    BY <1>10 DEF ScrapeKilled, NoScrape, ScrapeStages
  <2>2. OtherTables'
    <3>1. CASE UNCHANGED tables
      BY <3>1 DEF tables
    <3>2. CASE UNCHANGED <<room_fetched, pipeline, day_fetched>>
               /\ \E ps : throne' = Upsert(throne, ps)
      BY <3>2, PlayersTyped
    <3> QED
      BY <1>10, <3>1, <3>2 DEF ScrapeKilled, StoredInPart
  <2> QED
    BY <2>1, <2>2
<1> QED
  BY <1>1, <1>2, <1>3, <1>4, <1>5, <1>6, <1>7, <1>8, <1>9, <1>10 DEF ScrapeStep

LEMMA OtherTyped ==
  ASSUME TablesOK, OtherStep
  PROVE  OtherTables'
<1> USE DEF OtherTables, TablesOK, PlayerTable
<1>1. ASSUME NEW d \in Days, NEW killed \in BOOLEAN, NEW got \in SUBSET DayListing(d),
             FetchRoomDay(d, got, killed)
      PROVE  OtherTables'
  BY <1>1 DEF FetchRoomDay
<1>2. ASSUME NEW p \in Players, NEW days \in SUBSET Days, FetchPlayer(p, days)
      PROVE  OtherTables'
  BY <1>2 DEF FetchPlayer
<1>3. ASSUME NEW g \in published, NEW p \in Players, FetchPublic(g, p)
      PROVE  OtherTables'
  BY <1>3 DEF FetchPublic
<1>4. CASE Populate
  BY <1>4, PlayersTyped DEF Populate
<1>5. ASSUME NEW p \in Players, NEW pages, FetchFullUuids(p, pages) PROVE OtherTables'
  BY <1>5, PlayersTyped DEF FetchFullUuids
<1>6. CASE RecoverMatch
  BY <1>6 DEF RecoverMatch
<1>7. ASSUME NEW u \in Uuids, ResolveUuid(u) PROVE OtherTables'
  BY <1>7 DEF ResolveUuid
<1>8. ASSUME NEW d \in Days, NEW killed \in BOOLEAN, FetchDay(d, killed)
      PROVE  OtherTables'
  BY <1>8, PlayersTyped DEF FetchDay
<1>9. ASSUME NEW p \in Players, ScrapePipelinePlayer(p) PROVE OtherTables'
  BY <1>9, PlayersTyped DEF ScrapePipelinePlayer
<1>10. CASE ResetCappedPlayers
  BY <1>10 DEF ResetCappedPlayers, ResetCapped
<1> QED
  BY <1>1, <1>2, <1>3, <1>4, <1>5, <1>6, <1>7, <1>8, <1>9, <1>10
     DEF OtherStep, RecoverPlayer

LEMMA DownloadTyped ==
  ASSUME TablesOK, DownloadOK, scenario \in Scenarios,
         NEW p \in Downloaders, DownloadStep(p)
  PROVE  DownloadOK' /\ OtherTables'
<1> DEFINE d == download[p]
<1>0. NoDownload \in DownloadRuns /\ 0 \in 0..RestartEvery
  BY RestartAssumption DEF NoDownload, DownloadRuns
<1>1. OtherTables'
  BY DEF DownloadStep, DownloadStart, Connect, ConnectFails, Restart, Arrives,
         Unconvertible, Refused, VersionMismatch, DownloadAbort, DownloadEnd, RetryErrors,
         tables, OtherTables, TablesOK, PlayerTable
<1> SUFFICES DownloadOK'
  BY <1>1
<1>2. d \in DownloadRuns /\ succeeded \subseteq Games
  BY DEF DownloadOK
<1>3. ASSUME NEW r \in DownloadRuns, Goes(p, r), succeeded' \subseteq Games PROVE DownloadOK'
  BY <1>3 DEF DownloadOK, Goes
<1> HIDE DEF d
<1>4. ASSUME NEW kind \in scenario.kinds, NEW n \in Limits, DownloadStart(p, kind, n)
      PROVE  DownloadOK'
  <2> DEFINE r == [NoDownload EXCEPT !.stage = "connect", !.kind = kind,
                                     !.todo = FirstN(Queue(kind), n)]
  <2>1. kind \in DownloadKinds
    BY ScenariosAssumption
  <2>2. FirstN(Queue(kind), n) \subseteq Uuids
    BY DEF FirstN, Queue, Undownloaded, UndownloadedWithFull, Present
  <2>3. r \in DownloadRuns
    BY <1>0, <2>1, <2>2 DEF DownloadRuns, NoDownload
  <2>4. Goes(p, r) /\ UNCHANGED succeeded
    BY <1>4 DEF DownloadStart
  <2> QED
    BY <1>2, <1>3, <2>3, <2>4
<1>5. CASE Connect(p)
  <2>1. ASSUME NEW r \in DownloadRuns PROVE [r EXCEPT !.stage = "ask"] \in DownloadRuns
    BY DEF DownloadRuns
  <2>2. ASSUME NEW r \in DownloadRuns PROVE [r EXCEPT !.connects = 0] \in DownloadRuns
    BY DEF DownloadRuns
  <2>3. ASSUME NEW r \in DownloadRuns PROVE [r EXCEPT !.since = 0] \in DownloadRuns
    BY <1>0 DEF DownloadRuns
  <2>4. [[[d EXCEPT !.stage = "ask"] EXCEPT !.connects = 0] EXCEPT !.since = 0] \in DownloadRuns
    BY <1>2, <2>1, <2>2, <2>3
  <2>5. /\ Goes(p, [[[d EXCEPT !.stage = "ask"] EXCEPT !.connects = 0] EXCEPT !.since = 0])
        /\ UNCHANGED succeeded
    BY <1>5 DEF Connect, d
  <2> QED
    BY <1>2, <1>3, <2>4, <2>5
<1>6. CASE ConnectFails(p)
  <2>1. CASE d.connects = 3
    BY <1>0, <1>2, <1>3, <1>6, <2>1 DEF ConnectFails, d
  <2>2. CASE d.connects # 3
    <3>1. [d EXCEPT !.connects = @ + 1] \in DownloadRuns
      BY <1>2, <2>2 DEF DownloadRuns
    <3>2. Goes(p, [d EXCEPT !.connects = @ + 1]) /\ UNCHANGED succeeded
      BY <1>6, <2>2 DEF ConnectFails, d
    <3> QED
      BY <1>2, <1>3, <3>1, <3>2
  <2> QED
    BY <2>1, <2>2
<1>7. CASE Restart(p)
  <2>1. [d EXCEPT !.stage = "connect"] \in DownloadRuns
    BY <1>2 DEF DownloadRuns
  <2>2. Goes(p, [d EXCEPT !.stage = "connect"]) /\ UNCHANGED succeeded
    BY <1>7 DEF Restart, d
  <2> QED
    BY <1>2, <1>3, <2>1, <2>2
<1>8. ASSUME NEW u \in Uuids
      PROVE  Following(p, u) \in DownloadRuns /\ Following(p, u).mismatches = d.mismatches
  <2>1. d.since # RestartEvery => d.since + 1 \in 0..RestartEvery
    BY <1>2, RestartAssumption DEF DownloadRuns
  <2>2. Following(p, u) = [d EXCEPT !.todo = @ \ {u}, !.retry = FALSE,
                                    !.since = IF @ = RestartEvery THEN @ ELSE @ + 1]
    BY DEF Following, d
  <2> QED
    BY <1>2, <2>1, <2>2 DEF DownloadRuns
<1>9. ASSUME NEW u \in Uuids, Goes(p, Following(p, u)),
             succeeded' \in {succeeded, succeeded \cup {GameOf[u]}}
      PROVE  DownloadOK'
  <2>1. GameOf[u] \in Games
    BY GamesAssumption
  <2> QED
    BY <1>2, <1>3, <1>8, <1>9, <2>1
<1>10. ASSUME NEW u \in Uuids, NEW saved \in BOOLEAN, Arrives(p, u, saved) PROVE DownloadOK'
  BY <1>9, <1>10 DEF Arrives
<1>11. ASSUME NEW u \in Uuids, NEW reported \in BOOLEAN, Unconvertible(p, u, reported)
       PROVE  DownloadOK'
  BY <1>9, <1>11 DEF Unconvertible
<1>12. ASSUME NEW u \in Uuids, NEW marked \in BOOLEAN, Refused(p, u, marked) PROVE DownloadOK'
  BY <1>9, <1>12 DEF Refused
<1>13. ASSUME NEW u \in Uuids, NEW marked \in BOOLEAN, VersionMismatch(p, u, marked)
       PROVE  DownloadOK'
  <2>0. UNCHANGED succeeded
    BY <1>13 DEF VersionMismatch
  <2>1. CASE d.mismatches = 3
    BY <1>0, <1>2, <1>3, <1>13, <2>0, <2>1 DEF VersionMismatch, d
  <2>2. CASE d.mismatches # 3 /\ d.kind = "bulk"
    <3>1. ASSUME NEW r \in DownloadRuns, r.mismatches # 3
          PROVE  [r EXCEPT !.mismatches = @ + 1] \in DownloadRuns
      BY <3>1 DEF DownloadRuns
    <3>2. ASSUME NEW r \in DownloadRuns PROVE [r EXCEPT !.stage = "connect"] \in DownloadRuns
      BY DEF DownloadRuns
    <3>3. ASSUME NEW r \in DownloadRuns PROVE [r EXCEPT !.retry = TRUE] \in DownloadRuns
      BY DEF DownloadRuns
    <3>4. [[[d EXCEPT !.mismatches = @ + 1] EXCEPT !.stage = "connect"]
             EXCEPT !.retry = TRUE] \in DownloadRuns
      BY <1>2, <2>2, <3>1, <3>2, <3>3
    <3>5. Goes(p, [[[d EXCEPT !.mismatches = @ + 1] EXCEPT !.stage = "connect"]
                     EXCEPT !.retry = TRUE])
      BY <1>13, <2>2 DEF VersionMismatch, d
    <3> QED
      BY <1>2, <1>3, <2>0, <3>4, <3>5
  <2>3. CASE d.mismatches # 3 /\ d.kind # "bulk"
    <3>1. Goes(p, [Following(p, u) EXCEPT !.mismatches = @ + 1])
      BY <1>13, <2>3 DEF VersionMismatch, d
    <3>2. d.mismatches + 1 \in 0..3
      BY <1>2, <2>3 DEF DownloadRuns
    <3>3. ASSUME NEW r \in DownloadRuns, r.mismatches + 1 \in 0..3
          PROVE  [r EXCEPT !.mismatches = @ + 1] \in DownloadRuns
      BY <3>3 DEF DownloadRuns
    <3> QED
      BY <1>2, <1>3, <1>8, <2>0, <3>1, <3>2, <3>3
  <2> QED
    BY <2>1, <2>2, <2>3
<1>14. CASE DownloadAbort(p) \/ DownloadEnd(p)
  BY <1>0, <1>2, <1>3, <1>14 DEF DownloadAbort, DownloadEnd
<1>15. CASE RetryErrors(p)
  BY <1>15 DEF RetryErrors, DownloadOK
<1> QED
  BY <1>4, <1>5, <1>6, <1>7, <1>10, <1>11, <1>12, <1>13, <1>14, <1>15 DEF DownloadStep

\* Whatever the step, it fills rows or it marks them.
LEMMA NextRows ==
  ASSUME Inv, [Next]_vars
  PROVE  RowsFilled \/ RowsMarked
<1> USE DEF Inv, TypeOK
<1>1. ASSUME NEW g \in Games, Publish(g) PROVE RowsFilled
  BY <1>1, NothingFills DEF Publish, tables
<1>2. CASE NextDay \/ UNCHANGED vars
  BY <1>2, NothingFills DEF NextDay, tables, vars
<1>3. CASE Scrape
  BY <1>3, ScrapeRows DEF Scrape
<1>4. CASE Others
  BY <1>4, OtherRows DEF Others, OtherCommand
<1>5. ASSUME NEW p \in Downloaders, Downloads(p) PROVE RowsMarked
  BY <1>5, DownloadRows DEF Downloads
<1> QED
  BY <1>1, <1>2, <1>3, <1>4, <1>5 DEF Next

LEMMA LogsStep == Inv /\ [Next]_vars => Inv'
<1> SUFFICES ASSUME Inv, [Next]_vars PROVE Inv'
  OBVIOUS
<1> USE DEF Inv, TypeOK
<1>1. RowsTyped' /\ RowsInv'
  BY NextRows, FilledKeeps, MarkedKeeps
<1> SUFFICES TypeOK'
  BY <1>1
<1>2. ASSUME NEW g \in Games, Publish(g) PROVE TypeOK'
  <2>1. g \in Games /\ published' = published \cup {g} /\ UNCHANGED <<scenario, today>>
    BY <1>2 DEF Publish
  <2>2. UNCHANGED tables /\ UNCHANGED <<scrape, download, succeeded>>
    BY <1>2 DEF Publish
  <2> QED
    BY <2>1, <2>2 DEF tables, TablesOK, ScrapeOK, DownloadOK
<1>3. CASE NextDay
  BY <1>3 DEF NextDay, tables, TablesOK, ScrapeOK, DownloadOK
<1>4. CASE Scrape
  <2>1. UNCHANGED <<scenario, service, download, succeeded>>
    BY <1>4 DEF Scrape
  <2>2. ScrapeOK' /\ OtherTables'
    BY <1>4, ScrapeTyped DEF Scrape
  <2> QED
    BY <1>1, <2>1, <2>2 DEF service, TablesOK, DownloadOK, OtherTables, PlayerTable, RowsTyped
<1>5. CASE Others
  <2>1. UNCHANGED <<scenario, service, download, succeeded, scrape>>
    BY <1>5 DEF Others, OtherCommand
  <2>2. OtherTables'
    BY <1>5, OtherTyped DEF Others, OtherCommand
  <2> QED
    BY <1>1, <2>1, <2>2
       DEF service, TablesOK, ScrapeOK, DownloadOK, OtherTables, PlayerTable, RowsTyped
<1>6. ASSUME NEW p \in Downloaders, Downloads(p) PROVE TypeOK'
  <2>1. UNCHANGED <<scenario, service, scrape>>
    BY <1>6 DEF Downloads
  <2>2. DownloadOK' /\ OtherTables'
    BY <1>6, DownloadTyped DEF Downloads
  <2> QED
    BY <1>1, <2>1, <2>2 DEF service, TablesOK, ScrapeOK, OtherTables, PlayerTable, RowsTyped
<1>7. CASE UNCHANGED vars
  BY <1>7 DEF vars, service, tables, TablesOK, ScrapeOK, DownloadOK
<1> QED
  BY <1>2, <1>3, <1>4, <1>5, <1>6, <1>7 DEF Next

\* Every reachable state is well typed, for any games, days, players and
\* combination of commands.
THEOREM MajsoulTypeCorrect == Spec => []TypeOK
<1>1. Inv => TypeOK
  BY DEF Inv
<1> QED
  BY <1>1, LogsInit, LogsStep, PTL DEF Spec

\* No command ever writes the full uuid of another game: listings, pages and
\* the server's answers name the right one, and the cross match takes it from
\* a row of the same account and start (db.rs:866-931).
THEOREM FullUuidsAreRight == Spec => []FullUuidRight
<1>1. Inv => FullUuidRight
  BY DEF Inv, RowsInv
<1> QED
  BY <1>1, LogsInit, LogsStep, PTL DEF Spec

\* A full uuid that is set is never changed again, and rows stay.
LEMMA FullKept ==
  ASSUME Inv, [Next]_vars
  PROVE  /\ \A u \in Uuids : rows[u].full # None => rows'[u].full = rows[u].full
         /\ Present \subseteq Present'
BY NextRows, FilledKeeps, MarkedKeeps DEF Inv, TypeOK

-----------------------------------------------------------------------------
(***************************************************************************)
(* The two phases.  A game that fetch-days has announced has its row, or a *)
(* player who is still to be scraped.                                      *)
(***************************************************************************)
AnnouncedInv ==
  /\ announced \subseteq published
  /\ \A g \in announced :
       rows[g].full = g \/ \E p \in Accounts(g) : pipeline[p] = "new"

\* The pages of a player give every listed game of the player its full uuid.
LEMMA PagesComplete ==
  ASSUME Inv, NEW p, NEW g \in PlayerListing(p),
         rows' = InsertFullGames(PlayerListing(p), p)
  PROVE  rows'[g].full = g
<1>1. g \in Games /\ g \in Uuids /\ GameOf[g] = g
  BY ListingsTyped, GamesAssumption DEF Inv, TypeOK
<1>2. rows[g] \in Row /\ rows[g].full \in {None, g}
  BY <1>1 DEF Inv, TypeOK, TablesOK, RowsInv, FullUuidRight
<1>3. rows'[g] = IF rows[g] = Absent THEN [Absent EXCEPT !.owner = p, !.full = g]
                 ELSE [rows[g] EXCEPT !.full = IF @ = None THEN g ELSE @]
  BY <1>1 DEF InsertFullGames
<1>4. [Absent EXCEPT !.owner = p, !.full = g].full = g
  BY DEF Absent
<1>5. CASE rows[g] = Absent
  BY <1>3, <1>4, <1>5
<1>6. CASE rows[g] # Absent
  BY <1>2, <1>3, <1>6 DEF Row
<1> QED
  BY <1>5, <1>6

\* The players of the pipeline and the days change in two ways only.
LEMMA PipelineSteps ==
  ASSUME Inv, [Next]_vars
  PROVE  \/ UNCHANGED <<pipeline, day_fetched>>
         \/ \E d \in Days, killed \in BOOLEAN : FetchDay(d, killed) /\ UNCHANGED published
         \/ \E p \in Players : ScrapePipelinePlayer(p) /\ UNCHANGED published
<1>1. CASE \E g \in Games : Publish(g)
  BY <1>1 DEF Publish, tables
<1>2. CASE NextDay \/ UNCHANGED vars
  BY <1>2 DEF NextDay, tables, vars
<1>3. CASE Scrape
  BY <1>3 DEF Scrape, ScrapeStep, ScrapeAll, ScrapeChunk, ScrapeChunkFails, ScrapeDate, Expand,
              ScrapePlayer, ScrapePlayerFails, ScrapeMatch, ScrapeCheck, ScrapeKilled,
              StoredInPart, tables
<1>4. CASE Others
  <2>1. UNCHANGED published /\ OtherStep
    BY <1>4 DEF Others, OtherCommand, service
  <2> QED
    BY <2>1 DEF OtherStep, FetchRoomDay, FetchPlayer, FetchPublic, Populate, RecoverPlayer,
                FetchFullUuids, RecoverMatch, ResolveUuid, ResetCappedPlayers
<1>5. ASSUME NEW p \in Downloaders, Downloads(p) PROVE UNCHANGED <<pipeline, day_fetched>>
  BY <1>5 DEF Downloads, DownloadStep, DownloadStart, Connect, ConnectFails, Restart, Arrives,
              Unconvertible, Refused, VersionMismatch, DownloadAbort, DownloadEnd,
              RetryErrors, tables
<1> QED
  BY <1>1, <1>2, <1>3, <1>4, <1>5 DEF Next

\* What is listed stays listed.
LEMMA PublishedGrows == [Next]_vars => published \subseteq published'
BY DEF Next, Publish, NextDay, Scrape, Others, Downloads, service, vars

LEMMA AnnouncedStep ==
  ASSUME Inv, AnnouncedInv, [Next]_vars, Announce
  PROVE  AnnouncedInv'
<1>1. published \subseteq published' /\ published \subseteq Games
  BY PublishedGrows DEF Inv, TypeOK, TablesOK
<1>2. announced' \subseteq published'
  BY <1>1 DEF AnnouncedInv, Announce
<1>3. ASSUME NEW g \in announced
      PROVE  rows'[g].full = g \/ \E p \in Accounts(g) : pipeline'[p] = "new"
  <2>1. g \in Games /\ g \in Uuids /\ g # None /\ g \in published
    BY <1>1, GamesAssumption DEF AnnouncedInv
  <2>2. CASE rows[g].full = g
    BY <2>1, <2>2, FullKept
  <2>3. ASSUME NEW p \in Accounts(g), pipeline[p] = "new"
        PROVE  rows'[g].full = g \/ \E q \in Accounts(g) : pipeline'[q] = "new"
    <3>1. p \in Players /\ g \in PlayerListing(p)
      BY <2>1, AccountsTyped DEF PlayerListing
    <3>2. CASE UNCHANGED pipeline
      BY <2>3, <3>2
    <3>3. ASSUME NEW d \in Days, NEW killed \in BOOLEAN, FetchDay(d, killed)
          PROVE  pipeline'[p] = "new"
      BY <2>3, <3>1, <3>3 DEF FetchDay, Upsert
    <3>4. ASSUME NEW q \in Players, ScrapePipelinePlayer(q)
          PROVE  rows'[g].full = g \/ pipeline'[p] = "new"
      <4>1. CASE q = p
        BY <3>1, <3>4, <4>1, PagesComplete DEF ScrapePipelinePlayer
      <4>2. CASE q # p
        BY <2>3, <3>1, <3>4, <4>2
           DEF ScrapePipelinePlayer, MarkFetched, Inv, TypeOK, TablesOK
      <4> QED
        BY <4>1, <4>2
    <3> QED
      BY <3>2, <3>3, <3>4, PipelineSteps
  <2> QED
    BY <2>2, <2>3 DEF AnnouncedInv
<1>4. ASSUME NEW g \in published, DayOf[g] \in day_fetched' \ day_fetched,
             NEW p \in Accounts(g), pipeline[p] # "fetched"
      PROVE  pipeline'[p] = "new"
  <2>1. p \in Players /\ pipeline[p] \in {"absent", "new"}
    BY <1>1, <1>4, AccountsTyped DEF Inv, TypeOK, TablesOK
  <2>2. PICK d \in Days, killed \in BOOLEAN : FetchDay(d, killed)
    BY <1>4, PipelineSteps DEF ScrapePipelinePlayer
  <2>3. d = DayOf[g]
    BY <1>4, <2>2 DEF FetchDay
  <2>4. p \in AccountsOf(DayListing(d))
    BY <2>3 DEF AccountsOf, DayListing
  <2> QED
    BY <2>1, <2>2, <2>4 DEF FetchDay, Upsert
<1>5. ASSUME NEW g \in announced'
      PROVE  rows'[g].full = g \/ \E p \in Accounts(g) : pipeline'[p] = "new"
  BY <1>3, <1>4, <1>5 DEF Announce
<1> QED
  BY <1>2, <1>5 DEF AnnouncedInv

\* When no player of the pipeline is left, every announced game has its row,
\* although runs are killed between the players of a day and its mark
\* (api.rs:377-394, main.rs:1466-1540).
THEOREM PhasesLoseNothing == HistorySpec => []PhasesExhaustive
<1>1. HistoryInit => Inv /\ AnnouncedInv
  BY LogsInit DEF HistoryInit, AnnouncedInv
<1>2. Inv /\ AnnouncedInv /\ [HistoryNext]_historyVars => Inv' /\ AnnouncedInv'
  <2> SUFFICES ASSUME Inv, AnnouncedInv, [HistoryNext]_historyVars
               PROVE  Inv' /\ AnnouncedInv'
    OBVIOUS
  <2>1. [Next]_vars /\ Inv'
    BY LogsStep DEF HistoryNext, historyVars
  <2>2. CASE HistoryNext
    BY <2>1, <2>2, AnnouncedStep DEF HistoryNext
  <2>3. CASE UNCHANGED historyVars
    BY <2>1, <2>3 DEF historyVars, vars, service, tables, AnnouncedInv
  <2> QED
    BY <2>2, <2>3
<1>3. Inv /\ AnnouncedInv => PhasesExhaustive
  <2> SUFFICES ASSUME Inv, AnnouncedInv, Unfetched(pipeline) = {}, NEW g \in announced
               PROVE  rows[g].full = g
    BY DEF PhasesExhaustive
  <2>1. Accounts(g) \subseteq Players
    BY AccountsTyped DEF Inv, TypeOK, TablesOK, AnnouncedInv
  <2> QED
    BY <2>1 DEF AnnouncedInv, Unfetched
<1> QED
  BY <1>1, <1>2, <1>3, PTL DEF HistorySpec

-----------------------------------------------------------------------------
(***************************************************************************)
(* Stored records.  The queue of a download is read once, so what was open *)
(* in it has to be open still when its turn comes: unless it is in         *)
(* dispute with another download, or has to do with another row of the     *)
(* same full uuid.                                                         *)
(***************************************************************************)

\* Another row has the full uuid of this one.
Shared(u) == \E v \in Uuids \ {u} : rows[u].full # None /\ rows[v].full = rows[u].full

OpenRow(p, u) ==
  /\ u \in Present
  /\ download[p].kind = "bulk" => rows[u].full # None
  /\ rows[u].is_downloaded # 1 \/ Shared(u) \/ u \in disputed

QueueInv ==
  /\ \A p \in Downloaders : download[p].stage # "idle" => download[p].kind \in DownloadKinds
  /\ \A p \in Downloaders : \A u \in download[p].todo : OpenRow(p, u)
  /\ \A u \in Uuids : Contested(u) => u \in disputed

\* A key that bulk-download finds for the full uuid of another row is that of
\* a row with the same full uuid: a room listing that masked the one game
\* cannot have inserted it under its own uuid as well.
LEMMA BulkMark ==
  ASSUME Inv, NEW u \in Present, NEW w \in Present, rows[u].full = w, u # w
  PROVE  Shared(w)
<1>1. u \in Uuids /\ w \in Uuids /\ w # None
  BY GamesAssumption DEF Present
<1>2. w = GameOf[u] /\ w \in Games
  BY <1>1, GamesAssumption DEF Inv, RowsInv, FullUuidRight
<1>3. GameOf[w] = w
  BY <1>2, GamesAssumption
<1>4. u = RoomUuid[w]
  BY <1>2 DEF Inv, RowsInv, RowOrigin
<1>5. rows[w].full = w
  BY <1>3, <1>4 DEF Inv, RowsInv, RowOrigin
<1> QED
  BY <1>1, <1>5 DEF Shared

\* Sharing and openness survive the steps of the others.
LEMMA SharedKept ==
  ASSUME Inv, [Next]_vars, NEW u \in Uuids, Shared(u)
  PROVE  Shared(u)'
BY FullKept DEF Shared

\* A row in dispute is so until the downloads that have it are done with it.
LEMMA DisputedKept ==
  ASSUME Dispute, NEW u \in Uuids, NEW p \in Downloaders, u \in download'[p].todo
  PROVE  /\ u \in disputed => u \in disputed'
         /\ Contested(u)' => u \in disputed'
BY DEF Dispute, Held

LEMMA ContestedKept == ASSUME Dispute PROVE \A u \in Uuids : Contested(u)' => u \in disputed'
BY DEF Dispute, Held, Contested

\* A row stays open in a queue as long as nothing happens to its mark.
LEMMA OpenKept ==
  ASSUME Inv, QueueInv, [Next]_vars, Dispute,
         NEW p \in Downloaders, NEW u \in download[p].todo, u \in download'[p].todo,
         download'[p].kind = download[p].kind,
         \/ rows'[u].is_downloaded = rows[u].is_downloaded
         \/ rows'[u].is_downloaded # 1
         \/ Shared(u)
         \/ u \in disputed
  PROVE  OpenRow(p, u)'
<1>1. OpenRow(p, u)
  BY DEF QueueInv
<1>2. u \in Present /\ u \in Uuids
  BY <1>1 DEF OpenRow, Present
<1>3. u \in Present' /\ (rows[u].full # None => rows'[u].full = rows[u].full)
  BY <1>2, FullKept
<1>4. Shared(u) => Shared(u)'
  BY <1>2, SharedKept
<1>5. u \in disputed => u \in disputed'
  BY <1>2, DisputedKept
<1> QED
  BY <1>1, <1>3, <1>4, <1>5 DEF OpenRow

LEMMA FilledKeepsQueue ==
  ASSUME Inv, QueueInv, [Next]_vars, Dispute, RowsFilled, UNCHANGED download
  PROVE  QueueInv'
<1>1. ASSUME NEW p \in Downloaders, NEW u \in download[p].todo PROVE OpenRow(p, u)'
  <2>1. u \in Present
    BY DEF QueueInv, OpenRow
  <2>2. rows'[u].is_downloaded = rows[u].is_downloaded
    BY <2>1, FilledKeeps DEF Inv, TypeOK
  <2> QED
    BY <2>2, OpenKept
<1> QED
  BY <1>1, ContestedKept DEF QueueInv

\* The key of each kind.
LEMMA MarkedIs ==
  ASSUME NEW p, NEW u
  PROVE  /\ download[p].kind = "download" => Marked(p, u) = u
         /\ download[p].kind = "bulk" => Marked(p, u) = rows[u].full
         /\ download[p].kind = "json" => Marked(p, u) = None
BY DEF Marked

\* A step of a run takes a game off the queue, with at most one mark; or it
\* changes neither the queue nor the rows, or ends the run; or it starts one;
\* or it resets the errors.
Turn(p, u) ==
  /\ Running(p, u)
  /\ \E r \in DownloadRuns : /\ Goes(p, r)
                             /\ r.kind = download[p].kind /\ r.todo = download[p].todo \ {u}
  /\ \/ rows' = MarkMajsoulDownloaded(Marked(p, u))
     \/ rows' = MarkMajsoulDownloadError(Marked(p, u))
     \/ UNCHANGED rows
Quiet(p) ==
  /\ UNCHANGED rows
  /\ \/ Goes(p, NoDownload)
     \/ \E r \in DownloadRuns :
          /\ Goes(p, r) /\ download[p].stage # "idle"
          /\ r.kind = download[p].kind /\ r.todo = download[p].todo

LEMMA DownloadSteps ==
  ASSUME Inv, NEW p \in Downloaders, DownloadStep(p)
  PROVE  \/ \E u \in Uuids : Turn(p, u)
         \/ Quiet(p)
         \/ \E kind \in DownloadKinds, n \in Limits : DownloadStart(p, kind, n)
         \/ RetryErrors(p)
<1>0. DownloadOK' /\ download[p] \in DownloadRuns /\ download'[p] \in DownloadRuns
  BY DownloadTyped DEF Inv, TypeOK, DownloadOK
<1> DEFINE d == download[p]
<1>a. ASSUME NEW r, Goes(p, r) PROVE r \in DownloadRuns
  <2>1. download'[p] = r
    BY <1>a DEF Goes, Inv, TypeOK, DownloadOK
  <2> QED
    BY <1>0, <2>1
<1>1. ASSUME NEW kind \in scenario.kinds, NEW n \in Limits, DownloadStart(p, kind, n)
      PROVE  \E k \in DownloadKinds, m \in Limits : DownloadStart(p, k, m)
  BY <1>1, ScenariosAssumption DEF Inv, TypeOK
<1>b. ASSUME NEW r, Goes(p, r), d.stage # "idle", r.kind = d.kind, r.todo = d.todo,
             UNCHANGED rows
      PROVE  Quiet(p)
  BY <1>a, <1>b DEF Quiet
<1>3. CASE Connect(p) \/ ConnectFails(p) \/ Restart(p) \/ DownloadAbort(p) \/ DownloadEnd(p)
  <2>1. UNCHANGED rows
    BY <1>3 DEF Connect, ConnectFails, Restart, DownloadAbort, DownloadEnd, tables
  <2>2. CASE Connect(p)
    <3> DEFINE r == [d EXCEPT !.stage = "ask", !.connects = 0, !.since = 0]
    <3>1. r.kind = d.kind /\ r.todo = d.todo
      BY <1>0 DEF DownloadRuns
    <3>2. Goes(p, r) /\ d.stage # "idle"
      BY <2>2 DEF Connect
    <3> QED
      BY <1>b, <2>1, <3>1, <3>2
  <2>3. CASE ConnectFails(p) /\ d.connects # 3
    <3> DEFINE r == [d EXCEPT !.connects = @ + 1]
    <3>1. r.kind = d.kind /\ r.todo = d.todo
      BY <1>0 DEF DownloadRuns
    <3>2. Goes(p, r) /\ d.stage # "idle"
      BY <2>3 DEF ConnectFails
    <3> QED
      BY <1>b, <2>1, <3>1, <3>2
  <2>4. CASE Restart(p)
    <3> DEFINE r == [d EXCEPT !.stage = "connect"]
    <3>1. r.kind = d.kind /\ r.todo = d.todo
      BY <1>0 DEF DownloadRuns
    <3>2. Goes(p, r) /\ d.stage # "idle"
      BY <2>4 DEF Restart
    <3> QED
      BY <1>b, <2>1, <3>1, <3>2
  <2>5. CASE DownloadAbort(p) \/ DownloadEnd(p) \/ (ConnectFails(p) /\ d.connects = 3)
    BY <2>1, <2>5 DEF DownloadAbort, DownloadEnd, ConnectFails, Quiet
  <2> QED
    BY <1>3, <2>2, <2>3, <2>4, <2>5
<1>4. ASSUME NEW u \in Uuids
      PROVE  Following(p, u).kind = d.kind /\ Following(p, u).todo = d.todo \ {u}
  BY <1>0 DEF Following, DownloadRuns
<1>c. ASSUME NEW u \in Uuids, NEW r, Goes(p, r), Running(p, u),
             r.kind = d.kind, r.todo = d.todo \ {u},
             \/ rows' = MarkMajsoulDownloaded(Marked(p, u))
             \/ rows' = MarkMajsoulDownloadError(Marked(p, u))
             \/ UNCHANGED rows
      PROVE  Turn(p, u)
  BY <1>a, <1>c DEF Turn
<1>5. ASSUME NEW u \in Uuids, NEW saved \in BOOLEAN, Arrives(p, u, saved) PROVE Turn(p, u)
  BY <1>4, <1>5, <1>c DEF Arrives
<1>6. ASSUME NEW u \in Uuids, NEW reported \in BOOLEAN, Unconvertible(p, u, reported)
      PROVE  Turn(p, u)
  BY <1>4, <1>6, <1>c DEF Unconvertible
<1>7. ASSUME NEW u \in Uuids, NEW marked \in BOOLEAN, Refused(p, u, marked) PROVE Turn(p, u)
  BY <1>4, <1>7, <1>c DEF Refused
<1>8. ASSUME NEW u \in Uuids, NEW marked \in BOOLEAN, VersionMismatch(p, u, marked)
      PROVE  Turn(p, u) \/ Quiet(p)
  <2>1. CASE d.mismatches = 3
    BY <1>8, <2>1 DEF VersionMismatch, Quiet
  <2>2. CASE d.mismatches # 3 /\ d.kind = "bulk"
    <3> DEFINE r == [d EXCEPT !.mismatches = @ + 1, !.stage = "connect", !.retry = TRUE]
    <3>1. UNCHANGED rows /\ d.stage # "idle" /\ Goes(p, r)
      BY <1>8, <2>2 DEF VersionMismatch, Running
    <3>2. r.kind = d.kind /\ r.todo = d.todo
      BY <1>0 DEF DownloadRuns
    <3> QED
      BY <1>b, <3>1, <3>2
  <2>3. CASE d.mismatches # 3 /\ d.kind # "bulk"
    <3> DEFINE r == [Following(p, u) EXCEPT !.mismatches = @ + 1]
    <3>1. /\ Running(p, u) /\ Goes(p, r)
          /\ rows' = MarkMajsoulDownloadError(Marked(p, u)) \/ UNCHANGED rows
      BY <1>8, <2>3 DEF VersionMismatch
    <3>2. r.kind = Following(p, u).kind /\ r.todo = Following(p, u).todo
      BY <1>0 DEF Following, DownloadRuns
    <3> QED
      BY <1>4, <1>c, <3>1, <3>2
  <2> QED
    BY <2>1, <2>2, <2>3
<1> QED
  BY <1>1, <1>3, <1>5, <1>6, <1>7, <1>8 DEF DownloadStep

\* Resetting the errors leaves the records alone that are stored.
LEMMA ResetKeeps ==
  ASSUME Inv, NEW p, RetryErrors(p), NEW u \in Uuids
  PROVE  /\ rows'[u].owner = rows[u].owner /\ rows'[u].full = rows[u].full
         /\ rows'[u].is_downloaded = 1 <=> rows[u].is_downloaded = 1
<1>1. rows[u] \in Row
  BY DEF Inv, TypeOK, TablesOK
<1>2. CASE rows[u].is_downloaded = -1
  <2>1. rows'[u] = [rows[u] EXCEPT !.is_downloaded = 0, !.attempts = 0]
    BY <1>2 DEF RetryErrors, ResetMajsoulDownloadErrors
  <2>2. /\ rows'[u].owner = rows[u].owner /\ rows'[u].full = rows[u].full
        /\ rows'[u].is_downloaded = 0
    BY <1>1, <2>1 DEF Row
  <2> QED
    BY <1>2, <2>2
<1>3. CASE rows[u].is_downloaded # -1
  BY <1>3 DEF RetryErrors, ResetMajsoulDownloadErrors
<1> QED
  BY <1>2, <1>3

\* A game's turn leaves every other row alone, but for the one that
\* bulk-download finds under the full uuid.
LEMMA TurnMarks ==
  ASSUME Inv, QueueInv, NEW p \in Downloaders, NEW u \in Uuids, Turn(p, u), NEW w \in Present,
         w # u \/ download[p].kind = "json"
  PROVE  rows'[w].is_downloaded = rows[w].is_downloaded \/ Shared(w)
<1>1. w \in Uuids /\ w # None /\ rows \in [Uuids -> Row]
  BY GamesAssumption DEF Present, Inv, TypeOK, TablesOK
<1>2. download[p].kind \in DownloadKinds /\ u \in download[p].todo
  BY DEF QueueInv, Turn, Running, IsFirst
<1>3. CASE Marked(p, u) # w
  BY <1>1, <1>3 DEF Turn, MarkMajsoulDownloaded, MarkMajsoulDownloadError
<1>4. CASE Marked(p, u) = w
  <2>1. download[p].kind = "bulk" /\ rows[u].full = w /\ u # w
    BY <1>1, <1>2, <1>4, MarkedIs DEF DownloadKinds
  <2>2. u \in Present
    BY <1>2 DEF QueueInv, OpenRow
  <2> QED
    BY <2>1, <2>2, BulkMark
<1> QED
  BY <1>3, <1>4

\* A process changes no other's run.
LEMMA OthersRun ==
  ASSUME Inv, NEW p \in Downloaders, NEW r, Goes(p, r), NEW q \in Downloaders
  PROVE  download'[q] = IF q = p THEN r ELSE download[q]
BY DEF Goes, Inv, TypeOK, DownloadOK

LEMMA QueueStep ==
  ASSUME Inv, QueueInv, [Next]_vars, Dispute
  PROVE  QueueInv'
<1>0. ASSUME \A q \in Downloaders :
               /\ download'[q].stage # "idle" => download'[q].kind \in DownloadKinds
               /\ \A w \in download'[q].todo : OpenRow(q, w)'
      PROVE  QueueInv'
  BY <1>0, ContestedKept DEF QueueInv
<1>1. ASSUME NEW g \in Games, Publish(g) PROVE QueueInv'
  BY <1>1, NothingFills, FilledKeepsQueue DEF Publish, tables, Inv, TypeOK
<1>2. CASE NextDay \/ UNCHANGED vars
  BY <1>2, NothingFills, FilledKeepsQueue DEF NextDay, tables, vars, Inv, TypeOK
<1>3. CASE Scrape
  BY <1>3, ScrapeRows, FilledKeepsQueue DEF Scrape, Inv, TypeOK
<1>4. CASE Others
  BY <1>4, OtherRows, FilledKeepsQueue DEF Others, OtherCommand, Inv, TypeOK
<1>5. ASSUME NEW p \in Downloaders, Downloads(p) PROVE QueueInv'
  <2>1. DownloadStep(p)
    BY <1>5 DEF Downloads
  <2>2. ASSUME NEW u \in Uuids, Turn(p, u) PROVE QueueInv'
    <3>1. PICK r \in DownloadRuns : /\ Goes(p, r) /\ r.kind = download[p].kind
                                    /\ r.todo = download[p].todo \ {u}
      BY <2>2 DEF Turn
    <3>2. download[p].kind \in DownloadKinds /\ u \in download[p].todo
      BY <2>2 DEF QueueInv, Turn, Running, IsFirst
    <3>3. ASSUME NEW q \in Downloaders
          PROVE  /\ download'[q].kind = download[q].kind
                 /\ download'[q].todo = IF q = p THEN download[q].todo \ {u}
                                        ELSE download[q].todo
                 /\ q # p => download'[q] = download[q]
      BY <3>1, OthersRun
    <3>4. ASSUME NEW q \in Downloaders, NEW w \in download'[q].todo PROVE OpenRow(q, w)'
      <4>1. w \in download[q].todo /\ w \in Uuids /\ w \in Present
        BY <3>3, <3>4 DEF QueueInv, OpenRow, Present
      <4>2. CASE w # u
        BY <2>2, <3>3, <3>4, <4>1, <4>2, TurnMarks, OpenKept
      <4>3. CASE w = u
        <5>1. q # p /\ u \in download[q].todo
          BY <3>3, <3>4, <4>1, <4>3
        <5>2. u \in disputed
          BY <3>2, <5>1 DEF QueueInv, Contested
        <5> QED
          BY <3>3, <3>4, <4>1, <4>3, <5>2, OpenKept
      <4> QED
        BY <4>2, <4>3
    <3>5. ASSUME NEW q \in Downloaders
          PROVE  download'[q].stage # "idle" => download'[q].kind \in DownloadKinds
      BY <3>2, <3>3 DEF QueueInv
    <3> QED
      BY <1>0, <3>4, <3>5
  <2>3. CASE Quiet(p)
    <3>1. PICK r : /\ Goes(p, r)
                   /\ \/ r = NoDownload
                      \/ /\ download[p].stage # "idle"
                         /\ r.kind = download[p].kind /\ r.todo = download[p].todo
      BY <2>3 DEF Quiet
    <3>2. ASSUME NEW q \in Downloaders
          PROVE  \/ download'[q] = NoDownload
                 \/ /\ download'[q].kind = download[q].kind
                    /\ download'[q].todo = download[q].todo
                    /\ download[q].stage # "idle" \/ download'[q] = download[q]
      BY <3>1, OthersRun
    <3>3. ASSUME NEW q \in Downloaders, NEW w \in download'[q].todo PROVE OpenRow(q, w)'
      <4>1. /\ download'[q].kind = download[q].kind /\ download'[q].todo = download[q].todo
            /\ w \in download[q].todo
        BY <3>2, <3>3 DEF NoDownload
      <4>2. UNCHANGED rows
        BY <2>3 DEF Quiet
      <4> QED
        BY <3>3, <4>1, <4>2, OpenKept
    <3>4. ASSUME NEW q \in Downloaders
          PROVE  download'[q].stage # "idle" => download'[q].kind \in DownloadKinds
      BY <3>2 DEF QueueInv, NoDownload
    <3> QED
      BY <1>0, <3>3, <3>4
  <2>4. ASSUME NEW kind \in DownloadKinds, NEW n \in Limits, DownloadStart(p, kind, n)
        PROVE  QueueInv'
    <3> DEFINE r == [NoDownload EXCEPT !.stage = "connect", !.kind = kind,
                                       !.todo = FirstN(Queue(kind), n)]
    <3>1. UNCHANGED rows /\ Goes(p, r)
      BY <2>4 DEF DownloadStart, tables
    <3>2. r.kind = kind /\ r.todo \subseteq Queue(kind)
      BY DEF NoDownload, FirstN
    <3>3. \A u \in Queue(kind) :
            /\ u \in Present /\ rows[u].is_downloaded # 1
            /\ kind = "bulk" => rows[u].full # None
      BY DEF Queue, Undownloaded, UndownloadedWithFull, Queued
    <3> HIDE DEF r
    <3>4. ASSUME NEW q \in Downloaders, NEW w \in download'[q].todo PROVE OpenRow(q, w)'
      <4>1. CASE q = p
        <5>1. download'[q] = r
          BY <3>1, <4>1, OthersRun
        <5>2. /\ w \in Present /\ rows[w].is_downloaded # 1
              /\ kind = "bulk" => rows[w].full # None
          BY <3>2, <3>3, <3>4, <5>1
        <5> QED
          BY <3>1, <3>2, <5>1, <5>2 DEF OpenRow, Present
      <4>2. CASE q # p
        BY <3>1, <3>4, <4>2, OthersRun, OpenKept
      <4> QED
        BY <4>1, <4>2
    <3>5. ASSUME NEW q \in Downloaders
          PROVE  download'[q].stage # "idle" => download'[q].kind \in DownloadKinds
      BY <3>1, <3>2, OthersRun DEF QueueInv
    <3> QED
      BY <1>0, <3>4, <3>5
  <2>5. CASE RetryErrors(p)
    <3>1. UNCHANGED download
      BY <2>5 DEF RetryErrors
    <3>2. ASSUME NEW q \in Downloaders, NEW w \in download'[q].todo PROVE OpenRow(q, w)'
      <4>1. w \in download[q].todo /\ OpenRow(q, w) /\ w \in Uuids
        BY <3>1, <3>2 DEF QueueInv, OpenRow, Present
      <4>2. CASE rows[w].is_downloaded # 1
        <5>1. rows'[w].is_downloaded # 1
          BY <2>5, <4>1, <4>2, ResetKeeps
        <5> QED
          BY <3>1, <3>2, <4>1, <5>1, OpenKept
      <4>3. CASE rows[w].is_downloaded = 1
        BY <3>1, <3>2, <4>1, <4>3, OpenKept DEF OpenRow
      <4> QED
        BY <4>2, <4>3
    <3> QED
      BY <1>0, <3>1, <3>2 DEF QueueInv
  <2> QED
    BY <2>1, <2>2, <2>3, <2>4, <2>5, DownloadSteps
<1> QED
  BY <1>1, <1>2, <1>3, <1>4, <1>5 DEF Next

\* A record that is stored stays stored, for any number of downloads at the same
\* time, next to scraping and resets: it is lost only if another row has its
\* full uuid, or if two downloads had its row in their queues at the same time
\* and one of them is not yet done with it (db.rs:501-515).
THEOREM StoredIsKept == HistorySpec => StoredForGood
<1>1. HistoryInit => QueueInv
  BY DEF HistoryInit, Init, NoDownload, QueueInv, Contested
<1> DEFINE Stays(u) ==
      /\ rows[u].is_downloaded = 1
      /\ u \notin disputed
      /\ \A v \in Uuids \ {u} : rows[u].full = None \/ rows[v].full # rows[u].full
      => rows'[u].is_downloaded = 1
<1>2. Inv /\ QueueInv /\ [HistoryNext]_historyVars => [\A u \in Uuids : Stays(u)]_historyVars
  <2> SUFFICES ASSUME Inv, QueueInv, Next,
                      NEW u \in Uuids, rows[u].is_downloaded = 1, u \notin disputed, ~Shared(u)
               PROVE  rows'[u].is_downloaded = 1
    BY DEF Shared, HistoryNext
  <2>1. u \in Present
    BY DEF Present, Inv, TypeOK, TablesOK, Absent
  <2>2. CASE RowsFilled
    BY <2>1, <2>2, FilledKeeps DEF Inv, TypeOK
  <2>3. ASSUME NEW p \in Downloaders, Downloads(p) PROVE rows'[u].is_downloaded = 1
    <3>1. DownloadStep(p)
      BY <2>3 DEF Downloads
    <3>2. ASSUME NEW v \in Uuids, Turn(p, v) PROVE rows'[u].is_downloaded = 1
      <4>1. u # v
        BY <3>2 DEF Turn, Running, IsFirst, QueueInv, OpenRow
      <4> QED
        BY <2>1, <3>2, <4>1, TurnMarks
    <3>3. CASE Quiet(p)
      BY <3>3 DEF Quiet
    <3>4. CASE \E kind \in DownloadKinds, n \in Limits : DownloadStart(p, kind, n)
      BY <3>4 DEF DownloadStart, tables
    <3>5. CASE RetryErrors(p)
      BY <3>5, ResetKeeps
    <3> QED
      BY <3>1, <3>2, <3>3, <3>4, <3>5, DownloadSteps
  <2> QED
    BY <2>2, <2>3, ScrapeRows, OtherRows, NothingFills
       DEF Next, Publish, NextDay, Scrape, Others, OtherCommand, tables, Inv, TypeOK
<1>3. Inv /\ QueueInv /\ [HistoryNext]_historyVars => QueueInv'
  <2>1. CASE HistoryNext
    BY <2>1, QueueStep DEF HistoryNext
  <2>2. CASE UNCHANGED historyVars
    BY <2>2 DEF historyVars, vars, tables, QueueInv, OpenRow, Contested, Present, Shared
  <2> QED
    BY <2>1, <2>2
<1>4. [HistoryNext]_historyVars => [Next]_vars
  BY DEF HistoryNext, historyVars
<1>5. HistoryInit => Inv
  BY LogsInit DEF HistoryInit
<1> QED
  BY <1>1, <1>2, <1>3, <1>4, <1>5, LogsStep, PTL DEF HistorySpec, StoredForGood

-----------------------------------------------------------------------------
(***************************************************************************)
(* Convergence.  While scrape-all runs, a promised game has its full uuid, *)
(* or a player of it is still to be fetched, or its date is still to be    *)
(* listed and names such a player.  If its chunk was passed over, the date *)
(* is not marked at the end of it.                                         *)
(***************************************************************************)
Pending(g) == \E p \in Accounts(g) : throne[p] = "new"
ToList(g) ==
  /\ DayOf[g] \notin room_fetched /\ ~Skipped(g)
  /\ \E p \in Accounts(g) : throne[p] = "absent"
PassedOver(g) ==
  /\ scrape.stage = "dates" /\ IsFirst(DayOf[g], scrape.dates)
  /\ ChunkOf[g] \notin scrape.chunks
OnTheWay(g) ==
  rows[g].full = g \/ Pending(g) \/ (ToList(g) /\ (PassedOver(g) => ~scrape.ok))

PromiseInv ==
  /\ promised \subseteq published
  /\ \A g \in published : DayOf[g] <= today
  /\ \A g \in promised :
       /\ scrape.stage = "converged" => rows[g].full = g
       /\ scrape.stage \notin {"idle", "converged"} => OnTheWay(g)
       /\ scrape.none => DayOf[g] \in room_fetched

\* While its players are only inserted, a game that is to be listed or has a
\* player to be fetched remains one of the two.
LEMMA UpsertKeeps ==
  ASSUME Inv, NEW g \in Games, NEW ps, throne' = Upsert(throne, ps)
  PROVE  /\ Pending(g) => Pending(g)'
         /\ ToList(g) /\ DayOf[g] \notin room_fetched' => Pending(g)' \/ ToList(g)'
         /\ ToList(g) /\ Accounts(g) \subseteq ps => Pending(g)'
BY AccountsTyped DEF Pending, ToList, Upsert

LEMMA ScrapeFields ==
  ASSUME Inv
  PROVE  scrape \in [stage : ScrapeStages, dates : SUBSET Days, none : BOOLEAN,
                     chunks : SUBSET Chunks, ok : BOOLEAN, players : SUBSET Players,
                     new : BOOLEAN, failures : BOOLEAN]
BY DEF Inv, TypeOK, ScrapeOK

\* A round begins with no chunk passed over, and finds no date to list only if
\* all dates up to today are marked.
LEMMA NewRoundKeeps ==
  ASSUME Inv, scrape' = NewRound, UNCHANGED tables, NEW g \in Games, DayOf[g] <= today
  PROVE  /\ scrape'.stage \in {"dates", "expand"} /\ ~PassedOver(g)'
         /\ scrape'.none => DayOf[g] \in room_fetched'
<1> DEFINE dates == {d \in Days : d <= today} \ room_fetched
<1>1. scrape' = [stage |-> IF dates = {} THEN "expand" ELSE "dates", dates |-> dates,
                 none |-> (dates = {}), chunks |-> Chunks, ok |-> TRUE, players |-> {},
                 new |-> FALSE, failures |-> FALSE]
  BY DEF NewRound, NoScrape
<1>2. DayOf[g] \in Days /\ ChunkOf[g] \in Chunks
  BY GamesAssumption
<1>3. dates = {} => DayOf[g] \in room_fetched
  BY <1>2
<1>4. UNCHANGED room_fetched
  BY DEF tables
<1> HIDE DEF dates
<1>5. scrape'.stage \in {"dates", "expand"} /\ scrape'.chunks = Chunks
  BY <1>1
<1>6. scrape'.none => dates = {}
  <2> SUFFICES ASSUME dates # {} PROVE ~scrape'.none
    OBVIOUS
  <2>1. (dates = {}) = FALSE
    OBVIOUS
  <2>2. scrape' = [stage |-> IF dates = {} THEN "expand" ELSE "dates", dates |-> dates,
                   none |-> FALSE, chunks |-> Chunks, ok |-> TRUE, players |-> {},
                   new |-> FALSE, failures |-> FALSE]
    BY <1>1, <2>1, Zenon
  <2> QED
    BY <2>2
<1> QED
  BY <1>2, <1>3, <1>4, <1>5, <1>6 DEF PassedOver

\* One chunk of a date: the game is listed with its players, or the listing was
\* cut and the promise is off, or it is the chunk of others.
LEMMA ChunkKeeps ==
  ASSUME Inv, NEW g \in published, OnTheWay(g), ~TakenAway(g),
         NEW d \in Days, NEW c \in Chunks, NEW got \in RoomAnswers(d, c),
         ScrapeChunk(d, c, got), rows[g].full # g
  PROVE  OnTheWay(g)'
<1>1. g \in Games /\ DayOf[g] \in Days /\ ChunkOf[g] \in Chunks
  BY GamesAssumption DEF Inv, TypeOK, TablesOK
<1>2. throne' = Upsert(throne, AccountsOf({h \in got : ~Skipped(h)}))
      /\ UNCHANGED room_fetched
  BY DEF ScrapeChunk
<1>3. CASE Pending(g)
  BY <1>1, <1>2, <1>3, UpsertKeeps DEF OnTheWay
<1>4. CASE ~Pending(g) /\ g \in got
  <2>1. ToList(g) /\ ~Skipped(g)
    BY <1>4 DEF OnTheWay, ToList
  <2>2. Accounts(g) \subseteq AccountsOf({h \in got : ~Skipped(h)})
    BY <1>4, <2>1 DEF AccountsOf
  <2>3. Pending(g)'
    BY <1>1, <1>2, <2>1, <2>2, UpsertKeeps
  <2> QED
    BY <2>3 DEF OnTheWay
<1>5. CASE ~Pending(g) /\ g \notin got
  <2>1. ToList(g) /\ (PassedOver(g) => ~scrape.ok)
    BY <1>5 DEF OnTheWay
  <2>2. Pending(g)' \/ ToList(g)'
    BY <1>1, <1>2, <2>1, UpsertKeeps DEF ToList
  <2>3. CASE d = DayOf[g] /\ c = ChunkOf[g]
    <3>1. \E p \in Accounts(g) : throne'[p] = "new"
      BY <1>5, <2>3 DEF TakenAway
    <3> QED
      BY <3>1 DEF OnTheWay, Pending
  <2>4. CASE ~(d = DayOf[g] /\ c = ChunkOf[g])
    <3>1. /\ scrape'.stage = scrape.stage /\ scrape'.dates = scrape.dates
          /\ scrape'.chunks = scrape.chunks \ {c} /\ scrape'.ok = scrape.ok
      BY ScrapeFields DEF ScrapeChunk
    <3>2. IsFirst(d, scrape.dates) /\ scrape.dates \subseteq Nat
      BY GamesAssumption, ScrapeFields DEF ScrapeChunk, CurrentDate
    <3>3. IsFirst(DayOf[g], scrape.dates) => DayOf[g] = d
      BY <3>2 DEF IsFirst
    <3>4. PassedOver(g)' => ~scrape'.ok
      BY <2>1, <2>4, <3>1, <3>3 DEF PassedOver
    <3> QED
      BY <2>2, <3>4 DEF OnTheWay
  <2> QED
    BY <2>3, <2>4
<1> QED
  BY <1>3, <1>4, <1>5

\* The pages of a player: a game of the player is stored, and the other games
\* keep their players.
LEMMA PlayerKeeps ==
  ASSUME Inv, NEW g \in published, OnTheWay(g), NEW p \in Players, ScrapePlayer(p),
         rows[g].full # g
  PROVE  OnTheWay(g)'
<1>1. g \in Games /\ Accounts(g) \subseteq Players
  BY AccountsTyped DEF Inv, TypeOK, TablesOK
<1>2. CASE p \in Accounts(g)
  BY <1>2, PagesComplete DEF ScrapePlayer, PlayerListing, OnTheWay
<1>3. CASE p \notin Accounts(g)
  <2> DEFINE ps == AccountsOf(PlayerListing(p))
  <2>1. \A q \in Accounts(g) :
          throne'[q] = IF q \in ps /\ throne[q] = "absent" THEN "new" ELSE throne[q]
    BY <1>1, <1>3 DEF ScrapePlayer, MarkFetched, Upsert
  <2>2. UNCHANGED room_fetched
    BY DEF ScrapePlayer
  <2>3. scrape'.stage # "dates"
    BY ScrapeFields DEF ScrapePlayer, DonePlayer
  <2>4. Pending(g)' \/ ToList(g)'
    BY <2>1, <2>2 DEF OnTheWay, Pending, ToList
  <2> QED
    BY <2>3, <2>4 DEF OnTheWay, PassedOver
<1> QED
  BY <1>2, <1>3

\* The end of a date: it is marked only if none of its chunks was passed over.
LEMMA DateKeeps ==
  ASSUME Inv, NEW g \in Games, OnTheWay(g), NEW d \in Days, ScrapeDate(d)
  PROVE  OnTheWay(g)'
<1>1. CASE rows[g].full = g \/ Pending(g)
  BY <1>1 DEF ScrapeDate, OnTheWay, Pending
<1>2. CASE ToList(g) /\ (PassedOver(g) => ~scrape.ok)
  <2>1. scrape'.chunks = Chunks /\ ChunkOf[g] \in Chunks
    BY GamesAssumption, ScrapeFields DEF ScrapeDate
  <2>2. ~PassedOver(g)'
    BY <2>1 DEF PassedOver
  <2>3. DayOf[g] \notin room_fetched'
    BY <1>2 DEF ScrapeDate, ToList, PassedOver
  <2> QED
    BY <1>2, <2>2, <2>3 DEF OnTheWay, ToList, ScrapeDate
<1> QED
  BY <1>1, <1>2 DEF OnTheWay

\* A step of scrape-all that leaves a run going keeps a promised game on its
\* way, or it begins the next round.
LEMMA ScrapeKeeps ==
  ASSUME Inv, NEW g \in published, OnTheWay(g), ~TakenAway(g), ScrapeStep,
         scrape'.stage \notin {"idle", "converged"}, DayOf[g] <= today
  PROVE  OnTheWay(g)'
<1>1. g \in Games /\ g \in Uuids /\ g # None
  BY GamesAssumption DEF Inv, TypeOK, TablesOK
<1>2. CASE rows[g].full = g
  <2>1. rows'[g].full = g
    BY <1>1, <1>2, ScrapeRows, FilledKeeps DEF Inv, TypeOK
  <2> QED
    BY <2>1 DEF OnTheWay
<1>3. CASE rows[g].full # g
  <2>1. ASSUME UNCHANGED tables, scrape'.stage # "dates" PROVE OnTheWay(g)'
    BY <2>1 DEF tables, OnTheWay, Pending, ToList, PassedOver
  <2>2. CASE ScrapeAll
    <3>1. UNCHANGED tables /\ scrape' = NewRound
      BY <2>2 DEF ScrapeAll
    <3>2. ~PassedOver(g)'
      BY <1>1, <3>1, NewRoundKeeps
    <3> QED
      BY <3>1, <3>2 DEF tables, OnTheWay, Pending, ToList
  <2>3. ASSUME NEW d \in Days, NEW c \in Chunks, NEW got \in RoomAnswers(d, c),
               ScrapeChunk(d, c, got)
        PROVE  OnTheWay(g)'
    BY <1>3, <2>3, ChunkKeeps
  <2>4. ASSUME NEW d \in Days, NEW c \in Chunks, ScrapeChunkFails(d, c)
        PROVE  OnTheWay(g)'
    <3>1. scrape'.ok = FALSE /\ UNCHANGED tables
      BY <2>4, ScrapeFields DEF ScrapeChunkFails
    <3> QED
      BY <3>1 DEF tables, OnTheWay, Pending, ToList
  <2>5. ASSUME NEW d \in Days, ScrapeDate(d) PROVE OnTheWay(g)'
    BY <1>1, <2>5, DateKeeps
  <2>6. CASE Expand
    BY <2>1, <2>6, ScrapeFields DEF Expand
  <2>7. ASSUME NEW p \in Players, ScrapePlayer(p) PROVE OnTheWay(g)'
    BY <1>3, <2>7, PlayerKeeps
  <2>8. ASSUME NEW p \in Players, ScrapePlayerFails(p) PROVE OnTheWay(g)'
    BY <2>1, <2>8, ScrapeFields DEF ScrapePlayerFails, DonePlayer
  <2>9. CASE ScrapeMatch
    <3>1. UNCHANGED <<throne, room_fetched>> /\ scrape'.stage = "check"
      BY <2>9, ScrapeFields DEF ScrapeMatch
    <3> QED
      BY <1>3, <3>1 DEF OnTheWay, Pending, ToList, PassedOver
  <2>10. CASE ScrapeCheck
    <3>1. UNCHANGED tables /\ scrape' = NewRound
      BY <2>10 DEF ScrapeCheck, NoScrape
    <3>2. ~PassedOver(g)'
      BY <1>1, <3>1, NewRoundKeeps
    <3> QED
      BY <3>1, <3>2 DEF tables, OnTheWay, Pending, ToList
  <2>11. CASE ScrapeKilled
    BY <2>11 DEF ScrapeKilled, NoScrape
  <2> QED
    BY <2>2, <2>3, <2>4, <2>5, <2>6, <2>7, <2>8, <2>9, <2>10, <2>11 DEF ScrapeStep
<1> QED
  BY <1>2, <1>3

\* A step of another command keeps it on its way too, unless it takes the
\* promise back: only fetch-room marks a date it may not have got, and only
\* fetch-full-uuids a player.
LEMMA OthersKeep ==
  ASSUME Inv, NEW g \in published, OnTheWay(g), ~TakenAway(g), OtherStep, UNCHANGED scrape
  PROVE  OnTheWay(g)'
<1>1. g \in Games /\ g \in Uuids /\ g # None /\ Accounts(g) \subseteq Players
  BY AccountsTyped, GamesAssumption DEF Inv, TypeOK, TablesOK
<1>2. PassedOver(g)' = PassedOver(g) /\ scrape'.ok = scrape.ok
  BY DEF PassedOver
<1>3. CASE rows[g].full = g
  <2>1. rows'[g].full = g
    BY <1>1, <1>3, OtherRows, FilledKeeps DEF Inv, TypeOK
  <2> QED
    BY <2>1 DEF OnTheWay
<1>4. CASE rows[g].full # g
  <2>1. ASSUME UNCHANGED <<throne, room_fetched>> PROVE OnTheWay(g)'
    BY <1>2, <1>4, <2>1 DEF OnTheWay, Pending, ToList
  <2>2. ASSUME NEW d \in Days, NEW killed \in BOOLEAN, NEW got \in SUBSET DayListing(d),
               FetchRoomDay(d, got, killed)
        PROVE  OnTheWay(g)'
    <3>1. DayOf[g] \notin room_fetched => DayOf[g] \notin room_fetched'
      BY DEF TakenAway
    <3>2. UNCHANGED throne
      BY <2>2 DEF FetchRoomDay
    <3> QED
      BY <1>2, <1>4, <3>1, <3>2 DEF OnTheWay, Pending, ToList
  <2>3. CASE Populate
    <3>1. UNCHANGED room_fetched /\ \E ps : throne' = Upsert(throne, ps)
      BY <2>3 DEF Populate
    <3>2. ToList(g) => DayOf[g] \notin room_fetched'
      BY <3>1 DEF ToList
    <3> QED
      BY <1>1, <1>2, <1>4, <3>1, <3>2, UpsertKeeps DEF OnTheWay
  <2>4. ASSUME NEW p \in Players, NEW pages \in SUBSET PlayerListing(p),
               FetchFullUuids(p, pages)
        PROVE  OnTheWay(g)'
    <3>1. throne' = MarkFetched(throne, p) /\ throne[p] = "new" /\ UNCHANGED room_fetched
      BY <2>4 DEF FetchFullUuids
    <3>2. CASE p \notin Accounts(g)
      <4>1. \A q \in Accounts(g) : throne'[q] = throne[q]
        BY <1>1, <3>1, <3>2 DEF MarkFetched, Inv, TypeOK, TablesOK
      <4> QED
        BY <1>2, <1>4, <3>1, <4>1 DEF OnTheWay, Pending, ToList
    <3>3. CASE p \in Accounts(g)
      <4>1. g \in pages
        BY <2>4, <3>3 DEF TakenAway
      <4>2. rows' = InsertFullGames(pages, p) /\ rows[g] \in Row
        BY <1>1, <2>4 DEF FetchFullUuids, Inv, TypeOK, TablesOK
      <4>3. rows[g].full = None
        BY <1>1, <1>4, GamesAssumption DEF Inv, RowsInv, FullUuidRight
      <4>4. rows'[g] = IF rows[g] = Absent THEN [Absent EXCEPT !.owner = p, !.full = g]
                       ELSE [rows[g] EXCEPT !.full = IF @ = None THEN g ELSE @]
        BY <1>1, <4>1, <4>2 DEF InsertFullGames
      <4>5. [Absent EXCEPT !.owner = p, !.full = g].full = g
        BY DEF Absent
      <4>6. [rows[g] EXCEPT !.full = g].full = g
        BY <4>2 DEF Row
      <4> QED
        BY <4>3, <4>4, <4>5, <4>6 DEF OnTheWay
    <3> QED
      BY <3>2, <3>3
  <2>5. CASE ResetCappedPlayers
    <3>1. \A p \in Accounts(g) :
            /\ throne[p] = "new" => throne'[p] = "new"
            /\ throne[p] = "absent" => throne'[p] = "absent"
      BY <1>1, <2>5 DEF ResetCappedPlayers, ResetCapped
    <3> QED
      BY <1>2, <1>4, <2>5, <3>1 DEF ResetCappedPlayers, OnTheWay, Pending, ToList
  <2>6. ASSUME NEW p \in Players, RecoverPlayer(p) PROVE OnTheWay(g)'
    BY <2>4, <2>6 DEF RecoverPlayer
  <2> QED
    BY <2>1, <2>2, <2>3, <2>4, <2>5, <2>6
       DEF OtherStep, FetchPlayer, FetchPublic, RecoverMatch, ResolveUuid, FetchDay,
           ScrapePipelinePlayer
<1> QED
  BY <1>3, <1>4

\* A step of a download, and what happens outside, touch neither full uuids nor
\* the players and dates of scraping.
LEMMA RestKeeps ==
  ASSUME Inv, NEW g \in published, OnTheWay(g), [Next]_vars,
         UNCHANGED <<scrape, throne, room_fetched>>
  PROVE  OnTheWay(g)'
<1>1. g \in Uuids /\ g # None
  BY GamesAssumption DEF Inv, TypeOK, TablesOK
<1>2. rows[g].full = g => rows'[g].full = g
  BY <1>1, FullKept
<1> QED
  BY <1>2 DEF OnTheWay, Pending, ToList, PassedOver

\* What a step does to the run: it starts or checks or kills it, or it goes on
\* within the round.
Within ==
  /\ scrape'.none = scrape.none
  /\ scrape'.stage \in {"dates", "expand", "players", "match", "check"}

LEMMA RoundSteps ==
  ASSUME Inv, ScrapeStep
  PROVE  ScrapeAll \/ ScrapeCheck \/ ScrapeKilled \/ Within
<1> USE ScrapeFields DEF Within
<1>1. ASSUME NEW d \in Days, NEW c \in Chunks, NEW got \in RoomAnswers(d, c),
             ScrapeChunk(d, c, got)
      PROVE  Within
  BY <1>1 DEF ScrapeChunk, CurrentDate
<1>2. ASSUME NEW d \in Days, NEW c \in Chunks, ScrapeChunkFails(d, c) PROVE Within
  BY <1>2 DEF ScrapeChunkFails, CurrentDate
<1>3. ASSUME NEW d \in Days, ScrapeDate(d) PROVE Within
  BY <1>3 DEF ScrapeDate
<1>4. CASE Expand
  BY <1>4 DEF Expand
<1>5. ASSUME NEW p \in Players, ScrapePlayer(p) PROVE Within
  BY <1>5 DEF ScrapePlayer, DonePlayer
<1>6. ASSUME NEW p \in Players, ScrapePlayerFails(p) PROVE Within
  BY <1>6 DEF ScrapePlayerFails, DonePlayer
<1>7. CASE ScrapeMatch
  BY <1>7 DEF ScrapeMatch
<1> QED
  BY <1>1, <1>2, <1>3, <1>4, <1>5, <1>6, <1>7 DEF ScrapeStep

\* scrape-all reports convergence only after a round that found every date
\* marked and left no player to fetch.
LEMMA ConvergedMeans ==
  ASSUME Inv, NEW g \in Games, OnTheWay(g), scrape.none => DayOf[g] \in room_fetched,
         scrape'.stage = "converged", ScrapeStep
  PROVE  rows'[g].full = g
<1>1. NewRound.stage # "converged" /\ NoScrape.stage # "converged"
  BY DEF NewRound, NoScrape
<1>2. ScrapeCheck /\ Converged
  BY <1>1, RoundSteps DEF ScrapeAll, ScrapeCheck, ScrapeKilled, Within
<1>3. ~Pending(g) /\ ~ToList(g)
  BY <1>2, AccountsTyped DEF Converged, Unfetched, Pending, ToList
<1> QED
  BY <1>2, <1>3 DEF OnTheWay, ScrapeCheck, tables

\* Marks of dates are never taken back.
LEMMA DatesKept ==
  ASSUME Inv, [Next]_vars
  PROVE  room_fetched \subseteq room_fetched'
<1>1. CASE Scrape
  BY <1>1 DEF Scrape, ScrapeStep, ScrapeAll, ScrapeChunk, ScrapeChunkFails, ScrapeDate, Expand,
              ScrapePlayer, ScrapePlayerFails, ScrapeMatch, ScrapeCheck, ScrapeKilled,
              StoredInPart, tables
<1>2. CASE Others
  BY <1>2 DEF Others, OtherCommand, OtherStep, FetchRoomDay, FetchPlayer, FetchPublic, Populate,
              RecoverPlayer, FetchFullUuids, RecoverMatch, ResolveUuid, FetchDay,
              ScrapePipelinePlayer, ResetCappedPlayers
<1>3. ASSUME NEW p \in Downloaders, Downloads(p) PROVE UNCHANGED room_fetched
  BY <1>3 DEF Downloads, DownloadStep, DownloadStart, Connect, ConnectFails, Restart, Arrives,
              Unconvertible, Refused, VersionMismatch, DownloadAbort, DownloadEnd,
              RetryErrors, tables
<1> QED
  BY <1>1, <1>2, <1>3 DEF Next, Publish, NextDay, vars, tables

\* The round knows that no date was left when it began.
LEMMA NoneStep ==
  ASSUME Inv, ScrapeStep
  PROVE  scrape'.none => scrape.none \/ (scrape' = NewRound /\ UNCHANGED tables)
<1>1. NoScrape.none = FALSE /\ [NoScrape EXCEPT !.stage = "converged"].none = FALSE
  BY DEF NoScrape
<1> QED
  BY <1>1, RoundSteps DEF ScrapeAll, ScrapeCheck, ScrapeKilled, Within

\* A run starts from rest, and between runs nothing changes its state.
LEMMA StartStep ==
  ASSUME Inv, ScrapeStep, scrape.stage \in {"idle", "converged"}
  PROVE  ScrapeAll /\ scrape' # scrape
<1>1. ScrapeAll
  BY DEF ScrapeStep, ScrapeChunk, ScrapeChunkFails, CurrentDate, ScrapeDate, Expand, ScrapePlayer,
         ScrapePlayerFails, ScrapeMatch, ScrapeCheck, ScrapeKilled
<1>2. NewRound.stage \in {"dates", "expand"}
  BY DEF NewRound, NoScrape
<1> QED
  BY <1>1, <1>2 DEF ScrapeAll

LEMMA PromiseStep ==
  ASSUME Inv, PromiseInv, Next, Promise
  PROVE  PromiseInv'
<1>1. published \subseteq published' /\ published \subseteq Games
  BY PublishedGrows DEF Inv, TypeOK, TablesOK
<1>2. \A g \in published' : DayOf[g] <= today'
  <2>1. CASE \E g \in Games : Publish(g)
    <3>1. PICK g \in Games : Publish(g)
      BY <2>1
    <3>2. DayOf[g] = today /\ UNCHANGED today /\ published' = published \cup {g}
      BY <3>1 DEF Publish
    <3>3. today \in Nat
      BY GamesAssumption DEF Inv, TypeOK, TablesOK
    <3> QED
      BY <3>2, <3>3 DEF PromiseInv
  <2>2. CASE NextDay
    <3>1. \A g \in published : DayOf[g] \in Nat /\ DayOf[g] <= today /\ today \in Nat
      BY <1>1, GamesAssumption DEF PromiseInv, Inv, TypeOK, TablesOK
    <3> QED
      BY <2>2, <3>1 DEF NextDay
  <2>3. CASE Scrape \/ Others \/ \E p \in Downloaders : Downloads(p)
    BY <2>3 DEF Scrape, Others, Downloads, service, PromiseInv
  <2> QED
    BY <2>1, <2>2, <2>3 DEF Next
<1>3. promised' \subseteq published'
  BY <1>1 DEF Promise, PromiseInv
<1>4. ASSUME NEW g \in promised'
      PROVE  /\ scrape'.stage = "converged" => rows'[g].full = g
             /\ scrape'.stage \notin {"idle", "converged"} => OnTheWay(g)'
             /\ scrape'.none => DayOf[g] \in room_fetched'
  <2>1. g \in published /\ g \in Games /\ DayOf[g] <= today
    BY <1>1 DEF Promise, PromiseInv
  <2>2. CASE UNCHANGED scrape
    <3>1. g \in promised /\ ~TakenAway(g)
      BY <1>4, <2>2 DEF Promise
    <3>2. scrape'.none => DayOf[g] \in room_fetched'
      BY <2>2, <3>1, DatesKept DEF PromiseInv
    <3>3. scrape'.stage = "converged" => rows'[g].full = g
      BY <2>1, <2>2, <3>1, FullKept, GamesAssumption DEF PromiseInv
    <3>4. scrape'.stage \notin {"idle", "converged"} => OnTheWay(g)'
      <4> SUFFICES ASSUME scrape.stage \notin {"idle", "converged"} PROVE OnTheWay(g)'
        BY <2>2
      <4>1. OnTheWay(g)
        BY <3>1 DEF PromiseInv
      <4>2. CASE Scrape
        BY <2>1, <2>2, <3>1, <4>1, <4>2, ScrapeKeeps DEF Scrape
      <4>3. CASE Others
        BY <2>1, <3>1, <4>1, <4>3, OthersKeep DEF Others, OtherCommand
      <4>4. CASE UNCHANGED <<throne, room_fetched>>
        BY <2>1, <2>2, <4>1, <4>4, RestKeeps
      <4>5. \A p \in Downloaders : Downloads(p) => UNCHANGED <<throne, room_fetched>>
        BY DEF Downloads, DownloadStep, DownloadStart, Connect, ConnectFails, Restart, Arrives,
               Unconvertible, Refused, VersionMismatch, DownloadAbort, DownloadEnd,
               RetryErrors, tables
      <4> QED
        BY <4>2, <4>3, <4>4, <4>5 DEF Next, Publish, NextDay, tables
    <3> QED
      BY <3>2, <3>3, <3>4
  <2>3. CASE scrape' # scrape
    <3>1. ScrapeStep
      BY <2>3 DEF Next, Publish, NextDay, Scrape, Others, OtherCommand, Downloads
    <3>2. CASE scrape.stage \in {"idle", "converged"}
      <4>1. InReach(g) /\ scrape' = NewRound /\ UNCHANGED tables
        BY <1>4, <2>3, <3>1, <3>2, StartStep DEF Promise, ScrapeAll
      <4>2. /\ scrape'.stage \in {"dates", "expand"} /\ ~PassedOver(g)'
            /\ scrape'.none => DayOf[g] \in room_fetched'
        BY <2>1, <4>1, NewRoundKeeps
      <4>3. OnTheWay(g)'
        BY <4>1, <4>2 DEF InReach, OnTheWay, Pending, ToList, tables
      <4> QED
        BY <4>2, <4>3
    <3>3. CASE scrape.stage \notin {"idle", "converged"}
      <4>1. g \in promised /\ ~TakenAway(g)
        BY <1>4, <3>3 DEF Promise
      <4>2. OnTheWay(g) /\ (scrape.none => DayOf[g] \in room_fetched)
        BY <3>3, <4>1 DEF PromiseInv
      <4>3. scrape'.none => DayOf[g] \in room_fetched'
        BY <2>1, <3>1, <4>2, NoneStep, NewRoundKeeps, DatesKept
      <4>4. scrape'.stage \notin {"idle", "converged"} => OnTheWay(g)'
        BY <2>1, <3>1, <4>1, <4>2, ScrapeKeeps
      <4>5. scrape'.stage = "converged" => rows'[g].full = g
        BY <2>1, <3>1, <4>2, ConvergedMeans
      <4> QED
        BY <4>3, <4>4, <4>5
    <3> QED
      BY <3>2, <3>3
  <2> QED
    BY <2>2, <2>3
<1> QED
  BY <1>2, <1>3, <1>4 DEF PromiseInv

\* When scrape-all reports convergence, every game within its reach when the
\* run began has a row with its full uuid, whatever failed in between, unless
\* another command or a cut listing took it away (main.rs:1254-1258, 1358-1372).
THEOREM ConvergedMissesNothing == HistorySpec => []ConvergedExhaustive
<1>1. HistoryInit => Inv /\ PromiseInv
  BY LogsInit DEF HistoryInit, Init, PromiseInv
<1>2. Inv /\ PromiseInv /\ [HistoryNext]_historyVars => Inv' /\ PromiseInv'
  <2> SUFFICES ASSUME Inv, PromiseInv, [HistoryNext]_historyVars
               PROVE  Inv' /\ PromiseInv'
    OBVIOUS
  <2>1. Inv'
    BY LogsStep DEF HistoryNext, historyVars
  <2>2. CASE HistoryNext
    BY <2>1, <2>2, PromiseStep DEF HistoryNext
  <2>3. CASE UNCHANGED historyVars
    BY <2>1, <2>3
       DEF historyVars, vars, service, tables, PromiseInv, OnTheWay, Pending, ToList, PassedOver
  <2> QED
    BY <2>2, <2>3
<1>3. Inv /\ PromiseInv => ConvergedExhaustive
  BY DEF PromiseInv, ConvergedExhaustive
<1> QED
  BY <1>1, <1>2, <1>3, PTL DEF HistorySpec
=============================================================================
