--------------------------- MODULE MajsoulTables ---------------------------
(***************************************************************************)
(* The Majsoul tables of src/db.rs and the statements that write them, and *)
(* the listings of Amae-Koromo from which they are filled.                 *)
(*                                                                         *)
(* A game is named by its uuid.  Its full uuid is the same uuid after a    *)
(* date, so the game stands for its full uuid too and normalize_uuid maps  *)
(* the one to the other.  The room listing may know a game by another      *)
(* short uuid, which no normalization leads to: such a masked uuid gets a  *)
(* row of its own.  Uuids are numbered in the order of start_time.         *)
(***************************************************************************)
EXTENDS OrderedSets, Sequences

CONSTANTS
  Games,                \* games of the throne room, each its own full uuid
  Uuids,                \* keys of majsoul_logs: games and masked uuids
  GameOf,               \* the game a uuid belongs to
  RoomUuid,             \* the uuid a room listing gives for a game
  Days, Chunks,         \* the days, and the parts of a day that are asked for
  DayOf, ChunkOf,       \* when a game was played
  StartTime,            \* its start, to the second
  Players,              \* account ids
  PlayersOf,            \* the accounts of a game, in the order of its record
  None,                 \* NULL; as an account, the id 0
  ChunkLimit,           \* games a room listing returns at most (500)
  PageLimit             \* AMAE_KOROMO_PAGE_LIMIT

ASSUME GamesAssumption ==
  /\ Uuids \subseteq Nat /\ Games \subseteq Uuids
  /\ GameOf \in [Uuids -> Games] /\ \A g \in Games : GameOf[g] = g
  /\ RoomUuid \in [Games -> Uuids] /\ \A g \in Games : GameOf[RoomUuid[g]] = g
  /\ DayOf \in [Games -> Days] /\ ChunkOf \in [Games -> Chunks]
  /\ Days \subseteq Nat /\ Chunks \subseteq Nat /\ Chunks # {}
  /\ PlayersOf \in [Games -> Seq(Players \cup {None})]
  /\ None \notin Uuids \cup Players
  /\ ChunkLimit \in Nat

\* An account plays one game at a time: on this the cross match relies, whose
\* key is an account and a start.
ASSUME OneGameAtATime ==
  \A g, h \in Games :
    /\ StartTime[g] = StartTime[h]
    /\ \E i \in 1..Len(PlayersOf[g]), j \in 1..Len(PlayersOf[h]) :
         PlayersOf[g][i] = PlayersOf[h][j] /\ PlayersOf[g][i] # None
    => g = h

MaxDownloadAttempts == 3
\* the count is not followed further: no query tells higher ones apart
AttemptBound == MaxDownloadAttempts + 1

VARIABLES
  scenario,       \* the games there are, and the commands that are used
  rows,           \* majsoul_logs
  throne,         \* throne_players: absent, new (fetched_at NULL) or fetched
  room_fetched,   \* majsoul_room_fetch_state of the throne room
  pipeline,       \* majsoul_pipeline_players: absent, new or fetched (scraped_at)
  day_fetched,    \* majsoul_day_fetch_state
  today,          \* the current day
  published       \* the games the listings know

service == <<today, published>>
tables == <<rows, throne, room_fetched, pipeline, day_fetched>>

Absent == [owner |-> None, full |-> None, is_downloaded |-> 0, attempts |-> 0]
Row == [owner : Players \cup {None}, full : Games \cup {None},
        is_downloaded : {-1, 0, 1}, attempts : 0..AttemptBound]

Present == {u \in Uuids : rows[u].owner # None}
Orphans == {u \in Present : rows[u].full = None}
Unfetched(table) == {p \in Players : table[p] = "new"}

InitTables ==
  /\ rows = [u \in Uuids |-> Absent]
  /\ throne = [p \in Players |-> "absent"]
  /\ room_fetched = {}
  /\ pipeline = [p \in Players |-> "absent"]
  /\ day_fetched = {}

TablesOK ==
  /\ rows \in [Uuids -> Row]
  /\ \A u \in Uuids : rows[u].owner = None => rows[u] = Absent
  /\ throne \in [Players -> {"absent", "new", "fetched"}]
  /\ room_fetched \subseteq Days
  /\ pipeline \in [Players -> {"absent", "new", "fetched"}]
  /\ day_fetched \subseteq Days
  /\ today \in Days /\ published \subseteq Games

-----------------------------------------------------------------------------
\* What is listed.
RoomListing(d, c) == {g \in published : DayOf[g] = d /\ ChunkOf[g] = c}
DayListing(d) == {g \in published : DayOf[g] = d}
Accounts(g) == {PlayersOf[g][i] : i \in 1..Len(PlayersOf[g])} \ {None}
PlayerListing(p) == {g \in published : p \in Accounts(g)}

\* a listing is cut at its limit
RoomAnswers(d, c) ==
  LET all == RoomListing(d, c)
  IN {got \in SUBSET all : got = all \/ Cardinality(got) = ChunkLimit}

-----------------------------------------------------------------------------
\* insert_majsoul_log: room listings name the first player as the owner and
\* have no full uuid; a game without players or with account 0 is skipped
FirstAccount(g) == IF PlayersOf[g] = << >> THEN None ELSE PlayersOf[g][1]
Skipped(g) == FirstAccount(g) = None
InsertRoomGames(games) ==
  [u \in Uuids |->
     IF rows[u] = Absent /\ \E g \in games : RoomUuid[g] = u /\ ~Skipped(g)
     THEN [Absent EXCEPT !.owner = FirstAccount(GameOf[u])]
     ELSE rows[u]]

\* insert_majsoul_log_with_full_uuid: a row that exists only gets its full
\* uuid if it has none
InsertFullGames(games, p) ==
  [u \in Uuids |->
     IF u \notin games THEN rows[u]
     ELSE IF rows[u] = Absent THEN [Absent EXCEPT !.owner = p, !.full = u]
     ELSE [rows[u] EXCEPT !.full = IF @ = None THEN u ELSE @]]

\* whether the statements inserted a row
Inserted(rs) == \E u \in Uuids : rows[u] = Absent /\ rs[u] # Absent

\* set_orphan_full_uuid
SetOrphanFull(u, g) == [rows EXCEPT ![u].full = IF @ = None THEN g ELSE @]

\* INSERT OR IGNORE of players
Upsert(table, ps) ==
  [p \in Players |-> IF p \in ps /\ table[p] = "absent" THEN "new" ELSE table[p]]
AccountsOf(games) == UNION {Accounts(g) : g \in games}

\* UPDATE ... SET fetched_at, scraped_at WHERE the id
MarkFetched(table, p) ==
  [table EXCEPT ![p] = IF @ = "absent" THEN "absent" ELSE "fetched"]

-----------------------------------------------------------------------------
\* cross_match_orphan_uuids: an orphan takes the full uuid of the one row that
\* has its owner and its start, if no other orphan has them
\* mutant: two games of a player are taken for one
MatchKeyOwner(u) == <<rows[u].owner>>
MatchKey(u) == <<rows[u].owner, StartTime[GameOf[u]]>>
Candidates(u) == {f \in Present \ Orphans : MatchKey(f) = MatchKey(u)}
Rivals(u) == {o \in Orphans \ {u} : MatchKey(o) = MatchKey(u)}
CrossMatched ==
  [u \in Uuids |->
     IF u \in Orphans /\ Rivals(u) = {} /\ Cardinality(Candidates(u)) = 1
     THEN [rows[u] EXCEPT !.full = rows[CHOOSE f \in Candidates(u) : TRUE].full]
     ELSE rows[u]]

\* reset_capped_throne_players
Capped == {p \in Players : Cardinality({u \in Present : rows[u].owner = p}) = PageLimit}
ResetCapped ==
  [p \in Players |->
     IF p \in Capped /\ throne[p] = "fetched" THEN "new" ELSE throne[p]]

-----------------------------------------------------------------------------
\* The queues of the downloads, and their marks; a mark for a uuid that is the
\* key of no row changes nothing.
\* mutant: the flag is left out of the query
QueuedByAttempts(u) == rows[u].attempts < MaxDownloadAttempts
Queued(u) ==
  \/ rows[u].is_downloaded = 0
  \/ rows[u].is_downloaded = -1 /\ rows[u].attempts < MaxDownloadAttempts
Undownloaded == {u \in Present : Queued(u)}
UndownloadedWithFull == {u \in Undownloaded : rows[u].full # None}

MarkMajsoulDownloaded(u) ==
  IF u \in Present THEN [rows EXCEPT ![u].is_downloaded = 1] ELSE rows
\* mutant: the attempt is not counted
MarkErrorUncounted(u) ==
  IF u \in Present THEN [rows EXCEPT ![u].is_downloaded = -1] ELSE rows
MarkMajsoulDownloadError(u) ==
  IF u \in Present
  THEN [rows EXCEPT ![u].is_downloaded = -1,
                    ![u].attempts = IF @ = AttemptBound THEN @ ELSE @ + 1]
  ELSE rows
ResetMajsoulDownloadErrors ==
  [u \in Uuids |->
     IF rows[u].is_downloaded = -1
     THEN [rows[u] EXCEPT !.is_downloaded = 0, !.attempts = 0]
     ELSE rows[u]]
=============================================================================
