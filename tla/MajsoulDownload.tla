-------------------------- MODULE MajsoulDownload --------------------------
(***************************************************************************)
(* The three commands that download the games of the tables, one game      *)
(* after the other over one connection:                                    *)
(*   download       src/majsoul/download.rs          rows of all uuids     *)
(*   bulk-download  src/majsoul/parallel_download.rs rows with a full uuid *)
(*   download-json  src/majsoul/json_download.rs     rows with a full uuid *)
(* Any number of them may run at the same time, each a process of its own: *)
(* nothing locks the table or a row of it.                                 *)
(*                                                                         *)
(* The queue is read once.  It is a set of rows here: the uuid that is     *)
(* asked for and the key that is marked follow from the row.               *)
(***************************************************************************)
EXTENDS MajsoulTables

CONSTANTS
  Downloaders,      \* the processes that download
  Limits,           \* values of --limit; Cardinality(Uuids) is no limit
  RestartEvery      \* --restart-every of bulk-download, 0 for never

ASSUME RestartAssumption == RestartEvery \in Nat

VARIABLES
  download,         \* the command that each process runs
  succeeded         \* the games that a command counted as a success

DownloadKinds == {"download", "bulk", "json"}

DownloadRuns ==
  [stage : {"idle", "connect", "ask"}, kind : DownloadKinds \cup {"none"},
   todo : SUBSET Uuids, connects : 0..3, mismatches : 0..3,
   since : 0..RestartEvery, retry : BOOLEAN]
NoDownload == [stage |-> "idle", kind |-> "none", todo |-> {}, connects |-> 0,
               mismatches |-> 0, since |-> 0, retry |-> FALSE]

DownloadOK == download \in [Downloaders -> DownloadRuns] /\ succeeded \subseteq Games

Queue(kind) == IF kind = "download" THEN Undownloaded ELSE UndownloadedWithFull

\* The key that is marked.  download has asked for the uuid of the row, the
\* others for its full uuid: bulk-download normalizes that to a key,
\* download-json marks the full uuid itself, which is the key of no row.
Marked(p, u) ==
  CASE download[p].kind = "download" -> u
    [] download[p].kind = "bulk" -> rows[u].full
    [] download[p].kind = "json" -> None

Running(p, u) == download[p].stage = "ask" /\ IsFirst(u, download[p].todo)

Goes(p, r) == download' = [download EXCEPT ![p] = r]

DownloadStart(p, kind, n) ==
  /\ download[p].stage = "idle"
  /\ FirstN(Queue(kind), n) # {}
  /\ Goes(p, [NoDownload EXCEPT !.stage = "connect", !.kind = kind,
                                !.todo = FirstN(Queue(kind), n)])
  /\ UNCHANGED <<tables, succeeded>>

\* discover_and_connect: four attempts, then the run ends.
Connect(p) ==
  /\ download[p].stage = "connect"
  /\ Goes(p, [download[p] EXCEPT !.stage = "ask", !.connects = 0, !.since = 0])
  /\ UNCHANGED <<tables, succeeded>>

\* mutant: one attempt more
ConnectFailsLater(p) ==
  /\ download[p].stage = "connect"
  /\ Goes(p, IF download[p].connects = 4 THEN NoDownload
             ELSE [download[p] EXCEPT !.connects = @ + 1])
  /\ UNCHANGED <<tables, succeeded>>

ConnectFails(p) ==
  /\ download[p].stage = "connect"
  /\ Goes(p, IF download[p].connects = 3 THEN NoDownload
             ELSE [download[p] EXCEPT !.connects = @ + 1])
  /\ UNCHANGED <<tables, succeeded>>

\* bulk-download renews the connection after so many games.
DueForRestart(p) ==
  /\ download[p].kind = "bulk" /\ ~download[p].retry
  /\ RestartEvery > 0 /\ download[p].since = RestartEvery

Restart(p) ==
  /\ download[p].stage = "ask" /\ download[p].todo # {} /\ DueForRestart(p)
  /\ Goes(p, [download[p] EXCEPT !.stage = "connect"])
  /\ UNCHANGED <<tables, succeeded>>

\* A game is done with, however it went.
Following(p, u) ==
  [download[p] EXCEPT !.todo = @ \ {u}, !.retry = FALSE,
                      !.since = IF @ = RestartEvery THEN @ ELSE @ + 1]

\* The record of a game arrived.  Its row is marked, or the mark fails, which
\* is only counted.  download-json converts and writes it first.
Arrives(p, u, saved) ==
  /\ Running(p, u) /\ ~DueForRestart(p)
  /\ rows' = IF saved THEN MarkMajsoulDownloaded(Marked(p, u)) ELSE rows
  /\ succeeded' = IF saved \/ download[p].kind = "json"
                  THEN succeeded \cup {GameOf[u]} ELSE succeeded
  /\ Goes(p, Following(p, u))
  /\ UNCHANGED <<throne, room_fetched, pipeline, day_fetched>>

\* The record cannot be converted or written.  An error that the conversion
\* reports is marked, the others are only counted.
Unconvertible(p, u, reported) ==
  /\ Running(p, u) /\ download[p].kind = "json"
  /\ rows' = IF reported THEN MarkMajsoulDownloadError(Marked(p, u)) ELSE rows
  /\ Goes(p, Following(p, u))
  /\ UNCHANGED <<throne, room_fetched, pipeline, day_fetched, succeeded>>

\* The game is refused: not found, undecodable, timed out.  bulk-download goes
\* on if the mark fails; in the others that ends the run (DownloadAbort).
Refused(p, u, marked) ==
  /\ Running(p, u) /\ ~DueForRestart(p)
  /\ marked \/ download[p].kind = "bulk"
  /\ rows' = IF marked THEN MarkMajsoulDownloadError(Marked(p, u)) ELSE rows
  /\ Goes(p, Following(p, u))
  /\ UNCHANGED <<throne, room_fetched, pipeline, day_fetched, succeeded>>

\* The client's version is refused.  After three times the run ends.
\* bulk-download discovers the version anew and asks for the same game once
\* more; there any failure counts as a refusal.  The others give the game up.
VersionMismatch(p, u, marked) ==
  /\ Running(p, u) /\ ~DueForRestart(p) /\ ~download[p].retry
  /\ IF download[p].mismatches = 3
     THEN Goes(p, NoDownload) /\ UNCHANGED rows
     ELSE IF download[p].kind = "bulk"
     THEN /\ Goes(p, [download[p] EXCEPT !.mismatches = @ + 1, !.stage = "connect",
                                         !.retry = TRUE])
          /\ UNCHANGED rows
     ELSE /\ Goes(p, [Following(p, u) EXCEPT !.mismatches = @ + 1])
          /\ rows' = IF marked THEN MarkMajsoulDownloadError(Marked(p, u)) ELSE rows
  /\ UNCHANGED <<throne, room_fetched, pipeline, day_fetched, succeeded>>

\* The server limits the rate (no retry), the database fails, or the run is
\* killed.
DownloadAbort(p) ==
  /\ download[p].stage # "idle"
  /\ Goes(p, NoDownload)
  /\ UNCHANGED <<tables, succeeded>>

DownloadEnd(p) ==
  /\ download[p].stage = "ask" /\ download[p].todo = {}
  /\ Goes(p, NoDownload)
  /\ UNCHANGED <<tables, succeeded>>

\* download --retry-errors, before it reads its queue
RetryErrors(p) ==
  /\ download[p].stage = "idle"
  /\ rows' = ResetMajsoulDownloadErrors
  /\ UNCHANGED <<throne, room_fetched, pipeline, day_fetched, download, succeeded>>

\* A scenario says which commands are used, in how many processes.
DownloadStep(p) ==
  /\ p \in scenario.downloaders
  /\ \/ \E kind \in scenario.kinds, n \in Limits : DownloadStart(p, kind, n)
     \/ Connect(p)
     \/ ConnectFails(p)
     \/ Restart(p)
     \/ \E u \in Uuids, saved \in BOOLEAN : Arrives(p, u, saved)
     \/ \E u \in Uuids, reported \in BOOLEAN : Unconvertible(p, u, reported)
     \/ \E u \in Uuids, marked \in BOOLEAN : Refused(p, u, marked)
     \/ \E u \in Uuids, marked \in BOOLEAN : VersionMismatch(p, u, marked)
     \/ DownloadAbort(p)
     \/ DownloadEnd(p)
     \/ RetryErrors(p)
=============================================================================
