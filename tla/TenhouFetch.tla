---------------------------- MODULE TenhouFetch ----------------------------
(***************************************************************************)
(* `tenhou-scraper fetch` (src/fetch.rs): listing the log ids of the day   *)
(* files that Tenhou publishes, and the two tables that decide whether a   *)
(* day is asked for again: fetch_state (days that are done) and            *)
(* fetch_attempts (when a day was last asked for).                         *)
(*                                                                         *)
(* A run selects its days, downloads all their files, and only then writes *)
(* the results of one day after the other, each statement a transaction.   *)
(* `fetch --import-dir` writes the content of local files the same way.    *)
(*                                                                         *)
(* Abstractions: days are 1, 2, ...; an age counts ticks of the clock and  *)
(* stops at Window, which stands for 20 minutes or more; ids of three      *)
(* player games, which are dropped when a file is parsed, are left out.    *)
(***************************************************************************)
EXTENDS OrderedSets, Sequences

CONSTANTS
  Days,        \* an interval 1..n, the last one being still open at the end
  Types,       \* --log-types, scc by default
  Ids,         \* the logs published in these days
  DayOf,       \* the day of each id
  TypeOf,      \* the type of each id, hence the file it is listed in
  Runs,        \* processes that run `tenhou-scraper fetch`
  Concurrent,  \* fetch --concurrent
  Window,      \* ticks in 20 minutes
  Ends,        \* days before today that --end names: 0 is the default, today
  Skips,       \* values of --skip-fetched, TRUE by default
  Imports,     \* contents of the files of an import directory
  Disturbances

ASSUME FetchAssumption ==
  /\ Days \subseteq Nat \ {0} /\ 1 \in Days
  /\ DayOf \in [Ids -> Days]
  /\ TypeOf \in [Ids -> Types]
  /\ Concurrent \in Nat \ {0}
  /\ Window \in Nat \ {0}
  /\ Ends \subseteq Nat
  /\ Skips \subseteq BOOLEAN
  /\ Disturbances \subseteq {"crash", "db_error"}

VARIABLES
  \* Tenhou: the current day, and the ids listed so far
  today, published,
  \* the database: ids with a row, fetch_state, age of the entry in fetch_attempts
  known, marked, checkedAge,
  \* a run: its stage, days to download, files asked for, entries, days with a
  \* success, results to write, whether the attempt for the first of them
  \* is recorded
  stage, todo, asked, got, any_ok, results, recorded,
  \* history: age of the last request for each file
  askedAge

server  == <<today, published>>
db      == <<known, marked, checkedAge>>
runVars == <<stage, todo, asked, got, any_ok, results, recorded>>
vars    == <<server, db, runVars, askedAge>>

Files == Days \X Types

\* what becomes of a request
Answers == {"ok", "error"}

FileOf(d, t) == {id \in Ids : DayOf[id] = d /\ TypeOf[id] = t}

-----------------------------------------------------------------------------
(***************************************************************************)
(* Tenhou and the clock.                                                   *)
(***************************************************************************)

\* a game of the current day ends and is listed
Publish(id) ==
  /\ DayOf[id] = today
  /\ id \notin published
  /\ published' = published \cup {id}
  /\ UNCHANGED <<today, db, runVars, askedAge>>

NextDay ==
  /\ today + 1 \in Days
  /\ \A id \in Ids : DayOf[id] = today => id \in published
  /\ today' = today + 1
  /\ UNCHANGED <<published, db, runVars, askedAge>>

Older(n) == IF n < Window THEN n + 1 ELSE n

Tick ==
  /\ checkedAge' = [d \in Days |-> Older(checkedAge[d])]
  /\ askedAge' = [f \in Files |-> Older(askedAge[f])]
  /\ <<checkedAge, askedAge>>' # <<checkedAge, askedAge>>
  /\ UNCHANGED <<server, known, marked, runVars>>

-----------------------------------------------------------------------------
(***************************************************************************)
(* fetch_date_range.                                                       *)
(***************************************************************************)

\* was_fetch_checked_within(20)
Checked(d) == checkedAge[d] < Window

\* the days a run asks for
Selected(end, skip) ==
  {d \in Days : d <= end /\ ~Checked(d) /\ ~(skip /\ d \in marked)}

\* mutant: a run without days goes on
WorthAsking(ds) == TRUE

\* "No dates to fetch"
AnyDays(ds) == ds # {}

Start(p, before, skip) ==
  LET ds == Selected(today - before, skip) IN
  /\ stage[p] = "idle"
  /\ AnyDays(ds)
  /\ stage' = [stage EXCEPT ![p] = "network"]
  /\ todo' = [todo EXCEPT ![p] = ds]
  /\ asked' = [asked EXCEPT ![p] = {}]
  /\ got' = [got EXCEPT ![p] = {}]
  /\ any_ok' = [any_ok EXCEPT ![p] = {}]
  /\ UNCHANGED <<server, db, results, recorded, askedAge>>

\* One file is requested, and its ids are extracted or the failure is logged;
\* after its last file a day is complete.  Concurrent days are in progress.
Request(p, d, t, answer) ==
  /\ stage[p] = "network"
  /\ d \in FirstN(todo[p], Concurrent)
  /\ <<d, t>> \notin asked[p]
  /\ asked' = [asked EXCEPT ![p] = @ \cup {<<d, t>>}]
  /\ askedAge' = [askedAge EXCEPT ![<<d, t>>] = 0]
  /\ IF answer = "ok"
       THEN /\ got' = [got EXCEPT ![p] = @ \cup (FileOf(d, t) \cap published)]
            /\ any_ok' = [any_ok EXCEPT ![p] = @ \cup {d}]
       ELSE UNCHANGED <<got, any_ok>>
  /\ IF \A u \in Types : <<d, u>> \in asked'[p]
       THEN /\ todo' = [todo EXCEPT ![p] = @ \ {d}]
            /\ results' = [results EXCEPT ![p] = Append(@, d)]
            /\ stage' = [stage EXCEPT ![p] = IF todo[p] = {d} THEN "store" ELSE @]
       ELSE UNCHANGED <<todo, results, stage>>
  /\ UNCHANGED <<server, db, recorded>>

\* mutant: only a successful attempt is recorded
RecordSuccess(p) ==
  /\ stage[p] = "store"
  /\ ~recorded[p]
  /\ recorded' = [recorded EXCEPT ![p] = TRUE]
  /\ checkedAge' = [checkedAge EXCEPT ![Head(results[p])] =
                      IF Head(results[p]) \in any_ok[p] THEN 0 ELSE @]
  /\ UNCHANGED <<server, known, marked, stage, todo, asked, got, any_ok, results, askedAge>>

\* record_fetch_attempt, success or not
RecordAttempt(p) ==
  /\ stage[p] = "store"
  /\ ~recorded[p]
  /\ recorded' = [recorded EXCEPT ![p] = TRUE]
  /\ checkedAge' = [checkedAge EXCEPT ![Head(results[p])] = 0]
  /\ UNCHANGED <<server, known, marked, stage, todo, asked, got, any_ok, results, askedAge>>

\* the entries of a day
Entries(p, d) == {id \in got[p] : DayOf[id] = d}

\* insert_log_id of one entry
Insert(p, id) ==
  /\ stage[p] = "store"
  /\ recorded[p]
  /\ id \in Entries(p, Head(results[p])) \ known
  /\ known' = known \cup {id}
  /\ UNCHANGED <<server, marked, checkedAge, runVars, askedAge>>

\* mutant: any answer is good enough
FetchedAnyway(p, d) == TRUE

\* a day is done when a request succeeded and listed something
Fetched(p, d) == d \in any_ok[p] /\ Entries(p, d) # {}

\* all entries of the day are inserted: mark it, and go on with the next one
FinishDay(p) ==
  LET d == Head(results[p]) IN
  /\ stage[p] = "store"
  /\ recorded[p]
  /\ Entries(p, d) \subseteq known
  /\ marked' = IF Fetched(p, d) THEN marked \cup {d} ELSE marked
  /\ results' = [results EXCEPT ![p] = Tail(@)]
  /\ recorded' = [recorded EXCEPT ![p] = FALSE]
  /\ stage' = [stage EXCEPT ![p] = IF Len(results[p]) = 1 THEN "idle" ELSE @]
  /\ UNCHANGED <<server, known, checkedAge, todo, asked, got, any_ok, askedAge>>

\* import_html_gz_dir reads a file: its ids are written like the results of a
\* request, without an attempt
ImportFile(p, ids) ==
  /\ stage[p] = "idle"
  /\ ids # {} /\ ids \subseteq published
  /\ \E d \in Days :
       /\ \A id \in ids : DayOf[id] = d
       /\ stage' = [stage EXCEPT ![p] = "store"]
       /\ got' = [got EXCEPT ![p] = ids]
       /\ any_ok' = [any_ok EXCEPT ![p] = {d}]
       /\ results' = [results EXCEPT ![p] = <<d>>]
       /\ recorded' = [recorded EXCEPT ![p] = TRUE]
  /\ UNCHANGED <<server, db, todo, asked, askedAge>>

\* the process is killed, or a statement fails and `?` ends the run
Abort(p) ==
  /\ \/ "crash" \in Disturbances /\ stage[p] # "idle"
     \/ "db_error" \in Disturbances /\ stage[p] = "store"
  /\ stage' = [stage EXCEPT ![p] = "idle"]
  /\ todo' = [todo EXCEPT ![p] = {}]
  /\ results' = [results EXCEPT ![p] = <<>>]
  /\ recorded' = [recorded EXCEPT ![p] = FALSE]
  /\ UNCHANGED <<server, db, asked, got, any_ok, askedAge>>

-----------------------------------------------------------------------------
Init ==
  /\ today = 1
  /\ published = {}
  /\ known = {}
  /\ marked = {}
  /\ checkedAge = [d \in Days |-> Window]
  /\ stage = [p \in Runs |-> "idle"]
  /\ todo = [p \in Runs |-> {}]
  /\ asked = [p \in Runs |-> {}]
  /\ got = [p \in Runs |-> {}]
  /\ any_ok = [p \in Runs |-> {}]
  /\ results = [p \in Runs |-> <<>>]
  /\ recorded = [p \in Runs |-> FALSE]
  /\ askedAge = [f \in Files |-> Window]

World == NextDay \/ Tick \/ \E id \in Ids : Publish(id)

StartSome(p) == \E before \in Ends, skip \in Skips : Start(p, before, skip)

Store(p) == RecordAttempt(p) \/ FinishDay(p) \/ \E id \in Ids : Insert(p, id)

Step(p) == Store(p) \/ \E f \in Files, answer \in Answers : Request(p, f[1], f[2], answer)

Next ==
  \/ World
  \/ \E p \in Runs :
       StartSome(p) \/ Step(p) \/ Abort(p) \/ \E ids \in Imports : ImportFile(p, ids)

Spec == Init /\ [][Next]_vars

\* The days go on, the operator starts a run whenever there is something to
\* ask for, a run goes on, and Tenhou answers each file again and again.
Fairness ==
  /\ WF_vars(NextDay)
  /\ WF_vars(Tick)
  /\ \A id \in Ids : WF_vars(Publish(id))
  /\ \A p \in Runs : WF_vars(StartSome(p)) /\ WF_vars(Step(p))
  /\ \A p \in Runs, f \in Files : SF_vars(Request(p, f[1], f[2], "ok"))

FairSpec == Spec /\ Fairness

-----------------------------------------------------------------------------
TypeOK ==
  /\ today \in Days
  /\ published \subseteq Ids
  /\ known \subseteq published
  /\ marked \subseteq Days
  /\ checkedAge \in [Days -> 0..Window]
  /\ stage \in [Runs -> {"idle", "network", "store"}]
  /\ todo \in [Runs -> SUBSET Days]
  /\ \A p \in Runs : stage[p] = "network" <=> todo[p] # {}
  /\ asked \in [Runs -> SUBSET Files]
  /\ got \in [Runs -> SUBSET published]
  /\ any_ok \in [Runs -> SUBSET Days]
  /\ results \in [Runs -> Seq(Days)]
  /\ \A p \in Runs : stage[p] = "store" => results[p] # <<>>
  /\ recorded \in [Runs -> BOOLEAN]
  /\ askedAge \in [Files -> 0..Window]

\* What --skip-fetched relies on: a day in fetch_state has ids, and every id of
\* one of its files is listed (fetch.rs:144-145).  Runs overlap, requests fail,
\* and processes are killed between any two statements.  Needs an --end before
\* today and imported files that cover their day.
MarkedDayListed ==
  \A d \in marked : \E t \in Types : FileOf(d, t) # {} /\ FileOf(d, t) \subseteq known

\* Every id of a finished day is listed in the end, although any request may
\* fail and a day is asked for again only after 20 minutes.
EveryLogListed ==
  \A id \in Ids :
    (\E d \in Days : d > DayOf[id]) => (id \in published ~> id \in known)

-----------------------------------------------------------------------------
\* History: whether a run was ever ended between two statements.
VARIABLE interrupted

Interrupt == \E p \in Runs : Abort(p)
HistoryInit == Init /\ interrupted = FALSE
HistoryNext == Next /\ interrupted' = (interrupted \/ Interrupt)
historyVars == <<vars, interrupted>>
HistorySpec == HistoryInit /\ [][HistoryNext]_historyVars /\ Fairness

\* Up to the first run that is killed or fails on the database, no file is
\* asked for twice within 20 minutes, whatever the answers (fetch.rs:54-55).
\* For one run at a time: two that overlap may select the same day.
PoliteUninterrupted ==
  [][interrupted
       \/ \A f \in Files :
            (\E p \in Runs : f \in asked'[p] \ asked[p]) => askedAge[f] >= Window]_vars

\* Every id of a finished day is listed in the end, if the runs are some time
\* no longer killed: what a killed run has done or left undone costs nothing.
ListedAfterInterrupts == <>[][~Interrupt]_vars => EveryLogListed
=============================================================================
