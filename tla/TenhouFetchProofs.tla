------------------------- MODULE TenhouFetchProofs -------------------------
(***************************************************************************)
(* Proofs about TenhouFetch: type correctness, and that a day is marked    *)
(* fetched only with all the ids of one of its files, for any number of    *)
(* days, types and overlapping runs.                                       *)
(***************************************************************************)
EXTENDS TenhouFetch, SequenceTheorems, TLAPS

\* The queue of results: appending a day, and taking the first one off.
LEMMA AppendDay ==
  ASSUME NEW S, NEW s \in Seq(S), NEW x \in S
  PROVE  Append(s, x) \in Seq(S) /\ Append(s, x) # <<>>
  BY AppendProperties

LEMMA FirstDay ==
  ASSUME NEW S, NEW s \in Seq(S), s # <<>>
  PROVE  /\ Head(s) \in S /\ Tail(s) \in Seq(S)
         /\ Len(s) # 1 => Tail(s) # <<>>
<1>1. Head(s) \in S /\ Tail(s) \in Seq(S) /\ Len(Tail(s)) = Len(s) - 1
  BY HeadTailProperties
<1>2. Len(s) \in Nat \ {0} /\ Len(<<>>) = 0
  BY EmptySeq
<1>3. ASSUME Len(s) # 1, Tail(s) = <<>> PROVE FALSE
  <2>1. Len(Tail(s)) = 0
    BY <1>2, <1>3, Zenon
  <2>2. Len(s) - 1 = 0
    BY <2>1, <1>1, Zenon
  <2> QED
    BY <2>2, <1>2, <1>3
<1> QED
  BY <1>1, <1>3

\* What a request does, its two conditions spelt out.
LEMMA RequestEffect ==
  ASSUME NEW p, NEW d, NEW t, NEW answer, Request(p, d, t, answer)
  PROVE  /\ stage[p] = "network" /\ d \in todo[p]
         /\ UNCHANGED <<today, published, known, marked, checkedAge, recorded>>
         /\ asked' = [asked EXCEPT ![p] = @ \cup {<<d, t>>}]
         /\ askedAge' = [askedAge EXCEPT ![<<d, t>>] = 0]
         /\ \/ /\ got' = [got EXCEPT ![p] = @ \cup (FileOf(d, t) \cap published)]
               /\ any_ok' = [any_ok EXCEPT ![p] = @ \cup {d}]
            \/ UNCHANGED <<got, any_ok>>
         /\ \/ UNCHANGED <<todo, results, stage>>
            \/ /\ todo' = [todo EXCEPT ![p] = @ \ {d}]
               /\ results' = [results EXCEPT ![p] = Append(@, d)]
               /\ stage' = [stage EXCEPT ![p] = IF todo[p] = {d} THEN "store" ELSE @]
<1>1. d \in todo[p]
  BY DEF Request, FirstN
<1>2. \/ /\ got' = [got EXCEPT ![p] = @ \cup (FileOf(d, t) \cap published)]
         /\ any_ok' = [any_ok EXCEPT ![p] = @ \cup {d}]
      \/ UNCHANGED <<got, any_ok>>
  BY Zenon DEF Request
<1>3. \/ UNCHANGED <<todo, results, stage>>
      \/ /\ todo' = [todo EXCEPT ![p] = @ \ {d}]
         /\ results' = [results EXCEPT ![p] = Append(@, d)]
         /\ stage' = [stage EXCEPT ![p] = IF todo[p] = {d} THEN "store" ELSE @]
  BY Zenon DEF Request
<1>4. /\ stage[p] = "network"
      /\ asked' = [asked EXCEPT ![p] = @ \cup {<<d, t>>}]
      /\ askedAge' = [askedAge EXCEPT ![<<d, t>>] = 0]
      /\ UNCHANGED <<server, db, recorded>>
  BY Zenon DEF Request
<1> QED
  BY <1>1, <1>2, <1>3, <1>4 DEF server, db

-----------------------------------------------------------------------------
(***************************************************************************)
(* Type correctness.                                                       *)
(***************************************************************************)

\* The empty database is well typed.
LEMMA TypeInit == Init => TypeOK
  BY FetchAssumption DEF Init, TypeOK, Files

\* Ages stay in their range.
LEMMA AgesInRange ==
  \A n \in 0..Window : Older(n) \in 0..Window
  BY FetchAssumption DEF Older

\* Every step keeps the state well typed; in particular a run that writes
\* results has some, and no row exists for an id Tenhou has not listed.
LEMMA TypeStep == TypeOK /\ [Next]_vars => TypeOK'
<1> SUFFICES ASSUME TypeOK, [Next]_vars PROVE TypeOK'
  OBVIOUS
<1> USE FetchAssumption DEF TypeOK
<1>1. CASE World
  <2>1. CASE NextDay
    BY <2>1 DEF NextDay, db, runVars
  <2>2. CASE Tick
    BY <2>2, AgesInRange DEF Tick, server, runVars
  <2>3. ASSUME NEW id \in Ids, Publish(id) PROVE TypeOK'
    BY <2>3 DEF Publish, db, runVars
  <2> QED
    BY <1>1, <2>1, <2>2, <2>3 DEF World
<1>2. ASSUME NEW p \in Runs, NEW before \in Ends, NEW skip \in Skips, Start(p, before, skip)
      PROVE  TypeOK'
  BY <1>2 DEF Start, AnyDays, Selected, server, db
<1>3. ASSUME NEW p \in Runs, NEW d \in Days, NEW t \in Types, NEW answer \in Answers,
             Request(p, d, t, answer)
      PROVE  TypeOK'
  <2>1. /\ stage[p] = "network" /\ d \in todo[p]
        /\ UNCHANGED <<today, published, known, marked, checkedAge, recorded>>
    BY <1>3, RequestEffect
  <2>2. asked' \in [Runs -> SUBSET Files] /\ askedAge' \in [Files -> 0..Window]
    <3>1. /\ asked' = [asked EXCEPT ![p] = @ \cup {<<d, t>>}]
          /\ askedAge' = [askedAge EXCEPT ![<<d, t>>] = 0]
      BY <1>3, RequestEffect
    <3> QED
      BY <3>1 DEF Files
  <2>3. got' \in [Runs -> SUBSET published] /\ any_ok' \in [Runs -> SUBSET Days]
    <3>1. \/ /\ got' = [got EXCEPT ![p] = @ \cup (FileOf(d, t) \cap published)]
             /\ any_ok' = [any_ok EXCEPT ![p] = @ \cup {d}]
          \/ UNCHANGED <<got, any_ok>>
      BY <1>3, RequestEffect, ZenonT(60)
    <3>2. CASE UNCHANGED <<got, any_ok>>
      BY <3>2
    <3>3. CASE /\ got' = [got EXCEPT ![p] = @ \cup (FileOf(d, t) \cap published)]
               /\ any_ok' = [any_ok EXCEPT ![p] = @ \cup {d}]
      <4>1. got' \in [Runs -> SUBSET published]
        BY <3>3
      <4>2. any_ok' \in [Runs -> SUBSET Days]
        BY <3>3
      <4> QED
        BY <4>1, <4>2
    <3> QED
      BY <3>1, <3>2, <3>3
  <2>4. CASE UNCHANGED <<todo, results, stage>>
    BY <2>1, <2>2, <2>3, <2>4
  <2>5. CASE /\ todo' = [todo EXCEPT ![p] = @ \ {d}]
             /\ results' = [results EXCEPT ![p] = Append(@, d)]
             /\ stage' = [stage EXCEPT ![p] = IF todo[p] = {d} THEN "store" ELSE @]
    <3>1. Append(results[p], d) \in Seq(Days) /\ Append(results[p], d) # <<>>
      BY AppendDay
    <3>2. results' \in [Runs -> Seq(Days)]
      BY <2>5, <3>1
    <3>3. \A q \in Runs : stage'[q] = "store" => results'[q] # <<>>
      BY <2>1, <2>5, <3>1
    <3>4. todo' \in [Runs -> SUBSET Days] /\ stage' \in [Runs -> {"idle", "network", "store"}]
      BY <2>5
    <3>5. \A q \in Runs : stage'[q] = "network" <=> todo'[q] # {}
      BY <2>1, <2>5
    <3> QED
      BY <2>1, <2>2, <2>3, <3>2, <3>3, <3>4, <3>5
  <2> QED
    BY <1>3, <2>4, <2>5, RequestEffect
<1>4. ASSUME NEW p \in Runs, RecordAttempt(p) PROVE TypeOK'
  BY <1>4 DEF RecordAttempt, server
<1>5. ASSUME NEW p \in Runs, NEW id \in Ids, Insert(p, id) PROVE TypeOK'
  <2>2. /\ id \in got[p]
        /\ known' = known \cup {id}
        /\ UNCHANGED <<today, published, marked, checkedAge, stage, todo, asked, got, any_ok,
                        results, recorded, askedAge>>
    BY <1>5 DEF Insert, Entries, server, runVars
  <2>3. known' \subseteq published
    BY <2>2
  <2> QED
    BY <2>2, <2>3
<1>6. ASSUME NEW p \in Runs, FinishDay(p) PROVE TypeOK'
  <2>1. Head(results[p]) \in Days /\ Tail(results[p]) \in Seq(Days)
    BY <1>6, FirstDay DEF FinishDay
  <2>2. Len(results[p]) # 1 => Tail(results[p]) # <<>>
    BY <1>6, FirstDay DEF FinishDay
  <2>3. /\ results' \in [Runs -> Seq(Days)]
        /\ \A q \in Runs : stage'[q] = "store" => results'[q] # <<>>
    BY <1>6, <2>1, <2>2 DEF FinishDay
  <2>4. /\ stage' \in [Runs -> {"idle", "network", "store"}]
        /\ \A q \in Runs : stage'[q] = "network" <=> todo'[q] # {}
        /\ recorded' \in [Runs -> BOOLEAN]
    BY <1>6 DEF FinishDay
  <2>5. marked' \subseteq Days
    BY <1>6, <2>1 DEF FinishDay
  <2>6. UNCHANGED <<today, published, known, checkedAge, todo, asked, got, any_ok, askedAge>>
    BY <1>6 DEF FinishDay, server
  <2> QED
    BY <2>3, <2>4, <2>5, <2>6
<1>7. ASSUME NEW p \in Runs, NEW ids \in Imports, ImportFile(p, ids) PROVE TypeOK'
  BY <1>7 DEF ImportFile, server, db
<1>8. ASSUME NEW p \in Runs, Abort(p) PROVE TypeOK'
  BY <1>8 DEF Abort, server, db
<1>9. CASE UNCHANGED vars
  BY <1>9 DEF vars, server, db, runVars
<1> QED
  BY <1>1, <1>2, <1>3, <1>4, <1>5, <1>6, <1>7, <1>8, <1>9
     DEF Next, StartSome, Step, Store, Files

\* For any days, types and overlapping runs the state stays well typed.
THEOREM FetchTypeCorrect == Spec => []TypeOK
  BY TypeInit, TypeStep, PTL DEF Spec

-----------------------------------------------------------------------------
(***************************************************************************)
(* A day is marked with the ids of one of its files.                       *)
(***************************************************************************)

\* Runs end before today, and the files of an import directory are whole.
ClosedDays ==
  /\ 0 \notin Ends
  /\ \A ids \in Imports : \E d \in Days, t \in Types : ids = FileOf(d, t)

\* Tenhou lists every game of a day before the day ends.
DayClosed == \A id \in Ids : DayOf[id] < today => id \in published

\* A run asks only for days that are over.
AsksClosed == \A p \in Runs : \A d \in todo[p] : d < today

WholeFile(d, S) == \E t \in Types : FileOf(d, t) # {} /\ FileOf(d, t) \subseteq S

\* What a run holds of a day contains a whole file.
GotWhole == \A p \in Runs : \A id \in got[p] : WholeFile(DayOf[id], got[p])

MarkedWhole == \A d \in marked : WholeFile(d, known)

FetchInv == DayClosed /\ AsksClosed /\ GotWhole /\ MarkedWhole

\* A larger set of ids still contains the file.
LEMMA WholeMonotone ==
  \A d, S, T : S \subseteq T /\ WholeFile(d, S) => WholeFile(d, T)
  BY DEF WholeFile

\* Nothing is marked at first.
LEMMA FetchInvInit == Init => FetchInv
<1> SUFFICES ASSUME Init PROVE FetchInv
  OBVIOUS
<1>1. DayClosed
  <2>1. \A id \in Ids : DayOf[id] \in Nat \ {0}
    BY FetchAssumption
  <2> QED
    BY <2>1 DEF Init, DayClosed
<1>2. \A p \in Runs : got[p] = {}
  BY DEF Init
<1> QED
  BY <1>1, <1>2 DEF Init, FetchInv, AsksClosed, GotWhole, MarkedWhole

\* A step that only takes days off the queues and adds rows keeps what is
\* asked for, held and marked in order.
LEMMA FetchInvKept ==
  ASSUME TypeOK, FetchInv,
         \A q \in Runs : todo'[q] \subseteq todo[q],
         known \subseteq known',
         UNCHANGED <<today, published, marked, got>>
  PROVE  FetchInv'
<1>1. DayClosed' /\ AsksClosed' /\ GotWhole'
  BY DEF FetchInv, DayClosed, AsksClosed, GotWhole
<1>2. MarkedWhole'
  BY WholeMonotone DEF FetchInv, MarkedWhole
<1> QED
  BY <1>1, <1>2 DEF FetchInv

\* A day that is over is listed completely.
LEMMA ClosedFile ==
  ASSUME DayClosed, NEW d \in Days, NEW t \in Types, d < today
  PROVE  FileOf(d, t) \subseteq published
  BY DEF DayClosed, FileOf

\* Requests, imports, and the writing of their results, aborted anywhere, mark
\* a day only after the whole of a file is in the table.
LEMMA FetchInvStep ==
  ASSUME TypeOK, FetchInv, ClosedDays, [Next]_vars
  PROVE  FetchInv'
<1>a. /\ today \in Nat /\ Days \subseteq Nat /\ marked \subseteq Days
      /\ todo \in [Runs -> SUBSET Days]
      /\ got \in [Runs -> SUBSET published]
  BY FetchAssumption DEF TypeOK
<1>1. CASE World
  <2>1. CASE NextDay
    <3>1. /\ today' = today + 1 /\ UNCHANGED <<published, known, marked, todo, got>>
          /\ \A id \in Ids : DayOf[id] = today => id \in published
      BY <2>1 DEF NextDay, db, runVars
    <3>2. DayClosed'
      <4>1. \A id \in Ids : DayOf[id] \in Nat
        BY FetchAssumption
      <4>2. \A id \in Ids : DayOf[id] < today + 1 => DayOf[id] < today \/ DayOf[id] = today
        BY <1>a, <4>1
      <4> QED
        BY <3>1, <4>2 DEF FetchInv, DayClosed
    <3>3. AsksClosed'
      <4>1. \A d \in Days : d < today => d < today + 1
        BY <1>a
      <4> QED
        BY <1>a, <3>1, <4>1 DEF FetchInv, AsksClosed
    <3> QED
      BY <3>1, <3>2, <3>3 DEF FetchInv, GotWhole, MarkedWhole
  <2>2. CASE Tick
    BY <2>2, FetchInvKept DEF Tick, server, runVars
  <2>3. ASSUME NEW id \in Ids, Publish(id) PROVE FetchInv'
    BY <2>3 DEF Publish, db, runVars, FetchInv, DayClosed, AsksClosed, GotWhole, MarkedWhole
  <2> QED
    BY <1>1, <2>1, <2>2, <2>3 DEF World
<1>2. ASSUME NEW p \in Runs, NEW before \in Ends, NEW skip \in Skips, Start(p, before, skip)
      PROVE  FetchInv'
  <2>1. before \in Nat \ {0}
    BY FetchAssumption DEF ClosedDays
  <2>2. \A d \in Selected(today - before, skip) : d \in Days /\ d < today
    BY <1>a, <2>1 DEF Selected
  <2>3. /\ todo' = [todo EXCEPT ![p] = Selected(today - before, skip)]
        /\ got' = [got EXCEPT ![p] = {}]
        /\ UNCHANGED <<today, published, known, marked>>
    BY <1>2 DEF Start, server, db
  <2>4. AsksClosed'
    BY <1>a, <2>2, <2>3 DEF FetchInv, AsksClosed
  <2>5. GotWhole'
    <3>1. \A q \in Runs : got'[q] = {} \/ got'[q] = got[q]
      BY <1>a, <2>3
    <3> QED
      BY <3>1 DEF FetchInv, GotWhole
  <2> QED
    BY <2>3, <2>4, <2>5 DEF FetchInv, DayClosed, MarkedWhole
<1>3. ASSUME NEW p \in Runs, NEW d \in Days, NEW t \in Types, NEW answer \in Answers,
             Request(p, d, t, answer)
      PROVE  FetchInv'
  <2>1. d \in todo[p] /\ UNCHANGED <<today, published, known, marked>>
    BY <1>3, RequestEffect
  <2>2. todo' = todo \/ todo' = [todo EXCEPT ![p] = @ \ {d}]
    BY <1>3, RequestEffect
  <2>3. AsksClosed'
    BY <1>a, <2>1, <2>2 DEF FetchInv, AsksClosed
  <2>4. FileOf(d, t) \cap published = FileOf(d, t)
    BY <2>1, ClosedFile DEF FetchInv, AsksClosed
  <2>5. \/ got' = [got EXCEPT ![p] = @ \cup (FileOf(d, t) \cap published)]
        \/ got' = got
    <3>1. \/ /\ got' = [got EXCEPT ![p] = @ \cup (FileOf(d, t) \cap published)]
             /\ any_ok' = [any_ok EXCEPT ![p] = @ \cup {d}]
          \/ UNCHANGED <<got, any_ok>>
      BY <1>3, RequestEffect, ZenonT(60)
    <3> QED
      BY <3>1
  <2>6. \A q \in Runs : got'[q] = got[q] \/ got'[q] = got[q] \cup FileOf(d, t)
    BY <1>a, <2>4, <2>5
  <2>7. GotWhole'
    <3> SUFFICES ASSUME NEW q \in Runs, NEW id \in got'[q]
                 PROVE  WholeFile(DayOf[id], got'[q])
      BY DEF GotWhole
    <3>1. CASE id \in got[q]
      <4>1. got[q] \subseteq got'[q] /\ WholeFile(DayOf[id], got[q])
        BY <2>6, <3>1 DEF FetchInv, GotWhole
      <4> QED
        BY <4>1, WholeMonotone
    <3>2. CASE id \notin got[q]
      <4>1. id \in FileOf(d, t) /\ FileOf(d, t) \subseteq got'[q]
        BY <2>6, <3>2
      <4>2. DayOf[id] = d
        BY <4>1 DEF FileOf
      <4> QED
        BY <4>1, <4>2 DEF WholeFile
    <3> QED
      BY <3>1, <3>2
  <2> QED
    BY <2>1, <2>3, <2>7 DEF FetchInv, DayClosed, MarkedWhole
<1>4. ASSUME NEW p \in Runs, RecordAttempt(p) PROVE FetchInv'
  BY <1>4, FetchInvKept DEF RecordAttempt, server
<1>5. ASSUME NEW p \in Runs, NEW id \in Ids, Insert(p, id) PROVE FetchInv'
  BY <1>5, FetchInvKept DEF Insert, server, runVars
<1>6. ASSUME NEW p \in Runs, FinishDay(p) PROVE FetchInv'
  <2>1. UNCHANGED <<today, published, known, todo, got>>
    BY <1>6 DEF FinishDay, server
  <2>2. Entries(p, Head(results[p])) \subseteq known
    BY <1>6 DEF FinishDay
  <2>3. \/ marked' = marked
        \/ /\ marked' = marked \cup {Head(results[p])}
           /\ Entries(p, Head(results[p])) # {}
    <3>1. marked' = IF Fetched(p, Head(results[p])) THEN marked \cup {Head(results[p])} ELSE marked
      BY <1>6 DEF FinishDay
    <3>2. CASE Fetched(p, Head(results[p]))
      BY <3>1, <3>2 DEF Fetched
    <3>3. CASE ~Fetched(p, Head(results[p]))
      BY <3>1, <3>3
    <3> QED
      BY <3>2, <3>3
  <2>4. Entries(p, Head(results[p])) # {} => WholeFile(Head(results[p]), known)
    <3> SUFFICES ASSUME NEW id \in Entries(p, Head(results[p]))
                 PROVE  WholeFile(Head(results[p]), known)
      OBVIOUS
    <3>1. id \in got[p] /\ DayOf[id] = Head(results[p])
      BY DEF Entries
    <3>2. PICK t \in Types : FileOf(DayOf[id], t) # {} /\ FileOf(DayOf[id], t) \subseteq got[p]
      BY <3>1 DEF FetchInv, GotWhole, WholeFile
    <3>3. FileOf(DayOf[id], t) \subseteq Entries(p, DayOf[id])
      BY <3>2 DEF FileOf, Entries
    <3> QED
      BY <2>2, <3>1, <3>2, <3>3 DEF WholeFile
  <2>5. MarkedWhole'
    BY <2>1, <2>3, <2>4 DEF FetchInv, MarkedWhole
  <2> QED
    BY <2>1, <2>5 DEF FetchInv, DayClosed, AsksClosed, GotWhole
<1>7. ASSUME NEW p \in Runs, NEW ids \in Imports, ImportFile(p, ids) PROVE FetchInv'
  <2>1. PICK d \in Days : /\ \A id \in ids : DayOf[id] = d
                          /\ got' = [got EXCEPT ![p] = ids]
    BY <1>7 DEF ImportFile
  <2>2. PICK e \in Days, t \in Types : ids = FileOf(e, t)
    BY DEF ClosedDays
  <2>3. ids # {} /\ UNCHANGED <<today, published, known, marked, todo>>
    BY <1>7 DEF ImportFile, server, db
  <2>4. WholeFile(d, ids)
    <3>1. e = d
      BY <2>1, <2>2, <2>3 DEF FileOf
    <3> QED
      BY <2>2, <2>3, <3>1 DEF WholeFile
  <2>5. \A q \in Runs : got'[q] = got[q] \/ got'[q] = ids
    BY <1>a, <2>1
  <2>6. GotWhole'
    BY <2>1, <2>4, <2>5 DEF FetchInv, GotWhole
  <2> QED
    BY <2>3, <2>6 DEF FetchInv, DayClosed, AsksClosed, MarkedWhole
<1>8. ASSUME NEW p \in Runs, Abort(p) PROVE FetchInv'
  <2>1. todo' = [todo EXCEPT ![p] = {}] /\ UNCHANGED <<today, published, known, marked, got>>
    BY <1>8 DEF Abort, server, db
  <2> QED
    BY <1>a, <2>1, FetchInvKept
<1>9. CASE UNCHANGED vars
  BY <1>9, FetchInvKept DEF vars, server, db, runVars
<1> QED
  BY <1>1, <1>2, <1>3, <1>4, <1>5, <1>6, <1>7, <1>8, <1>9
     DEF Next, StartSome, Step, Store, Files

\* If runs end before today and imported files are whole, --skip-fetched skips
\* only days of which a whole file is listed, whatever requests fail and
\* wherever processes are killed.
THEOREM SkippedDaysListed == ASSUME ClosedDays PROVE Spec => []MarkedDayListed
<1>1. TypeOK /\ FetchInv /\ [Next]_vars => FetchInv'
  BY FetchInvStep
<1>2. Spec => []FetchInv
  BY <1>1, FetchInvInit, FetchTypeCorrect, PTL DEF Spec
<1>3. FetchInv => MarkedDayListed
  BY DEF FetchInv, MarkedWhole, MarkedDayListed, WholeFile
<1> QED
  BY <1>2, <1>3, PTL

-----------------------------------------------------------------------------
(***************************************************************************)
(* No file is asked for twice within 20 minutes.                           *)
(***************************************************************************)

OneRun == \A p, q \in Runs : p = q

\* An idle run has no results left, and only a run that writes results has
\* recorded an attempt.
IdleDone ==
  \A p \in Runs :
    /\ stage[p] = "idle" => results[p] = <<>>
    /\ stage[p] # "store" => ~recorded[p]

\* A run has asked for files of this day and will record the attempt.
Owed(d) ==
  \E p \in Runs :
    \/ d \in todo[p]
    \/ \E i \in 1..Len(results[p]) : results[p][i] = d /\ (i = 1 => ~recorded[p])

\* The last request for a file is no younger than the recorded attempt for its
\* day, or the attempt is still to be recorded.
AttemptsKnown ==
  \A d \in Days, t \in Types : checkedAge[d] <= askedAge[<<d, t>>] \/ Owed(d)

\* What a run is going to ask for was not asked for in the last 20 minutes.
AsksOld ==
  \A p \in Runs : \A d \in todo[p], t \in Types :
    <<d, t>> \notin asked[p] => askedAge[<<d, t>>] >= Window

PoliteInv == IdleDone /\ (~interrupted => AttemptsKnown /\ AsksOld)

\* The days of a queue after one more day is appended.
LEMMA AppendedDays ==
  ASSUME NEW s \in Seq(Days), NEW x \in Days
  PROVE  /\ Len(Append(s, x)) = Len(s) + 1 /\ Len(s) \in Nat
         /\ Append(s, x)[Len(s) + 1] = x
         /\ \A i \in 1..Len(s) : Append(s, x)[i] = s[i]
  BY AppendProperties, LenProperties

\* The days of a queue after the first one is taken off.
LEMMA RemainingDays ==
  ASSUME NEW s \in Seq(Days), s # <<>>
  PROVE  /\ Len(s) \in Nat \ {0} /\ Len(Tail(s)) = Len(s) - 1
         /\ Head(s) = s[1]
         /\ \A i \in 1..Len(Tail(s)) : Tail(s)[i] = s[i + 1]
  BY HeadTailProperties, LenProperties, EmptySeq

\* Nothing is asked for, owed or left over at first.
LEMMA PoliteInit == HistoryInit => PoliteInv
<1> SUFFICES ASSUME HistoryInit PROVE PoliteInv
  OBVIOUS
<1>1. IdleDone /\ AsksOld
  BY DEF HistoryInit, Init, IdleDone, AsksOld
<1>2. AttemptsKnown
  BY FetchAssumption DEF HistoryInit, Init, AttemptsKnown, Files
<1> QED
  BY <1>1, <1>2 DEF PoliteInv

\* A run ends with an empty queue.
LEMMA IdleStep == TypeOK /\ IdleDone /\ [Next]_vars => IdleDone'
<1> SUFFICES ASSUME TypeOK, IdleDone, [Next]_vars PROVE IdleDone'
  OBVIOUS
<1> USE DEF TypeOK, IdleDone
<1>1. CASE World \/ UNCHANGED vars
  BY <1>1 DEF World, NextDay, Tick, Publish, runVars, vars
<1>2. ASSUME NEW p \in Runs, NEW before \in Ends, NEW skip \in Skips, Start(p, before, skip)
      PROVE  IdleDone'
  BY <1>2 DEF Start
<1>3. ASSUME NEW p \in Runs, NEW d \in Days, NEW t \in Types, NEW answer \in Answers,
             Request(p, d, t, answer)
      PROVE  IdleDone'
  <2>1. stage[p] = "network" /\ recorded' = recorded
    BY <1>3, RequestEffect
  <2>2. \/ UNCHANGED <<todo, results, stage>>
        \/ /\ results' = [results EXCEPT ![p] = Append(@, d)]
           /\ stage' = [stage EXCEPT ![p] = IF todo[p] = {d} THEN "store" ELSE @]
    BY <1>3, RequestEffect
  <2> QED
    BY <2>1, <2>2
<1>4. ASSUME NEW p \in Runs, RecordAttempt(p) PROVE IdleDone'
  BY <1>4 DEF RecordAttempt
<1>5. ASSUME NEW p \in Runs, NEW id \in Ids, Insert(p, id) PROVE IdleDone'
  BY <1>5 DEF Insert, runVars
<1>6. ASSUME NEW p \in Runs, FinishDay(p) PROVE IdleDone'
  <2>1. Len(results[p]) = 1 => Tail(results[p]) = <<>>
    <3>1. Len(results[p]) = 1 => Tail(results[p]) \in Seq(Days) /\ Len(Tail(results[p])) = 0
      BY <1>6, RemainingDays, HeadTailProperties DEF FinishDay
    <3> QED
      BY <3>1, EmptySeq
  <2> QED
    BY <1>6, <2>1 DEF FinishDay
<1>7. ASSUME NEW p \in Runs, NEW ids \in Imports, ImportFile(p, ids) PROVE IdleDone'
  BY <1>7 DEF ImportFile
<1>8. ASSUME NEW p \in Runs, Abort(p) PROVE IdleDone'
  BY <1>8 DEF Abort
<1> QED
  BY <1>1, <1>2, <1>3, <1>4, <1>5, <1>6, <1>7, <1>8
     DEF Next, StartSome, Step, Store, Files

\* The attempt for a day is recorded after its last request, and a run selects
\* no day with a recent attempt.
LEMMA PoliteStep ==
  ASSUME TypeOK, TypeOK', IdleDone, AttemptsKnown, AsksOld, OneRun, [Next]_vars, ~Interrupt
  PROVE  AttemptsKnown' /\ AsksOld'
<1> DEFINE Known(d, t) == checkedAge[d] <= askedAge[<<d, t>>] \/ Owed(d)
           Old(p, d, t) == d \in todo[p] /\ <<d, t>> \notin asked[p] => askedAge[<<d, t>>] >= Window
           Good == /\ \A d \in Days, t \in Types : Known(d, t)
                   /\ \A p \in Runs, d \in Days, t \in Types : Old(p, d, t)
<1>a. Good /\ \A p, q \in Runs : p = q
  BY DEF AttemptsKnown, AsksOld, OneRun
<1>b. /\ Window \in Nat \ {0} /\ Days \subseteq Nat
      /\ \A d \in Days : checkedAge[d] \in 0..Window /\ checkedAge'[d] \in 0..Window
      /\ \A d \in Days, t \in Types :
           askedAge[<<d, t>>] \in 0..Window /\ askedAge'[<<d, t>>] \in 0..Window
  BY FetchAssumption DEF TypeOK, Files
<1>c. SUFFICES Good'
  BY DEF AttemptsKnown, AsksOld, TypeOK
<1>1. CASE UNCHANGED <<todo, asked, results, recorded, checkedAge, askedAge>>
  BY <1>1, <1>a DEF Owed
<1>2. CASE Tick
  <2>1. /\ \A d \in Days : checkedAge'[d] = Older(checkedAge[d])
        /\ \A d \in Days, t \in Types : askedAge'[<<d, t>>] = Older(askedAge[<<d, t>>])
        /\ UNCHANGED <<todo, asked, results, recorded>>
    BY <1>2 DEF Tick, runVars, Files
  <2>2. \A m, n \in 0..Window : m <= n => Older(m) <= Older(n)
    BY <1>b DEF Older
  <2>3. \A n \in 0..Window : n >= Window => Older(n) >= Window
    BY <1>b DEF Older
  <2>4. \A d \in Days : Owed(d)' = Owed(d)
    BY <2>1 DEF Owed
  <2> QED
    BY <1>a, <1>b, <2>1, <2>2, <2>3, <2>4
<1>3. ASSUME NEW p \in Runs, NEW before \in Ends, NEW skip \in Skips, Start(p, before, skip)
      PROVE  Good'
  <2>1. /\ stage[p] = "idle"
        /\ todo' = [todo EXCEPT ![p] = Selected(today - before, skip)]
        /\ UNCHANGED <<results, recorded, checkedAge, askedAge>>
    BY <1>3 DEF Start, db
  <2>2. /\ todo[p] = {} /\ results[p] = <<>> /\ Len(results[p]) = 0
        /\ todo'[p] = Selected(today - before, skip)
    BY <2>1, EmptySeq DEF IdleDone, TypeOK
  <2>3. \A d \in Days : ~Owed(d)
    BY <1>a, <2>2 DEF Owed
  <2>4. \A d \in Days, t \in Types : checkedAge[d] <= askedAge[<<d, t>>]
    BY <1>a, <2>3
  <2>5. \A d \in Selected(today - before, skip) : ~(checkedAge[d] < Window)
    BY DEF Selected, Checked
  <2> QED
    BY <1>a, <1>b, <2>1, <2>2, <2>4, <2>5
<1>4. ASSUME NEW p \in Runs, NEW d \in Days, NEW t \in Types, NEW answer \in Answers,
             Request(p, d, t, answer)
      PROVE  Good'
  <2>1. /\ stage[p] = "network" /\ d \in todo[p]
        /\ UNCHANGED <<checkedAge, recorded>>
        /\ asked' = [asked EXCEPT ![p] = @ \cup {<<d, t>>}]
        /\ askedAge' = [askedAge EXCEPT ![<<d, t>>] = 0]
    <3>1. stage[p] = "network" /\ d \in todo[p] /\ UNCHANGED <<checkedAge, recorded>>
      BY <1>4, RequestEffect
    <3>2. /\ asked' = [asked EXCEPT ![p] = @ \cup {<<d, t>>}]
          /\ askedAge' = [askedAge EXCEPT ![<<d, t>>] = 0]
      BY <1>4, Zenon DEF Request
    <3> QED
      BY <3>1, <3>2
  <2>2. \/ UNCHANGED <<todo, results, stage>>
        \/ /\ todo' = [todo EXCEPT ![p] = @ \ {d}]
           /\ results' = [results EXCEPT ![p] = Append(@, d)]
    BY <1>4, RequestEffect
  <2>3. \A e \in Days, u \in Types : <<e, u>> # <<d, t>> => askedAge'[<<e, u>>] = askedAge[<<e, u>>]
    BY <2>1 DEF TypeOK, Files
  <2>4. ASSUME NEW e \in Days, Owed(e) PROVE Owed(e)'
    <3>1. CASE UNCHANGED <<todo, results, stage>>
      BY <2>1, <2>4, <3>1 DEF Owed
    <3>2. CASE /\ todo' = [todo EXCEPT ![p] = @ \ {d}]
               /\ results' = [results EXCEPT ![p] = Append(@, d)]
      <4> DEFINE s == results[p]
      <4>1. /\ todo'[p] = todo[p] \ {d} /\ results'[p] = Append(s, d)
            /\ s \in Seq(Days) /\ ~recorded'[p]
        BY <2>1, <3>2 DEF TypeOK, IdleDone
      <4> HIDE DEF s
      <4>2. /\ Len(Append(s, d)) = Len(s) + 1 /\ Len(s) \in Nat
            /\ Append(s, d)[Len(s) + 1] = d
            /\ \A i \in 1..Len(s) : Append(s, d)[i] = s[i]
        BY <4>1, AppendedDays
      <4>3. e \in todo[p] \/ \E i \in 1..Len(s) : s[i] = e
        BY <1>a, <2>4 DEF Owed, s
      <4>4. e \in todo'[p] \/ \E i \in 1..Len(Append(s, d)) : Append(s, d)[i] = e
        <5>1. CASE e \in todo[p] /\ e # d
          BY <4>1, <5>1
        <5>2. CASE e = d
          <6>1. Len(s) + 1 \in 1..Len(Append(s, d))
            BY <4>2
          <6> QED
            BY <4>2, <5>2, <6>1
        <5>3. ASSUME NEW i \in 1..Len(s), s[i] = e
              PROVE  \E j \in 1..Len(Append(s, d)) : Append(s, d)[j] = e
          <6>1. i \in 1..Len(Append(s, d))
            BY <4>2
          <6> QED
            BY <4>2, <5>3, <6>1
        <5> QED
          BY <4>3, <5>1, <5>2, <5>3
      <4> QED
        BY <4>1, <4>4 DEF Owed
    <3> QED
      BY <2>2, <3>1, <3>2
  <2>5. Owed(d)
    BY <2>1 DEF Owed
  <2>6. \A q \in Runs : todo'[q] \subseteq todo[q]
    <3>1. todo' = todo \/ todo' = [todo EXCEPT ![p] = @ \ {d}]
      BY <1>4, RequestEffect
    <3>2. todo \in [Runs -> SUBSET Days]
      BY DEF TypeOK
    <3> QED
      BY <3>1, <3>2
  <2>7. ASSUME NEW q \in Runs, NEW e \in Days, NEW u \in Types, e \in todo'[q], <<e, u>> \notin asked'[q]
        PROVE  askedAge'[<<e, u>>] >= Window
    <3>1. q = p /\ asked'[p] = asked[p] \cup {<<d, t>>}
      BY <1>a, <2>1 DEF TypeOK
    <3>2. <<e, u>> # <<d, t>> /\ e \in todo[q] /\ <<e, u>> \notin asked[q]
      BY <2>6, <2>7, <3>1
    <3> QED
      BY <1>a, <2>3, <3>2
  <2>8. ASSUME NEW e \in Days, NEW u \in Types PROVE Known(e, u)'
    <3>1. CASE <<e, u>> = <<d, t>>
      BY <2>4, <2>5, <3>1
    <3>2. CASE <<e, u>> # <<d, t>>
      BY <1>a, <2>1, <2>3, <2>4, <3>2
    <3> QED
      BY <3>1, <3>2
  <2> HIDE DEF Known
  <2> QED
    BY <2>7, <2>8
<1>5. ASSUME NEW p \in Runs, RecordAttempt(p) PROVE Good'
  <2>1. /\ stage[p] = "store" /\ checkedAge' = [checkedAge EXCEPT ![Head(results[p])] = 0]
        /\ recorded' = [recorded EXCEPT ![p] = TRUE]
        /\ UNCHANGED <<todo, asked, results, askedAge>>
    BY <1>5 DEF RecordAttempt
  <2>2. results[p] \in Seq(Days) /\ results[p] # <<>>
    BY <2>1 DEF TypeOK
  <2>3. Head(results[p]) \in Days /\ Head(results[p]) = results[p][1]
    BY <2>2, RemainingDays, FirstDay
  <2>4. ASSUME NEW e \in Days, NEW u \in Types PROVE Known(e, u)'
    <3>1. CASE e = Head(results[p])
      <4>1. checkedAge'[e] = 0
        BY <2>1, <3>1 DEF TypeOK
      <4> QED
        BY <1>b, <4>1
    <3>2. CASE e # Head(results[p])
      <4>1. checkedAge'[e] = checkedAge[e]
        BY <2>1, <3>2 DEF TypeOK
      <4>2. Owed(e) => Owed(e)'
        BY <1>a, <2>1, <2>3, <3>2 DEF Owed
      <4> QED
        BY <1>a, <2>1, <4>1, <4>2
    <3> QED
      BY <3>1, <3>2
  <2>5. \A q \in Runs, e \in Days, u \in Types : Old(q, e, u)'
    BY <1>a, <2>1
  <2> HIDE DEF Known, Old
  <2> QED
    BY <2>4, <2>5
<1>6. ASSUME NEW p \in Runs, FinishDay(p) PROVE Good'
  <2>1. /\ stage[p] = "store" /\ recorded[p]
        /\ results' = [results EXCEPT ![p] = Tail(@)]
        /\ recorded' = [recorded EXCEPT ![p] = FALSE]
        /\ UNCHANGED <<todo, asked, checkedAge, askedAge>>
    BY <1>6 DEF FinishDay
  <2> DEFINE s == results[p]
  <2>2. /\ s \in Seq(Days) /\ s # <<>> /\ results'[p] = Tail(s) /\ ~recorded'[p]
    BY <2>1 DEF TypeOK
  <2> HIDE DEF s
  <2>3. /\ Len(s) \in Nat \ {0} /\ Len(Tail(s)) = Len(s) - 1
        /\ \A i \in 1..Len(Tail(s)) : Tail(s)[i] = s[i + 1]
    BY <2>2, RemainingDays
  <2>4. ASSUME NEW e \in Days, Owed(e) PROVE Owed(e)'
    <3>1. e \in todo[p] \/ \E i \in 1..Len(s) : s[i] = e /\ i # 1
      BY <1>a, <2>1, <2>4 DEF Owed, s
    <3>2. CASE e \in todo[p]
      BY <2>1, <3>2 DEF Owed
    <3>3. ASSUME NEW i \in 1..Len(s), s[i] = e, i # 1 PROVE Owed(e)'
      <4>1. i - 1 \in 1..Len(Tail(s)) /\ (i - 1) + 1 = i
        BY <2>3, <3>3
      <4>2. Tail(s)[i - 1] = e
        BY <2>3, <3>3, <4>1
      <4> QED
        BY <2>2, <4>1, <4>2 DEF Owed
    <3> QED
      BY <3>1, <3>2, <3>3
  <2> QED
    BY <1>a, <2>1, <2>4
<1>7. ASSUME NEW p \in Runs, NEW ids \in Imports, ImportFile(p, ids) PROVE Good'
  <2>1. /\ stage[p] = "idle" /\ UNCHANGED <<todo, asked, checkedAge, askedAge>>
    BY <1>7 DEF ImportFile, db
  <2>2. todo[p] = {} /\ results[p] = <<>> /\ Len(results[p]) = 0
    BY <2>1, EmptySeq DEF IdleDone, TypeOK
  <2>3. \A d \in Days : ~Owed(d)
    BY <1>a, <2>2 DEF Owed
  <2> QED
    BY <1>a, <2>1, <2>3
<1>8. ASSUME NextDay \/ (\E id \in Ids : Publish(id)) \/ UNCHANGED vars
             \/ \E p \in Runs, id \in Ids : Insert(p, id)
      PROVE  UNCHANGED <<todo, asked, results, recorded, checkedAge, askedAge>>
  BY <1>8 DEF NextDay, Publish, Insert, db, runVars, vars
<1> HIDE DEF Good
<1> QED
  BY <1>1, <1>2, <1>3, <1>4, <1>5, <1>6, <1>7, <1>8
     DEF Next, World, StartSome, Step, Store, Files, Interrupt

\* A request is made only for what a run has still to ask for.
LEMMA PoliteRequest ==
  ASSUME TypeOK, AsksOld, [Next]_vars,
         NEW f \in Files, NEW p \in Runs, f \in asked'[p] \ asked[p]
  PROVE  askedAge[f] >= Window
<1>1. CASE World \/ UNCHANGED vars \/ \E q \in Runs : Store(q) \/ Abort(q)
  BY <1>1 DEF World, NextDay, Tick, Publish, Store, RecordAttempt, FinishDay, Insert, Abort,
     runVars, vars
<1>2. ASSUME NEW q \in Runs, StartSome(q) \/ \E ids \in Imports : ImportFile(q, ids)
      PROVE  FALSE
  BY <1>2 DEF StartSome, Start, ImportFile, TypeOK
<1>3. ASSUME NEW q \in Runs, NEW d \in Days, NEW t \in Types, NEW answer \in Answers,
             Request(q, d, t, answer)
      PROVE  askedAge[f] >= Window
  <2>1. d \in todo[q] /\ asked' = [asked EXCEPT ![q] = @ \cup {<<d, t>>}]
    <3>1. d \in todo[q]
      BY <1>3, RequestEffect
    <3>2. asked' = [asked EXCEPT ![q] = @ \cup {<<d, t>>}]
      BY <1>3, Zenon DEF Request
    <3> QED
      BY <3>1, <3>2
  <2>2. q = p /\ f = <<d, t>>
    BY <2>1 DEF TypeOK
  <2> QED
    BY <2>1, <2>2 DEF AsksOld
<1> QED
  BY <1>1, <1>2, <1>3 DEF Next, Step, Files

\* With one run at a time that is never cut short, no file is asked for twice
\* within 20 minutes, for any days, types and answers.
THEOREM FetchIsPolite == ASSUME OneRun PROVE HistorySpec => PoliteUninterrupted
<1>1. HistoryInit => TypeOK /\ PoliteInv
  BY TypeInit, PoliteInit DEF HistoryInit
<1>2. TypeOK /\ PoliteInv /\ [HistoryNext]_historyVars => TypeOK' /\ PoliteInv'
  <2> SUFFICES ASSUME TypeOK, PoliteInv, [HistoryNext]_historyVars
               PROVE  TypeOK' /\ PoliteInv'
    OBVIOUS
  <2>1. [Next]_vars
    BY DEF HistoryNext, historyVars
  <2>2. TypeOK' /\ IdleDone'
    BY <2>1, TypeStep, IdleStep DEF PoliteInv
  <2>3. CASE UNCHANGED historyVars
    <3>1. UNCHANGED vars /\ UNCHANGED interrupted
      BY <2>3 DEF historyVars
    <3>2. (AttemptsKnown' <=> AttemptsKnown) /\ (AsksOld' <=> AsksOld)
      BY <3>1 DEF vars, runVars, db, AttemptsKnown, AsksOld, Owed
    <3> QED
      BY <2>2, <3>1, <3>2 DEF PoliteInv
  <2>4. CASE HistoryNext
    <3>1. ~interrupted' => ~interrupted /\ ~Interrupt
      BY <2>4 DEF HistoryNext
    <3> QED
      BY <2>1, <2>2, <3>1, PoliteStep DEF PoliteInv
  <2> QED
    BY <2>3, <2>4
<1>3. TypeOK /\ PoliteInv /\ [HistoryNext]_historyVars =>
        [interrupted
           \/ \A f \in Files :
                (\E p \in Runs : f \in asked'[p] \ asked[p]) => askedAge[f] >= Window]_vars
  <2> SUFFICES ASSUME TypeOK, PoliteInv, [HistoryNext]_historyVars, ~interrupted,
                      NEW f \in Files, NEW p \in Runs, f \in asked'[p] \ asked[p]
               PROVE  askedAge[f] >= Window
    OBVIOUS
  <2>1. [Next]_vars
    BY DEF HistoryNext, historyVars
  <2> QED
    BY <2>1, PoliteRequest DEF PoliteInv
<1> QED
  BY <1>1, <1>2, <1>3, PTL DEF HistorySpec, PoliteUninterrupted
=============================================================================
