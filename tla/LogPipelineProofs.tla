------------------------- MODULE LogPipelineProofs -------------------------
(***************************************************************************)
(* Proofs about LogPipeline: type correctness, the bound on the attempt    *)
(* counters for any number of overlapping invocations, and, for one        *)
(* download and one convert process, the implementation of LogLifecycle;   *)
(* and of the convert runs: a run puts no id on two pages, a run that ends *)
(* by itself has visited its whole queue, and a log is all-or-nothing in   *)
(* the output directory.                                                   *)
(***************************************************************************)
EXTENDS LogPipeline, FiniteSetTheorems, WellFoundedInduction, TLAPS

-----------------------------------------------------------------------------
(***************************************************************************)
(* The queries.                                                            *)
(***************************************************************************)

\* A LIMIT only drops rows.
LEMMA FirstNSubset == \A S, n : FirstN(S, n) \subseteq S
  BY DEF FirstN

\* A set of numbers that is not empty has a first element.
LEMMA FirstExists ==
  ASSUME NEW S \in SUBSET Nat, S # {}
  PROVE  \E x \in S : IsFirst(x, S)
<1>1. PICK x \in S : \A y \in S : ~(<<y, x>> \in OpToRel(<, Nat))
  BY NatLessThanWellFounded, WFMin
<1>2. \A y \in S : x <= y
  <2> SUFFICES ASSUME NEW y \in S PROVE ~(y < x)
    OBVIOUS
  <2>1. y < x => <<y, x>> \in OpToRel(<, Nat)
    BY DEF OpToRel
  <2> QED
    BY <1>1, <2>1
<1> QED
  BY <1>2 DEF IsFirst

\* What a LIMIT keeps comes before what it drops.
LEMMA FirstNBefore ==
  ASSUME NEW S \in SUBSET Nat, IsFiniteSet(S), NEW n \in Nat,
         NEW x \in FirstN(S, n), NEW y \in S \ FirstN(S, n)
  PROVE  x < y
<1> DEFINE below(z) == {w \in S : w < z}
<1>1. x \in S /\ Cardinality(below(x)) < n /\ ~(Cardinality(below(y)) < n)
  BY DEF FirstN
<1>2. ASSUME y <= x PROVE FALSE
  <2>1. below(y) \in SUBSET below(x) /\ below(x) \in SUBSET S
    <3>1. \A w \in S : w \in Nat /\ x \in Nat /\ y \in Nat
      BY <1>1
    <3>2. \A w \in S : w < y => w < x
      BY <1>2, <3>1
    <3> QED
      BY <3>2
  <2>2. IsFiniteSet(below(x))
    BY <2>1, FS_Subset
  <2>3. Cardinality(below(y)) <= Cardinality(below(x)) /\ IsFiniteSet(below(y))
    BY <2>1, <2>2, FS_Subset
  <2>4. Cardinality(below(x)) \in Nat /\ Cardinality(below(y)) \in Nat
    BY <2>2, <2>3, FS_CardinalityType
  <2> QED
    BY <1>1, <2>3, <2>4
<1> QED
  BY <1>1, <1>2

\* A page that is not full leaves nothing out.
LEMMA FirstNShort ==
  ASSUME NEW S \in SUBSET Nat, IsFiniteSet(S), NEW n \in Nat,
         Cardinality(FirstN(S, n)) < n
  PROVE  FirstN(S, n) = S
<1> DEFINE rest == S \ FirstN(S, n)
<1>1. SUFFICES ASSUME rest # {} PROVE FALSE
  BY FirstNSubset
<1>2. PICK y \in rest : IsFirst(y, rest)
  BY <1>1, FirstExists
<1>3. {w \in S : w < y} = FirstN(S, n)
  <2>1. ASSUME NEW w \in S, w < y PROVE w \in FirstN(S, n)
    BY <1>2, <2>1 DEF IsFirst
  <2>2. ASSUME NEW w \in FirstN(S, n) PROVE w \in S /\ w < y
    BY FirstNBefore, FirstNSubset
  <2> QED
    BY <2>1, <2>2
<1>4. y \in FirstN(S, n)
  BY <1>3 DEF FirstN
<1> QED
  BY <1>4

\* The queues hold existing rows that the column values admit.
LEMMA QueuesKnown ==
  /\ Undownloaded \subseteq known
  /\ Unconverted \subseteq known
  /\ \A c : UnconvertedAfter(c) \subseteq Unconverted
  BY DEF Undownloaded, Unconverted, UnconvertedAfter

-----------------------------------------------------------------------------
(***************************************************************************)
(* Type correctness.                                                       *)
(***************************************************************************)

\* The initial table is well typed.
LEMMA TypeInit == Init => TypeOK
  BY IdsAssumption, BoundAssumption DEF Init, TypeOK, Columns, Counts

\* Every step of every command keeps the table, the queues and the run state
\* well typed; in particular a page is empty exactly when its run is not
\* working on one.
LEMMA TypeStep == TypeOK /\ [Next]_vars => TypeOK'
<1> SUFFICES ASSUME TypeOK, [Next]_vars PROVE TypeOK'
  OBVIOUS
<1> USE IdsAssumption, BoundAssumption DEF TypeOK, Columns, Counts
<1>1. ASSUME NEW id \in Ids, InsertLogId(id) PROVE TypeOK'
  BY <1>1 DEF InsertLogId, downloadCols, convertCols, runVars, history
<1>2. ASSUME NEW p \in Downloaders, ResetDownloadErrors(p) PROVE TypeOK'
  BY <1>2 DEF ResetDownloadErrors, convertCols, runVars, history
<1>3. ASSUME NEW p \in Downloaders, DownloadStart(p) PROVE TypeOK'
  <2>1. PICK ids \in SUBSET known : TakeSnapshot(p, ids)
    BY <1>3, FirstNSubset, QueuesKnown
       DEF DownloadStart, DownloadAll, DownloadLimited
  <2> QED
    BY <2>1 DEF TakeSnapshot, table, downloadCols, convertCols, runVars, history
<1>4. ASSUME NEW p \in Downloaders, DownloadStep(p) PROVE TypeOK'
  <2>1. PICK id \in Ids, ok \in BOOLEAN : RecordOutcome(p, id, ok)
    BY <1>4 DEF DownloadStep
  <2>2. CASE ok
    BY <2>1, <2>2 DEF RecordOutcome, MarkDownloaded, convertCols, runVars, history
  <2>3. CASE ~ok
    <3>1. MarkDownloadError(id)
      BY <2>1, <2>3 DEF RecordOutcome
    <3>2. /\ work' = [work EXCEPT ![p] = @ \ {id}]
          /\ UNCHANGED <<known, convertCols, files, runVars, history>>
      BY <2>1 DEF RecordOutcome
    <3> QED
      BY <3>1, <3>2 DEF MarkDownloadError, convertCols, runVars, history
  <2> QED
    BY <2>2, <2>3
<1>5. ASSUME NEW p \in Downloaders, DownloadAbort(p) PROVE TypeOK'
  BY <1>5 DEF DownloadAbort, table, downloadCols, convertCols, runVars, history
<1>6. ASSUME NEW p \in Converters, ResetConvertErrors(p) PROVE TypeOK'
  BY <1>6 DEF ResetConvertErrors, downloadCols, runVars, history
<1>7. ASSUME NEW p \in Converters, ConvertAll(p) PROVE TypeOK'
  BY <1>7, QueuesKnown DEF ConvertAll, table, downloadCols, convertCols
<1>8. ASSUME NEW p \in Converters, NEW n \in Limits, ConvertLimited(p, n)
      PROVE  TypeOK'
  <2> DEFINE ids == FirstN(Unconverted, n)
  <2>1. ids \in SUBSET known /\ ids # {}
    BY <1>8, FirstNSubset, QueuesKnown DEF ConvertLimited
  <2> HIDE DEF ids
  <2> QED
    BY <1>8, <2>1
       DEF ConvertLimited, Batch, ids, table, downloadCols, convertCols
<1>9. ASSUME NEW p \in Converters, NextPage(p) PROVE TypeOK'
  <2> DEFINE ids == FirstN(UnconvertedAfter(cursor[p]), PageSize)
  <2>1. ids \in SUBSET known /\ ids # {}
    BY <1>9, FirstNSubset, QueuesKnown DEF NextPage
  <2> DEFINE isLast == Cardinality(ids) < PageSize
  <2>2. isLast \in BOOLEAN
    OBVIOUS
  <2> HIDE DEF ids, isLast
  <2>3. PICK g \in ids : cursor' = [cursor EXCEPT ![p] = g]
    BY <1>9 DEF NextPage, ids
  <2> QED
    <3>1. /\ stage' = [stage EXCEPT ![p] = "batch"]
          /\ last' = [last EXCEPT ![p] = isLast]
          /\ Batch(p, ids)
          /\ tried' = [tried EXCEPT ![p] = @ \cup ids]
          /\ UNCHANGED <<table, files, work, queued>>
      BY <1>9 DEF NextPage, ShortPage, ids, isLast
    <3>2. cursor' \in [Converters -> Nat]
      BY <2>1, <2>3
    <3>3. last' \in [Converters -> BOOLEAN]
      BY <3>1, <2>2
    <3>4. UNCHANGED <<known, is_downloaded, xml_data, download_attempts,
                      is_converted, convert_attempts, files, work, queued>>
      BY <3>1 DEF table, downloadCols, convertCols
    <3>5. /\ page' = [page EXCEPT ![p] = ids]
          /\ written' = [written EXCEPT ![p] = [id \in Ids |-> 0]]
          /\ failed' = [failed EXCEPT ![p] = {}]
      BY <3>1 DEF Batch
    <3>6. tried' \in [Converters -> SUBSET known]
      BY <3>1, <2>1
    <3>7. \A q \in Converters : stage'[q] = "batch" <=> page'[q] # {}
      BY <3>1, <3>5, <2>1
    <3>8. \A q \in Converters, id \in Ids : written'[q][id] <= Games[id]
      BY <3>5
    <3> QED
      BY <2>1, <3>1, <3>2, <3>3, <3>4, <3>5, <3>6, <3>7, <3>8
<1>10. ASSUME NEW p \in Converters, NoMorePages(p) PROVE TypeOK'
  BY <1>10 DEF NoMorePages, table, downloadCols, convertCols, history
<1>11. ASSUME NEW p \in Converters, NEW id \in Ids, WriteGame(p, id) PROVE TypeOK'
  <2>1. written[p][id] \in Nat /\ written[p][id] < Games[id] /\ Games[id] \in Nat
    BY <1>11 DEF WriteGame, Unresolved
  <2>2. <<id, written[p][id] + 1>> \in FilesOf(id)
    BY <2>1 DEF FilesOf
  <2>3. files' \subseteq UNION {FilesOf(i) : i \in Ids}
    <3>1. <<id, written[p][id] + 1>> \in UNION {FilesOf(i) : i \in Ids}
      BY <2>2
    <3> QED
      BY <1>11, <3>1 DEF WriteGame
  <2>4. written' \in [Converters -> [Ids -> Nat]]
    BY <1>11, <2>1 DEF WriteGame
  <2>5. \A q \in Converters, i \in Ids : written'[q][i] <= Games[i]
    BY <1>11, <2>1 DEF WriteGame
  <2> QED
    BY <1>11, <2>3, <2>4, <2>5 DEF WriteGame, table, downloadCols, convertCols, history, FilesOf
<1>12. ASSUME NEW p \in Converters, NEW id \in Ids, FailGame(p, id) PROVE TypeOK'
  <2>1. files' \subseteq files
    BY <1>12 DEF FailGame
  <2>2. files' \subseteq UNION {FilesOf(i)' : i \in Ids}
    BY <2>1 DEF FilesOf
  <2> QED
    BY <1>12, <2>2 DEF FailGame, table, downloadCols, convertCols, history
<1>13. ASSUME NEW p \in Converters, NEW id \in Ids, MarkRow(p, id) PROVE TypeOK'
  <2>1. is_converted' \in Columns /\ convert_attempts' \in Counts
    <3>1. CASE id \in failed[p] /\ MarkConvertError(id)
      BY <3>1 DEF MarkConvertError
    <3>2. CASE id \notin failed[p] /\ MarkConverted(id)
      BY <3>2 DEF MarkConverted
    <3>3. CASE UNCHANGED convertCols
      BY <3>3 DEF convertCols
    <3> QED
      BY <1>13, <3>1, <3>2, <3>3 DEF MarkRow
  <2>2. page' = [page EXCEPT ![p] = @ \ {id}] /\ page' \in [Converters -> SUBSET known']
    BY <1>13 DEF MarkRow
  <2>3. /\ stage' = [stage EXCEPT ![p] = IF page[p] = {id} THEN AfterPage(p) ELSE @]
        /\ stage[p] = "batch"
        /\ id \in page[p]
    BY <1>13 DEF MarkRow, IsFirst
  <2>4. \A q \in Converters : stage'[q] = "batch" <=> page'[q] # {}
    BY <2>2, <2>3 DEF AfterPage
  <2>5. stage' \in [Converters -> {"idle", "paging", "batch"}]
    BY <2>3 DEF AfterPage
  <2> QED
    BY <1>13, <2>1, <2>2, <2>4, <2>5 DEF MarkRow, downloadCols, history
<1>14. ASSUME NEW p \in Converters, ConvertAbort(p) PROVE TypeOK'
  BY <1>14 DEF ConvertAbort, Batch, table, downloadCols, convertCols
<1>15. CASE UNCHANGED vars
  BY <1>15 DEF vars, table, downloadCols, convertCols, runVars, history
<1> QED
  BY <1>1, <1>2, <1>3, <1>4, <1>5, <1>6, <1>7, <1>8, <1>9, <1>10, <1>11,
     <1>12, <1>13, <1>14, <1>15
     DEF Next, ConvertStart, ConvertStep

\* The table, the queues and the run state are well typed in every state,
\* for every set of ids and processes and every bound.
THEOREM TypeCorrect == Spec => []TypeOK
<1> QED
  BY TypeInit, TypeStep, PTL DEF Spec

-----------------------------------------------------------------------------
(***************************************************************************)
(* The attempt counters.                                                   *)
(***************************************************************************)

\* Subsets of a finite set of processes are finite, and no larger.
LEMMA ProcessCount ==
  /\ \A P \in SUBSET Downloaders :
       /\ IsFiniteSet(P) /\ Cardinality(P) \in Nat
       /\ Cardinality(P) <= Cardinality(Downloaders)
  /\ \A P \in SUBSET Converters :
       /\ IsFiniteSet(P) /\ Cardinality(P) \in Nat
       /\ Cardinality(P) <= Cardinality(Converters)
  /\ Cardinality(Downloaders) \in Nat
  /\ Cardinality(Converters) \in Nat
  BY ProcessAssumption, FS_Subset, FS_CardinalityType

\* Only a snapshot, an outcome, an abort and a reset touch the download
\* counters or the snapshots; each preserves the bound.
LEMMA DownloadAttemptsStep ==
  TypeOK /\ DownloadAttemptsInv /\ [Next]_vars => DownloadAttemptsInv'
<1> SUFFICES ASSUME TypeOK, DownloadAttemptsInv, [Next]_vars, NEW i \in Ids
             PROVE  /\ download_attempts'[i] + Cardinality({p \in Downloaders : i \in work'[p]})
                         <= MaxDownloadAttempts - 1 + Cardinality(Downloaders)
                    /\ is_downloaded'[i] = 0 => download_attempts'[i] = 0
  BY DEF DownloadAttemptsInv
<1> DEFINE Held(q) == {p \in Downloaders : i \in q[p]}
           old == Cardinality(Held(work))
           new == Cardinality(Held(work'))
           all == Cardinality(Downloaders)
           a == download_attempts[i]
           b == download_attempts'[i]
           Allowed == \/ b <= MaxDownloadAttempts - 1
                      \/ b <= a /\ new <= old
                      \/ b <= a + 1 /\ new = old - 1
           Good == Allowed /\ (is_downloaded'[i] = 0 => b = 0)
<1>a. /\ Held(work) \in SUBSET Downloaders /\ Held(work') \in SUBSET Downloaders
      /\ IsFiniteSet(Held(work)) /\ old \in Nat
      /\ new \in Nat /\ new <= all /\ all \in Nat
  BY ProcessCount
<1>b. /\ a \in Nat /\ a + old <= MaxDownloadAttempts - 1 + all
      /\ is_downloaded[i] = 0 => a = 0
  BY DEF DownloadAttemptsInv, TypeOK, Counts
<1>c. MaxDownloadAttempts \in Nat \ {0}
  BY BoundAssumption
<1> USE DEF TypeOK
<1>1. ASSUME UNCHANGED <<downloadCols, work>> PROVE Good
  <2>1. b = a /\ new = old /\ is_downloaded' = is_downloaded
    BY <1>1 DEF downloadCols
  <2> HIDE DEF old, new, a, b
  <2> QED
    BY <2>1, <1>a, <1>b
<1>2. ASSUME NEW p \in Downloaders, ResetDownloadErrors(p) PROVE Good
  <2>1. new = old
    BY <1>2 DEF ResetDownloadErrors
  <2>2. b = 0 \/ (b = a /\ is_downloaded'[i] = is_downloaded[i])
    BY <1>2 DEF ResetDownloadErrors
  <2> HIDE DEF old, new, a, b
  <2> QED
    BY <2>1, <2>2, <1>a, <1>b
<1>3. ASSUME NEW p \in Downloaders, DownloadStart(p) PROVE Good
  <2>1. PICK ids \in SUBSET Undownloaded : TakeSnapshot(p, ids)
    BY <1>3, FirstNSubset DEF DownloadStart, DownloadAll, DownloadLimited
  <2>2. /\ work[p] = {} /\ work' = [work EXCEPT ![p] = ids]
        /\ b = a /\ is_downloaded' = is_downloaded
    BY <2>1 DEF TakeSnapshot, table, downloadCols
  <2>3. CASE i \in ids
    <3>1. \/ is_downloaded[i] = 0
          \/ is_downloaded[i] = -1 /\ a < MaxDownloadAttempts
      BY <2>3 DEF Undownloaded
    <3> HIDE DEF old, new, a, b
    <3> QED
      BY <3>1, <2>2, <1>b, <1>c
  <2>4. CASE i \notin ids
    <3>1. Held(work') = Held(work)
      BY <2>2, <2>4
    <3>2. new = old
      BY <3>1
    <3> HIDE DEF old, new, a, b
    <3> QED
      BY <3>2, <2>2, <1>a, <1>b
  <2> QED
    BY <2>3, <2>4
<1>4. ASSUME NEW p \in Downloaders, DownloadStep(p) PROVE Good
  <2>1. PICK id \in Ids, ok \in BOOLEAN : RecordOutcome(p, id, ok)
    BY <1>4 DEF DownloadStep
  <2>2. id \in work[p] /\ work' = [work EXCEPT ![p] = @ \ {id}]
    BY <2>1, FirstNSubset DEF RecordOutcome, InFlight
  <2>3. MarkDownloaded(id) \/ MarkDownloadError(id)
    BY <2>1 DEF RecordOutcome
  <2>4. CASE i = id
    <3>1. Held(work') = Held(work) \ {p} /\ p \in Held(work)
      BY <2>2, <2>4
    <3>2. new = old - 1
      <4>1. \A S : IsFiniteSet(S) /\ p \in S => Cardinality(S \ {p}) = Cardinality(S) - 1
        BY FS_RemoveElement
      <4> QED
        BY <3>1, <1>a, <4>1
    <3>3. b \in {a, a + 1} /\ is_downloaded'[i] # 0
      BY <2>3, <2>4 DEF MarkDownloaded, MarkDownloadError, Columns, Counts
    <3> HIDE DEF old, new, a, b
    <3> QED
      BY <3>2, <3>3, <1>a, <1>b
  <2>5. CASE i # id
    <3>1. Held(work') = Held(work)
      BY <2>2, <2>5
    <3>2. new = old
      BY <3>1
    <3>3. b = a /\ is_downloaded'[i] = is_downloaded[i]
      BY <2>3, <2>5 DEF MarkDownloaded, MarkDownloadError, Columns, Counts
    <3> HIDE DEF old, new, a, b
    <3> QED
      BY <3>2, <3>3, <1>a, <1>b
  <2> QED
    BY <2>4, <2>5
<1>5. ASSUME NEW p \in Downloaders, DownloadAbort(p) PROVE Good
  <2>1. work' = [work EXCEPT ![p] = {}] /\ b = a /\ is_downloaded' = is_downloaded
    BY <1>5 DEF DownloadAbort, table, downloadCols
  <2>2. Held(work') \in SUBSET Held(work)
    BY <2>1
  <2>3. new <= old
    <3> HIDE DEF Held
    <3> QED BY <2>2, <1>a, FS_Subset
  <2> HIDE DEF old, new, a, b
  <2> QED
    BY <2>1, <2>3, <1>a, <1>b
<1>6. ASSUME NEW p \in Converters,
             ResetConvertErrors(p) \/ ConvertStart(p) \/ ConvertStep(p) \/ ConvertAbort(p)
      PROVE  UNCHANGED <<downloadCols, work>>
  BY <1>6 DEF ResetConvertErrors, ConvertStart, ConvertAll, ConvertLimited,
     ConvertStep, NextPage, NoMorePages, WriteGame, FailGame, MarkRow, ConvertAbort, table
<1>7. ASSUME NEW id \in Ids, InsertLogId(id)
      PROVE  UNCHANGED <<downloadCols, work>>
  BY <1>7 DEF InsertLogId
<1>8. UNCHANGED vars => UNCHANGED <<downloadCols, work>>
  BY DEF vars, table
<1>9. Good
  <2> HIDE DEF Good, TypeOK
  <2> QED
    BY <1>1, <1>2, <1>3, <1>4, <1>5, <1>6, <1>7, <1>8 DEF Next
<1> HIDE DEF old, new, a, b
<1>10. b + new <= MaxDownloadAttempts - 1 + all /\ (is_downloaded'[i] = 0 => b = 0)
  <2>1. b \in Nat
    BY TypeStep DEF b, Counts
  <2> QED
    BY <1>9, <1>a, <1>b, <1>c, <2>1
<1> QED
  BY <1>10 DEF old, new, a, b

\* The same for the convert counters: only a page, its marks, an abort and a
\* reset touch them.
LEMMA ConvertAttemptsStep ==
  TypeOK /\ ConvertAttemptsInv /\ [Next]_vars => ConvertAttemptsInv'
<1> SUFFICES ASSUME TypeOK, ConvertAttemptsInv, [Next]_vars, NEW i \in Ids
             PROVE  /\ convert_attempts'[i] + Cardinality({p \in Converters : i \in page'[p]})
                         <= MaxConvertAttempts - 1 + Cardinality(Converters)
                    /\ is_converted'[i] = 0 => convert_attempts'[i] = 0
  BY DEF ConvertAttemptsInv
<1> DEFINE Held(q) == {p \in Converters : i \in q[p]}
           old == Cardinality(Held(page))
           new == Cardinality(Held(page'))
           all == Cardinality(Converters)
           a == convert_attempts[i]
           b == convert_attempts'[i]
           Allowed == \/ b <= MaxConvertAttempts - 1
                      \/ b <= a /\ new <= old
                      \/ b <= a + 1 /\ new = old - 1
           Good == Allowed /\ (is_converted'[i] = 0 => b = 0)
<1>a. /\ Held(page) \in SUBSET Converters /\ Held(page') \in SUBSET Converters
      /\ IsFiniteSet(Held(page)) /\ old \in Nat
      /\ new \in Nat /\ new <= all /\ all \in Nat
  BY ProcessCount
<1>b. /\ a \in Nat /\ a + old <= MaxConvertAttempts - 1 + all
      /\ is_converted[i] = 0 => a = 0
  BY DEF ConvertAttemptsInv, TypeOK, Counts
<1>c. MaxConvertAttempts \in Nat \ {0}
  BY BoundAssumption
<1> USE DEF TypeOK
<1>1. ASSUME UNCHANGED <<convertCols, page>> PROVE Good
  <2>1. b = a /\ new = old /\ is_converted' = is_converted
    BY <1>1 DEF convertCols
  <2> HIDE DEF old, new, a, b
  <2> QED
    BY <2>1, <1>a, <1>b
<1>2. ASSUME NEW p \in Converters, ResetConvertErrors(p) PROVE Good
  <2>1. new = old
    BY <1>2 DEF ResetConvertErrors, runVars
  <2>2. b = 0 \/ (b = a /\ is_converted'[i] = is_converted[i])
    BY <1>2 DEF ResetConvertErrors
  <2> HIDE DEF old, new, a, b
  <2> QED
    BY <2>1, <2>2, <1>a, <1>b
\* a new page is taken from the queue, by a run that has none
<1>3. ASSUME NEW p \in Converters, NEW ids \in SUBSET Unconverted,
             page[p] = {}, page' = [page EXCEPT ![p] = ids], UNCHANGED convertCols
      PROVE  Good
  <2>1. b = a /\ is_converted' = is_converted
    BY <1>3 DEF convertCols
  <2>2. CASE i \in ids
    <3>1. \/ is_converted[i] = 0
          \/ is_converted[i] = -1 /\ a < MaxConvertAttempts
      BY <2>2 DEF Unconverted
    <3> HIDE DEF old, new, a, b
    <3> QED
      BY <3>1, <2>1, <1>b, <1>c
  <2>3. CASE i \notin ids
    <3>1. Held(page') = Held(page)
      BY <1>3, <2>3
    <3>2. new = old
      BY <3>1
    <3> HIDE DEF old, new, a, b
    <3> QED
      BY <3>2, <2>1, <1>a, <1>b
  <2> QED
    BY <2>2, <2>3
<1>4. ASSUME NEW p \in Converters, ConvertStart(p) PROVE Good
  <2>1. CASE ConvertAll(p)
    BY <2>1, <1>1 DEF ConvertAll, table
  <2>2. ASSUME NEW n \in Limits, ConvertLimited(p, n) PROVE Good
    <3>1. page[p] = {}
      BY <2>2 DEF ConvertLimited
    <3>2. FirstN(Unconverted, n) \in SUBSET Unconverted
      BY FirstNSubset
    <3>3. page' = [page EXCEPT ![p] = FirstN(Unconverted, n)] /\ UNCHANGED convertCols
      BY <2>2 DEF ConvertLimited, Batch, table
    <3> HIDE DEF Good, TypeOK
    <3> QED
      BY <3>1, <3>2, <3>3, <1>3
  <2> QED
    BY <1>4, <2>1, <2>2 DEF ConvertStart
<1>5. ASSUME NEW p \in Converters, NextPage(p) PROVE Good
  <2> DEFINE ids == FirstN(UnconvertedAfter(cursor[p]), PageSize)
  <2>1. page[p] = {}
    BY <1>5 DEF NextPage
  <2>2. ids \in SUBSET Unconverted
    BY FirstNSubset, QueuesKnown
  <2>3. page' = [page EXCEPT ![p] = ids] /\ UNCHANGED convertCols
    BY <1>5 DEF NextPage, Batch, table
  <2> HIDE DEF Good, TypeOK, ids
  <2> QED
    BY <2>1, <2>2, <2>3, <1>3
<1>6. ASSUME NEW p \in Converters, NEW id \in Ids, MarkRow(p, id) PROVE Good
  <2>1. id \in page[p] /\ page' = [page EXCEPT ![p] = @ \ {id}]
    BY <1>6 DEF MarkRow, IsFirst
  <2>2. MarkConverted(id) \/ MarkConvertError(id) \/ UNCHANGED convertCols
    BY <1>6 DEF MarkRow
  <2>3. CASE i = id
    <3>1. Held(page') = Held(page) \ {p} /\ p \in Held(page)
      BY <2>1, <2>3
    <3>2. new = old - 1
      <4>1. \A S : IsFiniteSet(S) /\ p \in S => Cardinality(S \ {p}) = Cardinality(S) - 1
        BY FS_RemoveElement
      <4> QED
        BY <3>1, <1>a, <4>1
    <3>3. \/ b \in {a, a + 1} /\ is_converted'[i] # 0
          \/ b = a /\ is_converted'[i] = is_converted[i]
      BY <2>2, <2>3 DEF MarkConverted, MarkConvertError, convertCols, Columns, Counts
    <3> HIDE DEF old, new, a, b
    <3> QED
      BY <3>2, <3>3, <1>a, <1>b
  <2>4. CASE i # id
    <3>1. Held(page') = Held(page)
      BY <2>1, <2>4
    <3>2. new = old
      BY <3>1
    <3>3. b = a /\ is_converted'[i] = is_converted[i]
      BY <2>2, <2>4 DEF MarkConverted, MarkConvertError, convertCols, Columns, Counts
    <3> HIDE DEF old, new, a, b
    <3> QED
      BY <3>2, <3>3, <1>a, <1>b
  <2> QED
    BY <2>3, <2>4
<1>7. ASSUME NEW p \in Converters, ConvertAbort(p) PROVE Good
  <2>1. page' = [page EXCEPT ![p] = {}] /\ b = a /\ is_converted' = is_converted
    BY <1>7 DEF ConvertAbort, Batch, table, convertCols
  <2>2. Held(page') \in SUBSET Held(page)
    BY <2>1
  <2>3. new <= old
    <3>1. \A S : IsFiniteSet(S) => \A T \in SUBSET S : Cardinality(T) <= Cardinality(S)
      BY FS_Subset
    <3> QED
      BY <2>2, <1>a, <3>1
  <2> HIDE DEF old, new, a, b
  <2> QED
    BY <2>1, <2>3, <1>a, <1>b
<1>8. ASSUME NEW p \in Converters, NEW id \in Ids,
             NoMorePages(p) \/ WriteGame(p, id) \/ FailGame(p, id)
      PROVE  UNCHANGED <<convertCols, page>>
  BY <1>8 DEF NoMorePages, WriteGame, FailGame, table
<1>9. ASSUME NEW p \in Converters, ConvertStep(p) PROVE Good
  <2> HIDE DEF Good, TypeOK
  <2>1. CASE NoMorePages(p)
    BY <2>1, <1>1 DEF NoMorePages, table
  <2> QED
    BY <1>9, <2>1, <1>1, <1>5, <1>6, <1>8 DEF ConvertStep
<1>10. ASSUME NEW p \in Downloaders,
              ResetDownloadErrors(p) \/ DownloadStart(p) \/ DownloadStep(p) \/ DownloadAbort(p)
       PROVE  UNCHANGED <<convertCols, page>>
  BY <1>10 DEF ResetDownloadErrors, DownloadStart, DownloadAll, DownloadLimited,
     TakeSnapshot, DownloadStep, RecordOutcome, DownloadAbort, table, runVars
<1>11. ASSUME NEW id \in Ids, InsertLogId(id)
       PROVE  UNCHANGED <<convertCols, page>>
  BY <1>11 DEF InsertLogId, runVars
<1>12. UNCHANGED vars => UNCHANGED <<convertCols, page>>
  BY DEF vars, table, runVars
<1>13. Good
  <2> HIDE DEF Good, TypeOK
  <2> QED
    BY <1>1, <1>2, <1>4, <1>7, <1>9, <1>10, <1>11, <1>12 DEF Next
<1> HIDE DEF old, new, a, b
<1>14. b + new <= MaxConvertAttempts - 1 + all /\ (is_converted'[i] = 0 => b = 0)
  <2>1. b \in Nat
    BY TypeStep DEF b, Counts
  <2> QED
    BY <1>13, <1>a, <1>b, <1>c, <2>1
<1> QED
  BY <1>14 DEF old, new, a, b

\* Nothing has been tried in the initial state.
LEMMA AttemptsInit == Init => DownloadAttemptsInv /\ ConvertAttemptsInv
<1> SUFFICES ASSUME Init PROVE DownloadAttemptsInv /\ ConvertAttemptsInv
  OBVIOUS
<1>1. \A i \in Ids : /\ {p \in Downloaders : i \in work[p]} = {}
                     /\ {p \in Converters : i \in page[p]} = {}
  BY DEF Init
<1>2. Cardinality({}) = 0
  BY FS_EmptySet
<1>3. \A i \in Ids : /\ download_attempts[i] = 0
                     /\ convert_attempts[i] = 0
  BY DEF Init
<1>4. 0 + 0 <= MaxDownloadAttempts - 1 + Cardinality(Downloaders)
  BY BoundAssumption, ProcessCount
<1>5. 0 + 0 <= MaxConvertAttempts - 1 + Cardinality(Converters)
  BY BoundAssumption, ProcessCount
<1> QED
  BY <1>1, <1>2, <1>3, <1>4, <1>5 DEF DownloadAttemptsInv, ConvertAttemptsInv

\* However many invocations overlap, and whatever is reset, aborted or
\* crashes: a row is downloaded (converted) unsuccessfully at most
\* MaxDownloadAttempts (MaxConvertAttempts) times since its last reset, plus
\* once for each further invocation.
THEOREM QuarantineHolds == Spec => []AttemptsBounded
<1>1. TypeOK /\ DownloadAttemptsInv /\ ConvertAttemptsInv => AttemptsBounded
  <2> SUFFICES ASSUME TypeOK, DownloadAttemptsInv, ConvertAttemptsInv, NEW i \in Ids
               PROVE  /\ download_attempts[i] <= MaxDownloadAttempts - 1 + Cardinality(Downloaders)
                      /\ convert_attempts[i] <= MaxConvertAttempts - 1 + Cardinality(Converters)
    BY DEF AttemptsBounded
  <2> DEFINE D == {p \in Downloaders : i \in work[p]}
             C == {p \in Converters : i \in page[p]}
             md == Cardinality(Downloaders)
             mc == Cardinality(Converters)
  <2>1. Cardinality(D) \in Nat /\ Cardinality(C) \in Nat
    BY ProcessCount
  <2>2. /\ download_attempts[i] + Cardinality(D) <= MaxDownloadAttempts - 1 + Cardinality(Downloaders)
        /\ convert_attempts[i] + Cardinality(C) <= MaxConvertAttempts - 1 + Cardinality(Converters)
    BY DEF DownloadAttemptsInv, ConvertAttemptsInv
  <2>3. download_attempts[i] \in Nat /\ convert_attempts[i] \in Nat
    BY DEF TypeOK, Counts
  <2>4. md \in Nat /\ mc \in Nat /\ MaxDownloadAttempts \in Nat /\ MaxConvertAttempts \in Nat
    BY BoundAssumption, ProcessCount
  <2> HIDE DEF D, C
  <2>5. download_attempts[i] <= MaxDownloadAttempts - 1 + md
    BY <2>1, <2>2, <2>3, <2>4
  <2>6. convert_attempts[i] <= MaxConvertAttempts - 1 + mc
    BY <2>1, <2>2, <2>3, <2>4
  <2> QED
    BY <2>5, <2>6
<1> QED
  BY <1>1, TypeCorrect, AttemptsInit, DownloadAttemptsStep, ConvertAttemptsStep, PTL
     DEF Spec

-----------------------------------------------------------------------------
(***************************************************************************)
(* One download and one convert process: ownership of the rows.            *)
(***************************************************************************)

\* Nothing is owned, written or converted in the initial state.
LEMMA OwnershipInit == Init => OwnershipInv
  BY DEF Init, OwnershipInv, SnapshotPending, PagePending, WrittenPresent,
         ConvertedComplete, RowsFresh

\* Steps of fetch and download leave the files and the convert run alone, and
\* complete only rows of their own snapshot.
LEMMA OwnershipDownload ==
  ASSUME TypeOK, OwnershipInv, OneAtATime,
         \/ \E id \in Ids : InsertLogId(id)
         \/ \E p \in Downloaders :
              ResetDownloadErrors(p) \/ DownloadStart(p) \/ DownloadStep(p) \/ DownloadAbort(p)
  PROVE  OwnershipInv'
<1> USE DEF TypeOK, OwnershipInv
<1>1. ASSUME NEW id \in Ids, InsertLogId(id) PROVE OwnershipInv'
  BY <1>1 DEF InsertLogId, downloadCols, convertCols, runVars, SnapshotPending,
     PagePending, WrittenPresent, ConvertedComplete, RowsFresh, FilesOf
<1>2. ASSUME NEW p \in Downloaders, ResetDownloadErrors(p) PROVE OwnershipInv'
  <2>1. /\ \A id \in Ids : is_downloaded'[id] = 1 <=> is_downloaded[id] = 1
        /\ \A id \in Ids : is_downloaded[id] = 0 => is_downloaded'[id] = 0
    BY <1>2 DEF ResetDownloadErrors
  <2>2. UNCHANGED <<known, is_converted, files, work, page, written, failed>>
    BY <1>2 DEF ResetDownloadErrors, convertCols, runVars
  <2> QED
    BY <2>1, <2>2 DEF SnapshotPending, PagePending, WrittenPresent,
       ConvertedComplete, RowsFresh, FilesOf
<1>3. ASSUME NEW p \in Downloaders, DownloadStart(p) PROVE OwnershipInv'
  <2>1. PICK ids \in SUBSET Undownloaded : TakeSnapshot(p, ids)
    BY <1>3, FirstNSubset DEF DownloadStart, DownloadAll, DownloadLimited
  <2>2. UNCHANGED <<known, is_downloaded, is_converted, files, page, written, failed>>
    BY <2>1 DEF TakeSnapshot, table, downloadCols, convertCols, runVars
  <2>3. SnapshotPending'
    BY <2>1, <2>2 DEF TakeSnapshot, SnapshotPending, Undownloaded
  <2> QED
    BY <2>2, <2>3 DEF PagePending, WrittenPresent, ConvertedComplete, RowsFresh, FilesOf
<1>4. ASSUME NEW p \in Downloaders, DownloadStep(p) PROVE OwnershipInv'
  <2>1. PICK id \in Ids, ok \in BOOLEAN : RecordOutcome(p, id, ok)
    BY <1>4 DEF DownloadStep
  <2>2. /\ id \in work[p] /\ work' = [work EXCEPT ![p] = @ \ {id}]
        /\ UNCHANGED <<known, is_converted, files, page, written, failed>>
    BY <2>1, FirstNSubset DEF RecordOutcome, InFlight, convertCols, runVars
  <2>3. /\ is_downloaded[id] # 1
        /\ \A q \in Downloaders : q = p
    BY <2>2 DEF SnapshotPending, OneAtATime, OneConverter
  <2>4. \A i \in Ids : i # id => is_downloaded'[i] = is_downloaded[i]
    BY <2>1 DEF RecordOutcome, MarkDownloaded, MarkDownloadError, Columns
  <2>5. SnapshotPending'
    BY <2>2, <2>3, <2>4 DEF SnapshotPending
  <2>6. PagePending'
    BY <2>2, <2>3, <2>4 DEF PagePending
  <2> QED
    BY <2>2, <2>3, <2>4, <2>5, <2>6 DEF WrittenPresent, ConvertedComplete, RowsFresh, FilesOf
<1>5. ASSUME NEW p \in Downloaders, DownloadAbort(p) PROVE OwnershipInv'
  BY <1>5 DEF DownloadAbort, table, downloadCols, convertCols, runVars, SnapshotPending,
     PagePending, WrittenPresent, ConvertedComplete, RowsFresh, FilesOf
<1> QED
  BY <1>1, <1>2, <1>3, <1>4, <1>5

\* Steps of convert change only rows of their own page, and no download
\* columns.
LEMMA OwnershipConvert ==
  ASSUME TypeOK, TypeOK', OwnershipInv, OneAtATime,
         NEW p \in Converters,
         ResetConvertErrors(p) \/ ConvertStart(p) \/ ConvertStep(p) \/ ConvertAbort(p)
  PROVE  OwnershipInv'
<1> USE BoundAssumption DEF TypeOK, OwnershipInv
<1>1. CASE ResetConvertErrors(p)
  <2>1. /\ \A id \in Ids : is_converted'[id] = 1 <=> is_converted[id] = 1
        /\ \A id \in Ids : is_converted[id] = 0 => is_converted'[id] = 0
    BY <1>1 DEF ResetConvertErrors
  <2>2. UNCHANGED <<known, is_downloaded, files, work, page, written, failed>>
    BY <1>1 DEF ResetConvertErrors, downloadCols, runVars
  <2> QED
    BY <2>1, <2>2 DEF SnapshotPending, PagePending, WrittenPresent,
       ConvertedComplete, RowsFresh, FilesOf
\* a new page is taken from the queue
<1>2. ASSUME NEW ids \in SUBSET Unconverted, Batch(p, ids),
             UNCHANGED <<table, files, work>>
      PROVE  OwnershipInv'
  <2>1. UNCHANGED <<known, is_downloaded, is_converted, files, work>>
    BY <1>2 DEF table, downloadCols, convertCols
  <2>2. PagePending'
    BY <1>2, <2>1 DEF PagePending, Batch, Unconverted
  <2>3. WrittenPresent'
    <3> SUFFICES ASSUME NEW q \in Converters, NEW i \in page'[q] \ failed'[q],
                        NEW g \in 1..written'[q][i]
                 PROVE  <<i, g>> \in files
      BY <2>1 DEF WrittenPresent
    <3>1. i \in Ids
      BY <2>1
    <3>2. CASE q = p
      <4>1. written'[q][i] = 0
        BY <1>2, <3>1, <3>2 DEF Batch
      <4> QED
        BY <4>1
    <3>3. CASE q # p
      BY <1>2, <3>3 DEF WrittenPresent, Batch
    <3> QED
      BY <3>2, <3>3
  <2> QED
    BY <2>1, <2>2, <2>3 DEF SnapshotPending, ConvertedComplete, RowsFresh, FilesOf
<1>3. ASSUME NEW n \in Limits, ConvertLimited(p, n) PROVE OwnershipInv'
  BY <1>2, <1>3, FirstNSubset DEF ConvertLimited
<1>4. CASE NextPage(p)
  <2> DEFINE ids == FirstN(UnconvertedAfter(cursor[p]), PageSize)
  <2>1. ids \in SUBSET Unconverted
    BY FirstNSubset, QueuesKnown
  <2>2. Batch(p, ids) /\ UNCHANGED <<table, files, work>>
    BY <1>4 DEF NextPage
  <2> HIDE DEF ids
  <2> QED
    BY <2>1, <2>2, <1>2
<1>5. CASE ConvertAbort(p)
  BY <1>2, <1>5 DEF ConvertAbort
<1>6. CASE ConvertAll(p) \/ NoMorePages(p)
  <2>1. UNCHANGED <<known, is_downloaded, is_converted, files, work, page, written, failed>>
    BY <1>6 DEF ConvertAll, NoMorePages, table, downloadCols, convertCols
  <2> QED
    BY <2>1 DEF SnapshotPending, PagePending, WrittenPresent, ConvertedComplete, RowsFresh, FilesOf
<1>7. ASSUME NEW id \in Ids, WriteGame(p, id) PROVE OwnershipInv'
  <2>1. /\ UNCHANGED <<known, is_downloaded, is_converted, work, page, failed>>
        /\ files' = files \cup {<<id, written[p][id] + 1>>}
        /\ written' = [written EXCEPT ![p][id] = @ + 1]
    BY <1>7 DEF WriteGame, table, downloadCols, convertCols
  <2>2. WrittenPresent'
    <3> SUFFICES ASSUME NEW q \in Converters, NEW i \in page[q] \ failed[q],
                        NEW g \in 1..written'[q][i]
                 PROVE  <<i, g>> \in files'
      BY <2>1 DEF WrittenPresent
    <3>1. i \in Ids /\ written[q][i] \in Nat
      BY DEF Counts
    <3>2. CASE g \in 1..written[q][i]
      BY <3>2, <2>1 DEF WrittenPresent
    <3>3. CASE g \notin 1..written[q][i]
      <4>1. q = p /\ i = id /\ g = written[p][id] + 1
        BY <3>1, <3>3, <2>1 DEF Counts
      <4> QED
        BY <4>1, <2>1
    <3> QED
      BY <3>2, <3>3
  <2> QED
    BY <2>1, <2>2 DEF SnapshotPending, PagePending, ConvertedComplete, RowsFresh, FilesOf
<1>8. ASSUME NEW id \in Ids, FailGame(p, id) PROVE OwnershipInv'
  <2>1. /\ UNCHANGED <<known, is_downloaded, is_converted, work, page, written>>
        /\ failed' = [failed EXCEPT ![p] = @ \cup {id}]
        /\ id \in page[p]
    BY <1>8 DEF FailGame, Unresolved, table, downloadCols, convertCols
  <2>2. \A i \in Ids : i # id => \A g : <<i, g>> \in files => <<i, g>> \in files'
    BY <1>8 DEF FailGame
  <2>3. WrittenPresent'
    <3> SUFFICES ASSUME NEW q \in Converters, NEW i \in page[q] \ failed'[q],
                        NEW g \in 1..written[q][i]
                 PROVE  <<i, g>> \in files'
      BY <2>1 DEF WrittenPresent
    <3>1. q = p /\ i # id /\ i \in page[q] \ failed[q] /\ i \in Ids
      BY <2>1 DEF OneAtATime, OneConverter
    <3> QED
      BY <3>1, <2>2 DEF WrittenPresent
  <2>4. ConvertedComplete'
    <3> SUFFICES ASSUME NEW i \in Ids, is_converted[i] = 1
                 PROVE  is_downloaded[i] = 1 /\ FilesOf(i) \subseteq files'
      BY <2>1 DEF ConvertedComplete, FilesOf
    <3>1. i # id
      BY <2>1 DEF PagePending
    <3> QED
      BY <3>1, <2>2 DEF ConvertedComplete, FilesOf
  <2> QED
    BY <2>1, <2>3, <2>4 DEF SnapshotPending, PagePending, RowsFresh
<1>9. ASSUME NEW id \in Ids, MarkRow(p, id) PROVE OwnershipInv'
  <2>1. /\ id \in page[p] /\ Unresolved(p) = {}
        /\ page' = [page EXCEPT ![p] = @ \ {id}]
        /\ UNCHANGED <<known, is_downloaded, files, work, written, failed>>
    BY <1>9 DEF MarkRow, IsFirst, downloadCols
  <2>2. \A q \in Converters : q = p
    BY DEF OneAtATime, OneConverter
  <2>3. /\ \A i \in Ids : i # id => is_converted'[i] = is_converted[i]
        /\ is_converted'[id] = 1 => id \notin failed[p]
    <3>1. is_converted[id] # 1
      BY <2>1 DEF PagePending
    <3> QED
      BY <1>9, <3>1 DEF MarkRow, MarkConverted, MarkConvertError, convertCols, Columns
  <2>4. id \notin failed[p] => FilesOf(id) \subseteq files
    <3> SUFFICES ASSUME id \notin failed[p], NEW g \in 1..Games[id]
                 PROVE  <<id, g>> \in files
      BY DEF FilesOf
    <3>1. written[p][id] \in Nat /\ ~(written[p][id] < Games[id]) /\ Games[id] \in Nat
      BY <2>1 DEF Unresolved, Counts
    <3>2. g \in 1..written[p][id]
      BY <3>1
    <3> QED
      BY <2>1, <3>2 DEF WrittenPresent
  <2>5. is_downloaded[id] = 1 /\ id \in known
    BY <2>1 DEF PagePending
  <2>6. PagePending'
    BY <2>1, <2>2, <2>3 DEF PagePending
  <2>7. WrittenPresent'
    BY <2>1, <2>2 DEF WrittenPresent
  <2>8. ConvertedComplete'
    BY <2>1, <2>3, <2>4, <2>5 DEF ConvertedComplete, FilesOf
  <2>9. RowsFresh'
    BY <2>1, <2>3, <2>5 DEF RowsFresh
  <2> QED
    BY <2>1, <2>6, <2>7, <2>8, <2>9 DEF SnapshotPending
<1> QED
  BY <1>1, <1>3, <1>4, <1>5, <1>6, <1>7, <1>8, <1>9 DEF ConvertStart, ConvertStep

\* Ownership is preserved by every step.
LEMMA OwnershipStep ==
  TypeOK /\ OwnershipInv /\ OneAtATime /\ [Next]_vars => OwnershipInv'
<1> SUFFICES ASSUME TypeOK, OwnershipInv, OneAtATime, [Next]_vars
             PROVE  OwnershipInv'
  OBVIOUS
<1>1. CASE UNCHANGED vars
  BY <1>1 DEF vars, table, downloadCols, convertCols, runVars, OwnershipInv,
     SnapshotPending, PagePending, WrittenPresent, ConvertedComplete, RowsFresh, FilesOf
<1>2. CASE Next
  BY <1>2, TypeStep, OwnershipDownload, OwnershipConvert DEF Next
<1> QED
  BY <1>1, <1>2

\* With one download and one convert process at a time no row needs a lock:
\* what an invocation read of a row is still true when it marks the row, and
\* a converted row has its payload and every one of its files, whatever
\* crashes, fails or is reset.
THEOREM RowsOwned == ASSUME OneAtATime PROVE Spec => []OwnershipInv
<1> QED
  BY TypeCorrect, OwnershipInit, OwnershipStep, PTL DEF Spec

-----------------------------------------------------------------------------
(***************************************************************************)
(* The implementation of LogLifecycle.  Under the refinement mapping       *)
(* inserting a row is List, recording a successful download is Store, a    *)
(* file written or withdrawn is Output or a stutter, and marking a row     *)
(* converted is Finish; all other steps stutter.                           *)
(***************************************************************************)

phaseMap    == [id \in Ids |-> PhaseOf(id)]
completeMap == {id \in Ids : FilesOf(id) \subseteq files}

\* A row whose columns keep the values PhaseOf looks at keeps its phase.
LEMMA SamePhase ==
  ASSUME TypeOK,
         NEW id \in Ids,
         id \in known' <=> id \in known,
         is_downloaded'[id] = 1 <=> is_downloaded[id] = 1,
         is_converted'[id] = 1 <=> is_converted[id] = 1
  PROVE  PhaseOf(id)' = PhaseOf(id)
  BY DEF PhaseOf

\* A step that leaves the existence, the payload and the conversion of every
\* row alone, and the files, is a stutter of LogLifecycle.
LEMMA LifecycleStutter ==
  ASSUME TypeOK,
         UNCHANGED <<known, files>>,
         \A id \in Ids : is_downloaded'[id] = 1 <=> is_downloaded[id] = 1,
         \A id \in Ids : is_converted'[id] = 1 <=> is_converted[id] = 1
  PROVE  UNCHANGED <<phaseMap, completeMap>>
  BY SamePhase DEF phaseMap, completeMap, FilesOf

\* The empty table maps to the abstract initial state.
LEMMA LifecycleInit == Init => Lifecycle!Init
<1> SUFFICES ASSUME Init PROVE Lifecycle!Init
  OBVIOUS
<1>1. phaseMap = [id \in Ids |-> "unknown"]
  BY DEF Init, phaseMap, PhaseOf
<1>2. completeMap = {}
  <2>1. ASSUME NEW id \in Ids PROVE <<id, 1>> \in FilesOf(id)
    <3>1. 1 \in 1..Games[id]
      BY BoundAssumption
    <3> QED
      BY <3>1 DEF FilesOf
  <2> QED
    BY <2>1 DEF Init, completeMap
<1> QED
  BY <1>1, <1>2 DEF Lifecycle!Init, phaseMap, completeMap

\* Every step of fetch, download, convert, a reset or an aborted process maps
\* to a step of LogLifecycle or to a stutter.
LEMMA LifecycleStep ==
  ASSUME TypeOK, OwnershipInv, OneAtATime, [Next]_vars
  PROVE  [Lifecycle!Next]_<<phaseMap, completeMap>>
<1> USE DEF TypeOK, OwnershipInv
<1> DEFINE Good == [Lifecycle!Next]_<<phaseMap, completeMap>>
<1>1. CASE UNCHANGED vars
  BY <1>1, LifecycleStutter DEF vars, table, downloadCols, convertCols
<1>2. ASSUME NEW id \in Ids, InsertLogId(id) PROVE Good
  <2>1. /\ id \notin known /\ known' = known \cup {id}
        /\ UNCHANGED <<is_downloaded, is_converted, files>>
    BY <1>2 DEF InsertLogId, downloadCols, convertCols
  <2>2. PhaseOf(id) = "unknown" /\ PhaseOf(id)' = "wanted"
    BY <2>1 DEF PhaseOf, RowsFresh
  <2>3. \A i \in Ids : i # id => PhaseOf(i)' = PhaseOf(i)
    BY <2>1, SamePhase
  <2>4. completeMap' = completeMap
    BY <2>1 DEF completeMap, FilesOf
  <2>5. phaseMap' = [phaseMap EXCEPT ![id] = "wanted"]
    BY <2>2, <2>3 DEF phaseMap
  <2> QED
    BY <2>2, <2>4, <2>5 DEF phaseMap, completeMap, Lifecycle!Next, Lifecycle!List, Lifecycle!Advance
<1>3. ASSUME NEW p \in Downloaders, ResetDownloadErrors(p) PROVE Good
  <2>1. /\ UNCHANGED <<known, is_converted, files>>
        /\ \A id \in Ids : is_downloaded'[id] = 1 <=> is_downloaded[id] = 1
    BY <1>3 DEF ResetDownloadErrors, convertCols
  <2> QED
    BY <2>1, LifecycleStutter
<1>4. ASSUME NEW p \in Downloaders, DownloadStart(p) \/ DownloadAbort(p) PROVE Good
  <2>1. UNCHANGED <<known, is_downloaded, is_converted, files>>
    BY <1>4 DEF DownloadStart, DownloadAll, DownloadLimited, TakeSnapshot, DownloadAbort,
       table, downloadCols, convertCols
  <2> QED
    BY <2>1, LifecycleStutter
<1>5. ASSUME NEW p \in Downloaders, DownloadStep(p) PROVE Good
  <2>1. PICK id \in Ids, ok \in BOOLEAN : RecordOutcome(p, id, ok)
    BY <1>5 DEF DownloadStep
  <2>2. id \in work[p] /\ UNCHANGED <<known, is_converted, files>>
    BY <2>1, FirstNSubset DEF RecordOutcome, InFlight, convertCols
  <2>3. is_downloaded[id] # 1 /\ id \in known
    BY <2>2 DEF SnapshotPending
  <2>4. CASE ok
    <3>1. is_downloaded' = [is_downloaded EXCEPT ![id] = 1]
      BY <2>1, <2>4 DEF RecordOutcome, MarkDownloaded
    <3>2. is_converted[id] # 1
      BY <2>3 DEF ConvertedComplete
    <3>3. PhaseOf(id) = "wanted" /\ PhaseOf(id)' = "stored"
      BY <2>2, <2>3, <3>1, <3>2 DEF PhaseOf, Columns
    <3>4. \A i \in Ids : i # id => PhaseOf(i)' = PhaseOf(i)
      BY <2>2, <3>1, SamePhase DEF Columns
    <3>5. completeMap' = completeMap
      BY <2>2 DEF completeMap, FilesOf
    <3>6. phaseMap' = [phaseMap EXCEPT ![id] = "stored"]
      BY <3>3, <3>4 DEF phaseMap
    <3> QED
      BY <3>3, <3>5, <3>6 DEF phaseMap, completeMap, Lifecycle!Next, Lifecycle!Store, Lifecycle!Advance
  <2>5. CASE ~ok
    <3>1. is_downloaded' = [is_downloaded EXCEPT ![id] = -1]
      BY <2>1, <2>5 DEF RecordOutcome, MarkDownloadError
    <3>2. \A i \in Ids : is_downloaded'[i] = 1 <=> is_downloaded[i] = 1
      BY <3>1, <2>3 DEF Columns
    <3> QED
      BY <2>2, <3>2, LifecycleStutter
  <2> QED
    BY <2>4, <2>5
<1>6. ASSUME NEW p \in Converters, ResetConvertErrors(p) PROVE Good
  <2>1. /\ UNCHANGED <<known, is_downloaded, files>>
        /\ \A id \in Ids : is_converted'[id] = 1 <=> is_converted[id] = 1
    BY <1>6 DEF ResetConvertErrors, downloadCols
  <2> QED
    BY <2>1, LifecycleStutter
<1>7. ASSUME NEW p \in Converters,
             ConvertStart(p) \/ NextPage(p) \/ NoMorePages(p) \/ ConvertAbort(p)
      PROVE  Good
  <2>1. UNCHANGED <<known, is_downloaded, is_converted, files>>
    BY <1>7 DEF ConvertStart, ConvertAll, ConvertLimited, NextPage, NoMorePages, ConvertAbort,
       table, downloadCols, convertCols
  <2> QED
    BY <2>1, LifecycleStutter
\* only the files of one row of the page change
<1>8. ASSUME NEW p \in Converters, NEW id \in page[p],
             UNCHANGED table,
             \A i \in Ids : \A g : i # id => (<<i, g>> \in files' <=> <<i, g>> \in files)
      PROVE  Good
  <2>1. UNCHANGED <<known, is_downloaded, is_converted>>
    BY <1>8 DEF table, downloadCols, convertCols
  <2>2. phaseMap' = phaseMap
    BY <2>1, SamePhase DEF phaseMap
  <2>3. id \in Ids /\ PhaseOf(id) = "stored"
    BY DEF PagePending, PhaseOf
  <2>4. \A i \in Ids : i # id => (i \in completeMap' <=> i \in completeMap)
    BY <1>8 DEF completeMap, FilesOf
  <2>5. completeMap' \in {completeMap \cup {id}, completeMap \ {id}}
    <3>1. completeMap' \subseteq Ids /\ completeMap \subseteq Ids
      BY DEF completeMap
    <3>2. CASE id \in completeMap'
      BY <2>3, <2>4, <3>1, <3>2
    <3>3. CASE id \notin completeMap'
      BY <2>3, <2>4, <3>1, <3>3
    <3> QED
      BY <3>2, <3>3
  <2> QED
    BY <2>2, <2>3, <2>5 DEF phaseMap, completeMap, Lifecycle!Next, Lifecycle!Output
<1>9. ASSUME NEW p \in Converters, NEW id \in Ids, WriteGame(p, id) \/ FailGame(p, id)
      PROVE  Good
  <2>1. id \in page[p] /\ UNCHANGED table
    BY <1>9 DEF WriteGame, FailGame, Unresolved
  <2>2. \A i \in Ids : \A g : i # id => (<<i, g>> \in files' <=> <<i, g>> \in files)
    <3>1. CASE WriteGame(p, id)
      BY <3>1 DEF WriteGame
    <3>2. CASE FailGame(p, id)
      <4>1. PICK left : files' = files \ ({<<id, g>> : g \in 1..written[p][id]} \ left)
        BY <3>2 DEF FailGame
      <4> QED
        BY <4>1
    <3> QED
      BY <1>9, <3>1, <3>2
  <2> QED
    BY <2>1, <2>2, <1>8
<1>10. ASSUME NEW p \in Converters, NEW id \in Ids, MarkRow(p, id) PROVE Good
  <2>1. /\ id \in page[p] /\ Unresolved(p) = {}
        /\ UNCHANGED <<known, is_downloaded, files>>
    BY <1>10 DEF MarkRow, IsFirst, downloadCols
  <2>2. /\ id \in known /\ is_downloaded[id] = 1 /\ is_converted[id] # 1
        /\ is_converted \in [Ids -> {-1, 0, 1}]
    BY <2>1 DEF PagePending, Columns
  <2>3. \/ id \notin failed[p] /\ is_converted' = [is_converted EXCEPT ![id] = 1]
        \/ is_converted' = [is_converted EXCEPT ![id] = -1]
        \/ UNCHANGED is_converted
    BY <1>10 DEF MarkRow, MarkConverted, MarkConvertError, convertCols
  <2>4. CASE id \notin failed[p] /\ is_converted' = [is_converted EXCEPT ![id] = 1]
    <3>1. FilesOf(id) \subseteq files
      <4> SUFFICES ASSUME NEW g \in 1..Games[id] PROVE <<id, g>> \in files
        BY DEF FilesOf
      <4>1. written[p][id] \in Nat /\ ~(written[p][id] < Games[id]) /\ Games[id] \in Nat
        BY <2>1, <2>4, BoundAssumption DEF Unresolved, Counts
      <4>2. g \in 1..written[p][id]
        BY <4>1
      <4> QED
        BY <2>1, <2>4, <4>2 DEF WrittenPresent
    <3>2. PhaseOf(id) = "stored" /\ PhaseOf(id)' = "converted"
      BY <2>1, <2>2, <2>4 DEF PhaseOf
    <3>3. \A i \in Ids : i # id => PhaseOf(i)' = PhaseOf(i)
      BY <2>1, <2>2, <2>4, SamePhase
    <3>4. completeMap' = completeMap /\ id \in completeMap
      BY <2>1, <3>1 DEF completeMap, FilesOf
    <3>5. phaseMap' = [phaseMap EXCEPT ![id] = "converted"]
      BY <3>2, <3>3 DEF phaseMap
    <3> QED
      BY <3>2, <3>4, <3>5 DEF phaseMap, completeMap, Lifecycle!Next, Lifecycle!Finish, Lifecycle!Advance
  <2>5. CASE is_converted' = [is_converted EXCEPT ![id] = -1] \/ UNCHANGED is_converted
    <3>1. \A i \in Ids : is_converted'[i] = 1 <=> is_converted[i] = 1
      BY <2>2, <2>5
    <3> QED
      BY <2>1, <3>1, LifecycleStutter
  <2> QED
    BY <2>3, <2>4, <2>5
<1> HIDE DEF Good
<1>11. ASSUME Next PROVE Good
  BY <1>11, <1>2, <1>3, <1>4, <1>5, <1>6, <1>7, <1>9, <1>10 DEF Next, ConvertStart, ConvertStep
<1>12. Good
  BY <1>1, <1>11 DEF Good
<1> QED
  BY <1>12 DEF Good

\* With one download and one convert process at a time, the table and the
\* output directory implement LogLifecycle: nothing that happens to the
\* processes takes a payload or a conversion back, or shows a log converted
\* whose files are not all there.
THEOREM PipelineImplementsLifecycle ==
  ASSUME OneAtATime PROVE Spec => ImplementsLifecycle
<1>1. Init => Lifecycle!Init
  BY LifecycleInit
<1>2. TypeOK /\ OwnershipInv /\ [Next]_vars => [Lifecycle!Next]_<<phaseMap, completeMap>>
  BY LifecycleStep
<1> QED
  BY <1>1, <1>2, TypeCorrect, RowsOwned, PTL
     DEF Spec, ImplementsLifecycle, Lifecycle!Spec, phaseMap, completeMap

-----------------------------------------------------------------------------
(***************************************************************************)
(* The cursor.                                                             *)
(***************************************************************************)

\* The ids a run still means to page through lie after its cursor, and all it
\* has tried lie before it.
TriedInv ==
  \A p \in Converters :
    stage[p] = "paging" \/ (stage[p] = "batch" /\ ~last[p])
      => \A id \in tried[p] : id <= cursor[p]

\* What of its queue a run has not tried yet is still in the queue, after the
\* cursor; a last page leaves nothing; and the page in progress counts as
\* tried.
CoverInv ==
  \A p \in Converters :
    stage[p] # "idle" =>
      /\ \A id \in queued[p] \ tried[p] : id \in UnconvertedAfter(cursor[p])
      /\ stage[p] = "batch" /\ last[p] => queued[p] \subseteq tried[p]
      /\ page[p] \subseteq tried[p]

\* The rows of a page are still to be converted.
PageUnconverted ==
  \A p \in Converters : \A id \in page[p] : is_converted[id] # 1

\* Without a kill or a failed removal or mark, every file of a row that is not
\* converted was written by the run that is converting it.
PartialInv ==
  ~untidy =>
    \A id \in Ids, g \in Nat :
      is_converted[id] # 1 /\ <<id, g>> \in files =>
        \E p \in Converters : id \in page[p] \ failed[p] /\ g \in 1..written[p][id]

-----------------------------------------------------------------------------
(***************************************************************************)
(* What a step can do to a convert run.                                    *)
(***************************************************************************)

\* Steps of fetch, of download, of a reset and of an abort.
OtherStep ==
  \/ \E id \in Ids : InsertLogId(id)
  \/ \E p \in Downloaders :
       ResetDownloadErrors(p) \/ DownloadStart(p) \/ DownloadStep(p) \/ DownloadAbort(p)
  \/ \E p \in Converters : ResetConvertErrors(p)

\* No other command touches a convert run.
LEMMA OtherStepsLeaveRuns ==
  ASSUME OtherStep \/ UNCHANGED vars
  PROVE  UNCHANGED <<runVars, history>>
  BY DEF OtherStep, vars, InsertLogId, ResetDownloadErrors, DownloadStart, DownloadAll,
     DownloadLimited, TakeSnapshot, DownloadStep, RecordOutcome, DownloadAbort,
     ResetConvertErrors

\* The rest of Next are the steps of a convert run.
LEMMA StepKinds ==
  ASSUME [Next]_vars
  PROVE  \/ OtherStep \/ UNCHANGED vars
         \/ \E p \in Converters : ConvertStart(p) \/ ConvertStep(p) \/ ConvertAbort(p)
  BY DEF Next, OtherStep

\* The pages of convert: a page comes whole from the queue after the cursor,
\* the cursor moves to its last id, and what it leaves of the queue lies after
\* the new cursor.
LEMMA NextPageCursor ==
  ASSUME TypeOK, NEW p \in Converters, NextPage(p)
  PROVE  LET ids == FirstN(UnconvertedAfter(cursor[p]), PageSize) IN
         /\ stage[p] = "paging" /\ stage' = [stage EXCEPT ![p] = "batch"]
         /\ page' = [page EXCEPT ![p] = ids]
         /\ tried' = [tried EXCEPT ![p] = @ \cup ids]
         /\ UNCHANGED <<table, files, work, queued>>
         /\ \A q \in Converters \ {p} : cursor'[q] = cursor[q] /\ last'[q] = last[q]
         /\ cursor'[p] > cursor[p]
         /\ \A id \in ids : id > cursor[p] /\ id <= cursor'[p]
         /\ UnconvertedAfter(cursor[p]) \ ids \subseteq UnconvertedAfter(cursor'[p])
         /\ last'[p] => ids = UnconvertedAfter(cursor[p])
<1> DEFINE rest == UnconvertedAfter(cursor[p])
           ids  == FirstN(rest, PageSize)
<1>1. /\ stage[p] = "paging" /\ stage' = [stage EXCEPT ![p] = "batch"]
      /\ page' = [page EXCEPT ![p] = ids]
      /\ tried' = [tried EXCEPT ![p] = @ \cup ids]
      /\ last' = [last EXCEPT ![p] = ShortPage(ids)]
      /\ UNCHANGED <<table, files, work, queued>>
  BY DEF NextPage, Batch
<1>2. PICK top \in ids : IsLast(top, ids) /\ cursor' = [cursor EXCEPT ![p] = top]
  BY DEF NextPage
<1>3. /\ rest \subseteq Ids /\ rest \subseteq Unconverted /\ cursor[p] \in Nat
      /\ \A id \in rest : id > cursor[p]
  BY QueuesKnown DEF UnconvertedAfter, TypeOK
<1>4. rest \in SUBSET Nat /\ IsFiniteSet(rest) /\ PageSize \in Nat
  BY <1>3, IdsAssumption, BoundAssumption, FS_Subset
<1> HIDE DEF rest
<1>5. ids \subseteq rest
  BY FirstNSubset
<1>6. \A x \in ids, y \in rest \ ids : x < y
  BY <1>4, FirstNBefore
<1>7. Cardinality(ids) < PageSize => ids = rest
  BY <1>4, FirstNShort
<1> HIDE DEF ids
<1>8. /\ cursor'[p] = top
      /\ \A q \in Converters \ {p} : cursor'[q] = cursor[q] /\ last'[q] = last[q]
      /\ last'[p] = ShortPage(ids)
  BY <1>1, <1>2 DEF TypeOK
<1>9. /\ cursor'[p] > cursor[p]
      /\ \A id \in ids : id > cursor[p] /\ id <= cursor'[p]
  BY <1>2, <1>3, <1>5, <1>8 DEF IsLast
<1>10. rest \ ids \subseteq UnconvertedAfter(cursor'[p])
  <2> SUFFICES ASSUME NEW y \in rest \ ids PROVE y \in Unconverted /\ y > top
    BY <1>8 DEF UnconvertedAfter
  <2>1. top < y /\ top \in Nat /\ y \in Nat
    BY <1>2, <1>4, <1>5, <1>6
  <2> QED
    BY <1>3, <2>1
<1>11. last'[p] => ids = rest
  BY <1>7, <1>8 DEF ShortPage
<1> QED
  BY <1>1, <1>8, <1>9, <1>10, <1>11 DEF rest, ids

-----------------------------------------------------------------------------
(***************************************************************************)
(* No id is tried twice.                                                   *)
(***************************************************************************)

\* Every step keeps the cursor behind the ids to come and ahead of those done.
LEMMA TriedStep == TypeOK /\ TriedInv /\ [Next]_vars => TriedInv'
<1> SUFFICES ASSUME TypeOK, TriedInv, [Next]_vars PROVE TriedInv'
  OBVIOUS
<1>1. CASE OtherStep \/ UNCHANGED vars
  BY <1>1, OtherStepsLeaveRuns DEF TriedInv, runVars, history
<1>2. ASSUME NEW p \in Converters, ConvertAll(p) PROVE TriedInv'
  BY <1>2 DEF ConvertAll, TriedInv, TypeOK
<1>3. ASSUME NEW p \in Converters, NEW n \in Limits, ConvertLimited(p, n)
      PROVE  TriedInv'
  BY <1>3 DEF ConvertLimited, TriedInv, TypeOK
<1>4. ASSUME NEW p \in Converters, NextPage(p) PROVE TriedInv'
  <2> DEFINE ids == FirstN(UnconvertedAfter(cursor[p]), PageSize)
  <2> SUFFICES ASSUME NEW q \in Converters,
                      stage'[q] = "paging" \/ (stage'[q] = "batch" /\ ~last'[q]),
                      NEW id \in tried'[q]
               PROVE  id <= cursor'[q]
    BY DEF TriedInv
  <2>1. /\ stage[p] = "paging" /\ stage' = [stage EXCEPT ![p] = "batch"]
        /\ tried' = [tried EXCEPT ![p] = @ \cup ids]
        /\ \A r \in Converters \ {p} : cursor'[r] = cursor[r] /\ last'[r] = last[r]
        /\ cursor'[p] > cursor[p]
        /\ \A i \in ids : i <= cursor'[p]
    BY <1>4, NextPageCursor
  <2>2. cursor[p] \in Nat /\ cursor'[p] \in Nat /\ tried[p] \subseteq Nat
    BY TypeStep, IdsAssumption DEF TypeOK
  <2> HIDE DEF ids
  <2>3. CASE q = p /\ id \in tried[p]
    BY <2>1, <2>2, <2>3 DEF TriedInv
  <2>4. CASE q = p /\ id \in ids
    BY <2>1, <2>4
  <2>5. CASE q # p
    BY <2>1, <2>5 DEF TriedInv, TypeOK
  <2> QED
    BY <2>1, <2>3, <2>4, <2>5 DEF TypeOK
<1>5. ASSUME NEW p \in Converters, NoMorePages(p) PROVE TriedInv'
  BY <1>5 DEF NoMorePages, TriedInv, TypeOK, history
<1>6. ASSUME NEW p \in Converters, NEW id \in Ids, WriteGame(p, id) \/ FailGame(p, id)
      PROVE  TriedInv'
  BY <1>6 DEF WriteGame, FailGame, TriedInv, history
<1>7. ASSUME NEW p \in Converters, NEW id \in Ids, MarkRow(p, id) PROVE TriedInv'
  BY <1>7 DEF MarkRow, AfterPage, TriedInv, TypeOK, history
<1>8. ASSUME NEW p \in Converters, ConvertAbort(p) PROVE TriedInv'
  BY <1>8 DEF ConvertAbort, TriedInv, TypeOK
<1> QED
  BY <1>1, <1>2, <1>3, <1>4, <1>5, <1>6, <1>7, <1>8, StepKinds
     DEF ConvertStart, ConvertStep

\* A page holds only ids after the cursor, so none the run has tried.
LEMMA PagesAreNew ==
  ASSUME TypeOK, TriedInv, [Next]_vars, NEW p \in Converters,
         stage[p] = "paging", stage'[p] = "batch"
  PROVE  page'[p] \cap tried[p] = {}
<1>1. NextPage(p)
  <2>1. ~(OtherStep \/ UNCHANGED vars)
    BY OtherStepsLeaveRuns DEF runVars
  <2>2. PICK q \in Converters : ConvertStart(q) \/ ConvertStep(q) \/ ConvertAbort(q)
    BY <2>1, StepKinds
  <2>3. q = p
    <3>1. \E s : stage' = [stage EXCEPT ![q] = s]
      BY <2>2 DEF ConvertStart, ConvertAll, ConvertLimited, ConvertStep, NextPage,
         NoMorePages, WriteGame, FailGame, MarkRow, ConvertAbort, TypeOK
    <3> QED
      BY <3>1 DEF TypeOK
  <2> QED
    BY <2>2, <2>3 DEF ConvertStart, ConvertAll, ConvertLimited, ConvertStep, NoMorePages,
       WriteGame, FailGame, MarkRow, ConvertAbort, TypeOK
<1> DEFINE ids == FirstN(UnconvertedAfter(cursor[p]), PageSize)
<1>2. page'[p] = ids /\ \A id \in ids : id > cursor[p]
  BY <1>1, NextPageCursor DEF TypeOK
<1>3. \A id \in tried[p] : id <= cursor[p]
  BY DEF TriedInv
<1>4. cursor[p] \in Nat /\ tried[p] \subseteq Nat
  BY IdsAssumption DEF TypeOK
<1> HIDE DEF ids
<1> QED
  BY <1>2, <1>3, <1>4

\* However many convert runs overlap, no run puts an id on two of its pages:
\* what fails is left to the next invocation.
THEOREM NothingIsTriedTwice == Spec => TriedOnce
<1>1. Init => TriedInv
  BY DEF Init, TriedInv
<1>2. TypeOK /\ TriedInv /\ [Next]_vars =>
        [\A p \in Converters :
           stage[p] = "paging" /\ stage'[p] = "batch" => page'[p] \cap tried[p] = {}]_vars
  BY PagesAreNew
<1> QED
  BY <1>1, <1>2, TriedStep, TypeCorrect, PTL DEF Spec, TriedOnce

-----------------------------------------------------------------------------
(***************************************************************************)
(* The whole queue is visited.                                             *)
(***************************************************************************)

\* While one download process at a time works on rows without a payload, and
\* one convert process at a time marks the rows of its page, no other row
\* leaves the conversion queue.
LEMMA QueueKept ==
  ASSUME TypeOK, OwnershipInv, OneAtATime, [Next]_vars, NEW p \in Converters,
         stage[p] # "idle",
         NEW id \in Unconverted, id \notin page[p]
  PROVE  id \in Unconverted'
<1> USE DEF TypeOK
<1>1. /\ id \in known /\ id \in Ids /\ is_downloaded[id] = 1 /\ xml_data[id]
      /\ \/ is_converted[id] = 0
         \/ is_converted[id] = -1 /\ convert_attempts[id] < MaxConvertAttempts
  BY DEF Unconverted
<1>2. CASE UNCHANGED <<table>>
  BY <1>2 DEF Unconverted, table, downloadCols, convertCols
<1>3. ASSUME NEW i \in Ids, InsertLogId(i) PROVE id \in Unconverted'
  BY <1>1, <1>3 DEF InsertLogId, Unconverted, downloadCols, convertCols
<1>4. ASSUME NEW d \in Downloaders, ResetDownloadErrors(d) PROVE id \in Unconverted'
  <2>1. is_downloaded'[id] = 1 /\ UNCHANGED <<known, xml_data, is_converted, convert_attempts>>
    BY <1>1, <1>4 DEF ResetDownloadErrors, convertCols
  <2> QED
    BY <1>1, <2>1 DEF Unconverted
<1>5. ASSUME NEW d \in Downloaders, DownloadStep(d) PROVE id \in Unconverted'
  <2>1. PICK i \in Ids, ok \in BOOLEAN : RecordOutcome(d, i, ok)
    BY <1>5 DEF DownloadStep
  <2>2. i \in work[d] /\ UNCHANGED <<known, is_converted, convert_attempts>>
    BY <2>1, FirstNSubset DEF RecordOutcome, InFlight, convertCols
  <2>3. i # id
    BY <1>1, <2>2 DEF OwnershipInv, SnapshotPending
  <2>4. is_downloaded'[id] = 1 /\ xml_data'[id]
    BY <1>1, <2>1, <2>3 DEF RecordOutcome, MarkDownloaded, MarkDownloadError, Columns
  <2> QED
    BY <1>1, <2>2, <2>4 DEF Unconverted
<1>6. ASSUME NEW q \in Converters, ResetConvertErrors(q) PROVE id \in Unconverted'
  BY <1>6 DEF ResetConvertErrors, OneAtATime, OneConverter
<1>7. ASSUME NEW q \in Converters, NEW i \in Ids, MarkRow(q, i) PROVE id \in Unconverted'
  <2>1. i # id
    BY <1>7 DEF MarkRow, IsFirst, OneAtATime, OneConverter
  <2>2. UNCHANGED <<known, is_downloaded, xml_data>>
    BY <1>7 DEF MarkRow, downloadCols
  <2>3. is_converted'[id] = is_converted[id] /\ convert_attempts'[id] = convert_attempts[id]
    BY <1>1, <1>7, <2>1 DEF MarkRow, MarkConverted, MarkConvertError, convertCols, Columns, Counts
  <2> QED
    BY <1>1, <2>2, <2>3 DEF Unconverted
<1>8. ASSUME NEW d \in Downloaders, DownloadStart(d) \/ DownloadAbort(d) PROVE UNCHANGED table
  BY <1>8 DEF DownloadStart, DownloadAll, DownloadLimited, TakeSnapshot, DownloadAbort
<1>9. ASSUME NEW q \in Converters,
             \/ ConvertStart(q) \/ NextPage(q) \/ NoMorePages(q) \/ ConvertAbort(q)
             \/ \E i \in Ids : WriteGame(q, i) \/ FailGame(q, i)
      PROVE  UNCHANGED table
  BY <1>9 DEF ConvertStart, ConvertAll, ConvertLimited, NextPage, NoMorePages, ConvertAbort,
     WriteGame, FailGame
<1>10. UNCHANGED vars => UNCHANGED table
  BY DEF vars
<1> QED
  BY <1>2, <1>3, <1>4, <1>5, <1>6, <1>7, <1>8, <1>9, <1>10 DEF Next, ConvertStep

\* Every step keeps what a run has not tried in its queue and after its
\* cursor.
LEMMA CoverStep ==
  ASSUME TypeOK, TypeOK', OwnershipInv, OneAtATime, CoverInv, [Next]_vars
  PROVE  CoverInv'
<1> DEFINE Waiting(p) == \A id \in queued[p] \ tried[p] : id \in UnconvertedAfter(cursor[p])
           LastPage(p) == stage[p] = "batch" /\ last[p] => queued[p] \subseteq tried[p]
           Covers(p)   == Waiting(p) /\ LastPage(p) /\ page[p] \subseteq tried[p]
<1> SUFFICES ASSUME NEW p \in Converters, stage'[p] # "idle"
             PROVE  Covers(p)'
  BY DEF CoverInv
<1>a. \A q \in Converters : q = p
  BY DEF OneAtATime, OneConverter
<1>b. stage[p] # "idle" => Covers(p)
  BY DEF CoverInv
\* steps within a run that take no new page
<1>1. ASSUME stage[p] # "idle", UNCHANGED <<cursor, last, history>>,
             stage'[p] = "batch" => stage[p] = "batch",
             page'[p] \subseteq page[p]
      PROVE  Covers(p)'
  <2>1. UNCHANGED <<queued, tried>>
    BY <1>1 DEF history
  <2>2. ASSUME NEW id \in queued[p] \ tried[p] PROVE id \in UnconvertedAfter(cursor[p])'
    <3>1. id \in Unconverted /\ id > cursor[p] /\ id \notin page[p]
      BY <1>1, <1>b, <2>2 DEF UnconvertedAfter
    <3>2. id \in Unconverted'
      BY <1>1, <3>1, QueueKept
    <3> QED
      BY <1>1, <3>1, <3>2 DEF UnconvertedAfter
  <2> QED
    BY <1>1, <1>b, <2>1, <2>2
<1>2. CASE OtherStep \/ UNCHANGED vars
  <2>1. UNCHANGED <<stage, page, cursor, last, history>>
    BY <1>2, OtherStepsLeaveRuns DEF runVars
  <2> QED
    BY <1>1, <2>1
<1>3. CASE ConvertAll(p)
  <2>1. /\ stage'[p] = "paging" /\ cursor'[p] = 0 /\ page'[p] = {}
        /\ queued'[p] = Unconverted
        /\ UNCHANGED table
    BY <1>3 DEF ConvertAll, TypeOK
  <2>2. Unconverted' = Unconverted
    BY <2>1 DEF Unconverted, table, downloadCols, convertCols
  <2>3. \A id \in Unconverted : id > 0
    BY QueuesKnown, IdsAssumption DEF TypeOK
  <2> QED
    BY <2>1, <2>2, <2>3 DEF UnconvertedAfter
<1>4. ASSUME NEW n \in Limits, ConvertLimited(p, n) PROVE Covers(p)'
  <2> DEFINE ids == FirstN(Unconverted, n)
  <2>1. page'[p] = ids /\ queued'[p] = ids /\ tried'[p] = ids
    BY <1>4 DEF ConvertLimited, Batch, TypeOK
  <2> HIDE DEF ids
  <2> QED
    BY <2>1
<1>5. CASE NextPage(p)
  <2> DEFINE rest == UnconvertedAfter(cursor[p])
             ids  == FirstN(rest, PageSize)
  <2>1. /\ stage[p] = "paging"
        /\ page' = [page EXCEPT ![p] = ids]
        /\ tried' = [tried EXCEPT ![p] = @ \cup ids]
        /\ UNCHANGED <<table, queued>>
        /\ rest \ ids \subseteq UnconvertedAfter(cursor'[p])
        /\ last'[p] => ids = rest
    BY <1>5, NextPageCursor
  <2>2. page'[p] = ids /\ tried'[p] = tried[p] \cup ids /\ queued' = queued
    BY <2>1 DEF TypeOK
  <2>3. UnconvertedAfter(cursor[p])' = UnconvertedAfter(cursor'[p])
    BY <2>1 DEF UnconvertedAfter, Unconverted, table, downloadCols, convertCols
  <2>4. queued[p] \ tried[p] \subseteq rest
    BY <1>b, <2>1
  <2> HIDE DEF ids, rest
  <2>5. Waiting(p)'
    BY <2>1, <2>2, <2>3, <2>4
  <2>6. LastPage(p)'
    BY <2>1, <2>2, <2>4
  <2> QED
    BY <2>2, <2>5, <2>6
<1>6. CASE NoMorePages(p)
  BY <1>6 DEF NoMorePages, TypeOK
<1>7. ASSUME NEW id \in Ids, WriteGame(p, id) \/ FailGame(p, id) PROVE Covers(p)'
  BY <1>1, <1>7 DEF WriteGame, FailGame
<1>8. ASSUME NEW id \in Ids, MarkRow(p, id) PROVE Covers(p)'
  BY <1>1, <1>8 DEF MarkRow, TypeOK
<1>9. CASE ConvertAbort(p)
  BY <1>9 DEF ConvertAbort, TypeOK
<1> HIDE DEF Covers
<1> QED
  BY <1>a, <1>2, <1>3, <1>4, <1>5, <1>6, <1>7, <1>8, <1>9, StepKinds
     DEF ConvertStart, ConvertStep

\* A run ends by itself on an empty query, or on the last row of a last page.
LEMMA EndsCovered ==
  ASSUME TypeOK, CoverInv, OneAtATime, [Next]_vars, NEW p \in Converters,
         stage[p] # "idle", stage'[p] = "idle", queued'[p] = queued[p]
  PROVE  queued[p] \subseteq tried[p]
<1>1. ~(OtherStep \/ UNCHANGED vars)
  BY OtherStepsLeaveRuns DEF runVars
<1>2. ConvertStart(p) \/ ConvertStep(p) \/ ConvertAbort(p)
  BY <1>1, StepKinds DEF OneAtATime, OneConverter
<1>3. CASE NoMorePages(p)
  BY <1>3 DEF NoMorePages, CoverInv
<1>4. ASSUME NEW id \in Ids, MarkRow(p, id) PROVE queued[p] \subseteq tried[p]
  <2>1. stage[p] = "batch" /\ last[p]
    BY <1>4 DEF MarkRow, AfterPage, TypeOK
  <2> QED
    BY <2>1 DEF CoverInv
<1>5. CASE ConvertAbort(p)
  BY <1>5 DEF ConvertAbort, TypeOK
<1>6. CASE ConvertStart(p) \/ NextPage(p) \/ \E id \in Ids : WriteGame(p, id) \/ FailGame(p, id)
  BY <1>6 DEF ConvertStart, ConvertAll, ConvertLimited, NextPage, WriteGame, FailGame, TypeOK
<1> QED
  BY <1>2, <1>3, <1>4, <1>5, <1>6 DEF ConvertStep

\* A convert run that ends by itself has put every id on a page that was in
\* the queue when it began, whatever fetch and download did meanwhile, with
\* one download and one convert process at a time.
THEOREM QueueIsVisited == ASSUME OneAtATime PROVE Spec => QueueCovered
<1>1. Init => CoverInv
  BY DEF Init, CoverInv
<1>2. TypeOK /\ TypeOK' /\ OwnershipInv /\ CoverInv /\ [Next]_vars => CoverInv'
  BY CoverStep
<1>3. TypeOK /\ CoverInv /\ [Next]_vars =>
        [\A p \in Converters :
           stage[p] # "idle" /\ stage'[p] = "idle" /\ queued'[p] = queued[p]
             => queued[p] \subseteq tried[p]]_vars
  BY EndsCovered
<1> QED
  BY <1>1, <1>2, <1>3, TypeCorrect, RowsOwned, PTL DEF Spec, QueueCovered

-----------------------------------------------------------------------------
(***************************************************************************)
(* A log is all-or-nothing.                                                *)
(***************************************************************************)

\* While one convert process at a time runs, the rows of its page are not
\* converted, whatever downloads, inserts and resets do to them.
LEMMA PageUnconvertedStep ==
  ASSUME TypeOK, TypeOK', OneConverter, PageUnconverted, [Next]_vars
  PROVE  PageUnconverted'
<1> SUFFICES ASSUME NEW p \in Converters, NEW i \in page'[p] PROVE is_converted'[i] # 1
  BY DEF PageUnconverted
<1>a. i \in Ids
  BY DEF TypeOK
<1>b. \A q \in Converters : q = p
  BY DEF OneConverter
<1>1. ASSUME i \in page[p], is_converted' = is_converted PROVE is_converted'[i] # 1
  BY <1>1 DEF PageUnconverted
<1>2. CASE OtherStep \/ UNCHANGED vars
  <2>1. i \in page[p]
    BY <1>2, OtherStepsLeaveRuns DEF runVars
  <2>2. is_converted' = is_converted \/ \E q \in Converters : ResetConvertErrors(q)
    BY <1>2 DEF OtherStep, InsertLogId, ResetDownloadErrors, DownloadStart, DownloadAll,
       DownloadLimited, TakeSnapshot, DownloadStep, RecordOutcome, DownloadAbort,
       table, convertCols, vars
  <2>3. ASSUME NEW q \in Converters, ResetConvertErrors(q) PROVE is_converted'[i] # 1
    BY <1>a, <2>1, <2>3 DEF ResetConvertErrors, PageUnconverted
  <2> QED
    BY <1>1, <2>1, <2>2, <2>3
<1>3. CASE ConvertStart(p) \/ NextPage(p)
  <2>1. is_converted' = is_converted /\ page'[p] \subseteq Unconverted \cup page[p]
    BY <1>3, FirstNSubset DEF ConvertStart, ConvertAll, ConvertLimited, NextPage, Batch, TypeOK,
       UnconvertedAfter, table, convertCols
  <2>2. \A j \in Unconverted : is_converted[j] # 1
    BY DEF Unconverted
  <2> QED
    BY <1>1, <2>1, <2>2
<1>4. ASSUME NEW id \in Ids, MarkRow(p, id) PROVE is_converted'[i] # 1
  <2>1. i \in page[p] /\ i # id
    BY <1>4 DEF MarkRow, TypeOK
  <2>2. is_converted[i] # 1
    BY <2>1 DEF PageUnconverted
  <2> QED
    BY <1>4, <1>a, <2>1, <2>2 DEF MarkRow, MarkConverted, MarkConvertError, convertCols, TypeOK, Columns
<1>5. CASE \/ NoMorePages(p) \/ ConvertAbort(p)
           \/ \E id \in Ids : WriteGame(p, id) \/ FailGame(p, id)
  <2>1. is_converted' = is_converted /\ page'[p] \subseteq page[p]
    BY <1>5 DEF NoMorePages, ConvertAbort, WriteGame, FailGame, table, convertCols, TypeOK
  <2> QED
    BY <1>1, <2>1
<1> QED
  BY <1>2, <1>3, <1>4, <1>5, <1>b, StepKinds DEF ConvertStep

\* Every step that kills nothing, and whose removal or mark succeeds, leaves
\* files of unconverted rows only to the run that is converting them.
LEMMA PartialStep ==
  ASSUME TypeOK, TypeOK', PageUnconverted, OneConverter, PartialInv, [HistoryNext]_<<vars, untidy>>
  PROVE  PartialInv'
<1> DEFINE Mine(i, g) == \E p \in Converters : i \in page[p] \ failed[p] /\ g \in 1..written[p][i]
<1> SUFFICES ASSUME ~untidy', NEW i \in Ids, NEW g \in Nat,
                    is_converted'[i] # 1, <<i, g>> \in files'
             PROVE  Mine(i, g)'
  BY DEF PartialInv
<1>a. /\ ~untidy /\ [Next]_vars
      /\ HistoryNext => \A q \in Converters : ~ConvertAbort(q) /\ ~Unmarked(q) /\ ~LeftBehind(q)
      /\ HistoryNext \/ UNCHANGED vars
  <2>1. HistoryNext \/ (UNCHANGED vars /\ UNCHANGED untidy)
    OBVIOUS
  <2>2. ASSUME HistoryNext
        PROVE  /\ Next /\ ~untidy
               /\ \A q \in Converters : ~ConvertAbort(q) /\ ~Unmarked(q) /\ ~LeftBehind(q)
    <3>1. /\ Next
          /\ ~(untidy \/ \E q \in Converters : ConvertAbort(q) \/ Unmarked(q) \/ LeftBehind(q))
      BY <2>2 DEF HistoryNext
    <3> QED
      BY <3>1
  <2> QED
    BY <2>1, <2>2
<1>b. is_converted[i] # 1 /\ <<i, g>> \in files => Mine(i, g)
  BY <1>a DEF PartialInv
<1>c. \A p, q \in Converters : p = q
  BY DEF OneConverter
<1>1. CASE UNCHANGED vars
  BY <1>1, <1>b DEF vars, table, convertCols, runVars
<1>2. CASE OtherStep
  <2>1. UNCHANGED <<page, failed, written>>
    BY <1>2, OtherStepsLeaveRuns DEF runVars
  <2>2. files' = files
    BY <1>2 DEF OtherStep, InsertLogId, ResetDownloadErrors, DownloadStart, DownloadAll,
       DownloadLimited, TakeSnapshot, DownloadStep, RecordOutcome, DownloadAbort,
       ResetConvertErrors
  <2>3. is_converted[i] # 1
    <3>1. is_converted' = is_converted \/ \E p \in Converters : ResetConvertErrors(p)
      BY <1>2 DEF OtherStep, InsertLogId, ResetDownloadErrors, DownloadStart, DownloadAll,
         DownloadLimited, TakeSnapshot, DownloadStep, RecordOutcome, DownloadAbort,
         table, convertCols
    <3>2. ASSUME NEW p \in Converters, ResetConvertErrors(p) PROVE is_converted[i] # 1
      BY <3>2 DEF ResetConvertErrors
    <3> QED
      BY <3>1, <3>2
  <2> QED
    BY <1>b, <2>1, <2>2, <2>3
\* a run that is not in a batch has nothing unfinished
<1>3. ASSUME NEW p \in Converters, stage[p] # "batch", UNCHANGED <<table, files>>
      PROVE  Mine(i, g)'
  <2>1. \A q \in Converters : page[q] = {}
    BY <1>3, <1>c DEF TypeOK
  <2>2. is_converted' = is_converted /\ files' = files
    BY <1>3 DEF table, convertCols
  <2> QED
    BY <1>b, <2>1, <2>2
<1>4. ASSUME NEW p \in Converters, ConvertStart(p) \/ NextPage(p) \/ NoMorePages(p)
      PROVE  Mine(i, g)'
  BY <1>3, <1>4 DEF ConvertStart, ConvertAll, ConvertLimited, NextPage, NoMorePages
<1>5. ASSUME NEW p \in Converters, NEW id \in Ids, WriteGame(p, id)
      PROVE  Mine(i, g)'
  <2>1. /\ files' = files \cup {<<id, written[p][id] + 1>>}
        /\ written' = [written EXCEPT ![p][id] = @ + 1]
        /\ id \in page[p] \ failed[p]
        /\ UNCHANGED <<is_converted, page, failed>>
    BY <1>5 DEF WriteGame, Unresolved, table, convertCols
  <2>2. /\ written[p][id] \in Nat
        /\ written'[p][id] = written[p][id] + 1
        /\ \A q \in Converters, j \in Ids : q # p \/ j # id => written'[q][j] = written[q][j]
    BY <2>1 DEF TypeOK, Counts
  <2>3. CASE <<i, g>> \in files
    <3>1. PICK q \in Converters : i \in page[q] \ failed[q] /\ g \in 1..written[q][i]
      BY <1>b, <2>1, <2>3
    <3>2. written[q][i] \in Nat /\ written'[q][i] >= written[q][i] /\ written'[q][i] \in Nat
      BY <2>1, <2>2 DEF TypeOK, Counts
    <3>3. g \in 1..written'[q][i]
      BY <3>1, <3>2
    <3> QED
      BY <2>1, <3>1, <3>3
  <2>4. CASE <<i, g>> \notin files
    <3>1. i = id /\ g = written[p][id] + 1
      BY <2>1, <2>4
    <3>2. g \in 1..written'[p][i]
      BY <2>2, <3>1
    <3> QED
      BY <2>1, <3>1, <3>2
  <2> QED
    BY <2>3, <2>4
<1>6. ASSUME NEW p \in Converters, NEW id \in Ids, FailGame(p, id), HistoryNext
      PROVE  Mine(i, g)'
  <2>1. /\ files' \subseteq files
        /\ failed' = [failed EXCEPT ![p] = @ \cup {id}]
        /\ id \in page[p] \ failed[p]
        /\ UNCHANGED <<is_converted, page, written>>
    BY <1>6 DEF FailGame, Unresolved, table, convertCols
  <2>2. PICK q \in Converters : i \in page[q] \ failed[q] /\ g \in 1..written[q][i]
    BY <1>b, <2>1
  <2>3. i # id
    <3> SUFFICES ASSUME i = id PROVE FALSE
      OBVIOUS
    <3>1. q = p /\ id \in failed'[p] \ failed[p]
      BY <1>c, <2>1 DEF TypeOK
    <3>2. <<id, g>> \in files' \cap {<<id, h>> : h \in 1..written[p][id]}
      BY <2>2, <3>1
    <3> QED
      BY <1>a, <1>6, <2>1, <3>1, <3>2 DEF LeftBehind
  <2>4. i \notin failed'[q]
    BY <2>1, <2>2, <2>3 DEF TypeOK
  <2> QED
    BY <2>1, <2>2, <2>4
<1>7. ASSUME NEW p \in Converters, NEW id \in Ids, MarkRow(p, id), HistoryNext
      PROVE  Mine(i, g)'
  <2>1. /\ id \in page[p] /\ stage[p] = "batch"
        /\ page' = [page EXCEPT ![p] = @ \ {id}]
        /\ UNCHANGED <<files, failed, written>>
    BY <1>7 DEF MarkRow, IsFirst
  <2>2. page'[p] # page[p]
    BY <2>1 DEF TypeOK
  <2>3. ~ UNCHANGED convertCols
    BY <1>a, <1>7, <2>1, <2>2 DEF Unmarked
  <2>4. IF id \in failed[p] THEN MarkConvertError(id) ELSE MarkConverted(id)
    BY <1>7, <2>3 DEF MarkRow
  <2>5. is_converted[i] # 1
    <3>1. is_converted[id] # 1
      BY <2>1 DEF PageUnconverted
    <3> QED
      BY <2>4, <3>1 DEF MarkConvertError, MarkConverted, TypeOK, Columns
  <2>6. PICK q \in Converters : i \in page[q] \ failed[q] /\ g \in 1..written[q][i]
    BY <1>b, <2>1, <2>5
  <2>7. q = p
    BY <1>c
  <2>8. i # id
    BY <2>4, <2>6, <2>7 DEF MarkConverted, TypeOK, Columns
  <2> QED
    BY <2>1, <2>6, <2>7, <2>8 DEF TypeOK
<1>8. ASSUME NEW p \in Converters, ConvertAbort(p), HistoryNext PROVE FALSE
  BY <1>8, <1>a
<1> HIDE DEF Mine
<1> QED
  BY <1>a, <1>1, <1>2, <1>4, <1>5, <1>6, <1>7, <1>8, StepKinds DEF ConvertStart, ConvertStep

\* With one convert process at a time, and any number of downloads: as long as
\* no convert was killed and all removals and marks succeeded, a row that is
\* not converted and not being converted has no file in the output directory.
THEOREM NoPartialLogs == ASSUME OneConverter PROVE HistorySpec => []NoPartialOutput
<1>1. HistoryInit => PartialInv /\ TypeOK /\ PageUnconverted
  <2>1. HistoryInit => Init
    BY DEF HistoryInit
  <2>2. Init => PartialInv /\ PageUnconverted
    BY DEF Init, PartialInv, PageUnconverted
  <2> QED
    BY <2>1, <2>2, TypeInit
<1>2. [HistoryNext]_<<vars, untidy>> => [Next]_vars
  BY DEF HistoryNext
<1>3. TypeOK /\ [HistoryNext]_<<vars, untidy>> => TypeOK'
  BY <1>2, TypeStep
<1>4. TypeOK /\ TypeOK' /\ PageUnconverted /\ [HistoryNext]_<<vars, untidy>>
        => PageUnconverted'
  BY <1>2, PageUnconvertedStep
<1>5. TypeOK /\ TypeOK' /\ PageUnconverted /\ PartialInv /\ [HistoryNext]_<<vars, untidy>>
        => PartialInv'
  BY PartialStep
<1>6. TypeOK /\ PartialInv => NoPartialOutput
  <2> SUFFICES ASSUME PartialInv, ~untidy, NEW i \in Ids, is_converted[i] # 1,
                      \A p \in Converters : i \notin page[p] \ failed[p]
               PROVE  files \cap FilesOf(i) = {}
    BY DEF NoPartialOutput
  <2>1. \A g \in Nat : <<i, g>> \notin files
    BY DEF PartialInv
  <2>2. 1..Games[i] \subseteq Nat
    BY BoundAssumption
  <2> QED
    BY <2>1, <2>2 DEF FilesOf
<1> QED
  BY <1>1, <1>3, <1>4, <1>5, <1>6, PTL DEF HistorySpec
=============================================================================
