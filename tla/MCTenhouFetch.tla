--------------------------- MODULE MCTenhouFetch ---------------------------
(***************************************************************************)
(* Instances of TenhouFetch for TLC.                                       *)
(***************************************************************************)
EXTENDS TenhouFetch, TLC

\* ids 1 and 2 on day 1, id 3 on day 2
EarlyDays == [id \in Ids |-> IF id = 3 THEN 2 ELSE 1]
\* one file a day
OneType == [id \in Ids |-> "scc"]

\* an import directory that holds the files of day 1
WholeFiles == {FileOf(1, t) : t \in Types}
=============================================================================
