---------------------------- MODULE OrderedSets ----------------------------
(***************************************************************************)
(* Sets of numbers read in their order, as the queries of src/db.rs read   *)
(* rows and as buffer_unordered starts futures.                            *)
(***************************************************************************)
EXTENDS Integers, FiniteSets

\* ORDER BY id LIMIT n
FirstN(S, n) == {x \in S : Cardinality({y \in S : y < x}) < n}

IsFirst(x, S) == x \in S /\ \A y \in S : x <= y
IsLast(x, S)  == x \in S /\ \A y \in S : y <= x
=============================================================================
