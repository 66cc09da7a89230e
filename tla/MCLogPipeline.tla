--------------------------- MODULE MCLogPipeline ---------------------------
(***************************************************************************)
(* Instances of LogPipeline for TLC.  Ids are 1, 2, ... so that the order  *)
(* of ORDER BY id is the order of the numbers.                             *)
(***************************************************************************)
EXTENDS LogPipeline, TLC

\* the payload of id 1 holds two games, the others one: both file-name forms
\* of output_path_for
MixedGames == [id \in Ids |-> IF id = 1 THEN 2 ELSE 1]
\* every payload holds one game
SingleGames == [id \in Ids |-> 1]
=============================================================================
