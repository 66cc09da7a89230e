------------------------------ MODULE RawFiles ------------------------------
(***************************************************************************)
(* The files that the commands without a database share: todo.txt, the     *)
(* journal completed.log, the directory of records (jade-raw) and the      *)
(* directory of converted games (jade-mjai).                               *)
(*                                                                         *)
(* A temporary file is there once it is written; before, it can only make  *)
(* a conversion fail.                                                      *)
(***************************************************************************)
EXTENDS OrderedSets

CONSTANT Uuids          \* the lines of todo.txt, numbered in their order

ASSUME UuidsAssumption == Uuids \subseteq Nat /\ IsFiniteSet(Uuids)

VARIABLES
  completed,      \* the uuids that have a line of their own in completed.log
  torn,           \* the last line of completed.log lacks its newline
  tail,           \* the uuid in that line, if it is whole
  records,        \* the files in jade-raw: .pb, its temporary file, .json
  outputs         \* the .mjai.json of a .pb or temporary file: none, part or whole

journalFile == <<completed, torn, tail>>
files == <<journalFile, records, outputs>>

\* both converters take every *.pb, the temporary files .tmp_*.pb too
Convertible == Uuids \X {"pb", "tmp"}

InitFiles ==
  /\ completed = {} /\ torn = FALSE /\ tail = {}
  /\ records = {}
  /\ outputs = [f \in Convertible |-> "none"]

FilesOK ==
  /\ completed \subseteq Uuids /\ torn \in BOOLEAN
  /\ tail \subseteq Uuids /\ \A u, v \in tail : u = v
  /\ tail # {} => torn
  /\ records \subseteq Uuids \X {"pb", "tmp", "json"}
  /\ outputs \in [Convertible -> {"none", "part", "whole"}]

\* Lines are appended.  After a line without its newline the first of them
\* becomes the rest of that line, which then names no uuid.
AppendLines(us) ==
  /\ \E glued \in us :
       completed' = completed \cup (IF torn THEN us \ {glued} ELSE us)
  /\ torn' = FALSE /\ tail' = {}

\* Appending the line of u fails or is cut short, perhaps just before its
\* newline.
CutLine(u) ==
  /\ UNCHANGED completed
  /\ \/ UNCHANGED <<torn, tail>>
     \/ torn' = TRUE /\ tail' \in {{}} \cup (IF torn THEN {} ELSE {{u}})

OnDisk(kind) == {u \in Uuids : <<u, kind>> \in records}

\* What a new download leaves out.  raw-download takes a last line without
\* newline for a line, journal.py does not.
Done(tool, scan) ==
  completed \cup (IF tool = "raw" THEN tail ELSE {})
            \cup (IF scan THEN OnDisk(IF tool = "raw" THEN "pb" ELSE "json") ELSE {})
=============================================================================
