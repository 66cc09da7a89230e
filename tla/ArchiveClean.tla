---------------------------- MODULE ArchiveClean ----------------------------
(***************************************************************************)
(* mjai-validator --clean (dataset/mjai-validator/src/main.rs): an archive *)
(* is read record by record, the valid ones are written to an archive in a *)
(* staging directory, and that one takes the place of the original, by     *)
(* rename, or by a copy over it when rename fails (the staging directory   *)
(* is usually on another device).                                          *)
(*                                                                         *)
(* The records of an archive are numbered in their order; one that is cut  *)
(* short has the first of them.                                            *)
(***************************************************************************)
EXTENDS OrderedSets

CONSTANTS Entries, Valid

ASSUME ArchiveAssumption == Entries \subseteq Nat /\ Valid \subseteq Entries

VARIABLES
  source,         \* the records of the archive in the dataset
  staged,         \* those of the staging archive
  clean           \* the run: where it is, and what it still has to read or copy

archiveVars == <<source, staged, clean>>

NoClean == [stage |-> "idle", left |-> {}]

ArchiveOK ==
  /\ source \subseteq Entries /\ staged \subseteq Entries
  /\ clean \in [stage : {"idle", "scan", "copy"}, left : SUBSET Entries]

InitArchive == source = Entries /\ staged = {} /\ clean = NoClean

\* The staging archive is created, or truncated.
CleanStart ==
  /\ clean.stage = "idle"
  /\ staged' = {}
  /\ clean' = [stage |-> "scan", left |-> source]
  /\ UNCHANGED source

\* A record that is valid is written.  One that cannot be read, for an error in
\* its path, its data or the stream of the archive, is passed over, and the run
\* goes on: after an error in the stream everything behind it is passed over.
CleanRecord(e, read) ==
  /\ clean.stage = "scan" /\ IsFirst(e, clean.left)
  /\ staged' = IF read THEN staged \cup ({e} \cap Valid) ELSE staged
  /\ clean' = [clean EXCEPT !.left = @ \ {e}]
  /\ UNCHANGED source

\* mutant: what is there of the staging archive replaces the original
CleanFailsAnyway ==
  /\ clean.stage = "scan"
  /\ source' = staged /\ staged' = {} /\ clean' = NoClean

\* Writing fails: the staging archive is removed.
CleanFails ==
  /\ clean.stage = "scan"
  /\ staged' = {} /\ clean' = NoClean
  /\ UNCHANGED source

Replace ==
  /\ clean.stage = "scan" /\ clean.left = {}
  /\ source' = staged /\ staged' = {} /\ clean' = NoClean

\* rename fails; the copy begins by truncating the original.
CopyStart ==
  /\ clean.stage = "scan" /\ clean.left = {}
  /\ source' = {}
  /\ clean' = [stage |-> "copy", left |-> staged]
  /\ UNCHANGED staged

CopyRecord(e) ==
  /\ clean.stage = "copy" /\ IsFirst(e, clean.left)
  /\ source' = source \cup {e}
  /\ clean' = [clean EXCEPT !.left = @ \ {e}]
  /\ UNCHANGED staged

CopyEnd ==
  /\ clean.stage = "copy" /\ clean.left = {}
  /\ staged' = {} /\ clean' = NoClean
  /\ UNCHANGED source

\* The copy or the removal fails (expect), or the run is killed.
CleanKilled ==
  /\ clean.stage # "idle"
  /\ clean' = NoClean
  /\ UNCHANGED <<source, staged>>

CleanStep ==
  \/ CleanStart
  \/ \E e \in Entries, read \in BOOLEAN : CleanRecord(e, read)
  \/ \E e \in Entries : CopyRecord(e)
  \/ CleanFails
  \/ Replace
  \/ CopyStart
  \/ CopyEnd
  \/ CleanKilled
=============================================================================
