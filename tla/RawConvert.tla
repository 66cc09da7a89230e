----------------------------- MODULE RawConvert -----------------------------
(***************************************************************************)
(* Converting the records of raw-download while it goes on: convert-raw    *)
(* (src/majsoul/convert.rs) converts what it finds once, files in          *)
(* parallel; tensoul-download/convert_pb.py goes on until it is stopped.   *)
(* The existence of the output means that a file is converted; the output  *)
(* is written in place.                                                    *)
(***************************************************************************)
EXTENDS RawFiles

VARIABLE
  conv            \* the converter that runs, and where each of its files is

FileStates == {"other", "pending", "writing", "written"}
Converters == {"convert-raw", "convert-raw --delete", "convert_pb"}

NoFiles == [f \in Convertible |-> "other"]
NoConv == [tool |-> "none", file |-> NoFiles]

ConvertOK == conv \in [tool : Converters \cup {"none"}, file : [Convertible -> FileStates]]

Pending == {f \in Convertible : f \in records /\ outputs[f] = "none"}

ConvertStart(tool) ==
  /\ conv.tool = "none" /\ Pending # {}
  /\ conv' = [tool |-> tool,
              file |-> [f \in Convertible |-> IF f \in Pending THEN "pending" ELSE "other"]]
  /\ UNCHANGED files

\* convert_pb.py looks for new files when it is done with those it has.
Rescan ==
  /\ conv.tool = "convert_pb" /\ conv.file = NoFiles /\ Pending # {}
  /\ conv' = [conv EXCEPT !.file =
                [f \in Convertible |-> IF f \in Pending THEN "pending" ELSE "other"]]
  /\ UNCHANGED files

FileGoes(f, state) == conv' = [conv EXCEPT !.file[f] = state]

\* The record is read and decoded, and the output file created.
Create(f) ==
  /\ conv.file[f] = "pending" /\ f \in records
  /\ outputs' = [outputs EXCEPT ![f] = "part"]
  /\ FileGoes(f, "writing")
  /\ UNCHANGED <<journalFile, records>>

\* It is gone, since raw-download has renamed it, or cannot be decoded.
Undecoded(f) ==
  /\ conv.file[f] = "pending"
  /\ FileGoes(f, "other")
  /\ UNCHANGED files

WriteOutput(f) ==
  /\ conv.file[f] = "writing"
  /\ outputs' = [outputs EXCEPT ![f] = "whole"]
  /\ FileGoes(f, "written")
  /\ UNCHANGED <<journalFile, records>>

\* mutant: a file that could not be written is deleted like the others
WriteFailsThenDelete(f) ==
  /\ conv.file[f] = "writing"
  /\ FileGoes(f, "written")
  /\ UNCHANGED files

\* convert_pb.py removes what has been written, convert-raw does not.
WriteFails(f) ==
  /\ conv.file[f] = "writing"
  /\ outputs' = IF conv.tool = "convert_pb" THEN [outputs EXCEPT ![f] = "none"] ELSE outputs
  /\ FileGoes(f, "other")
  /\ UNCHANGED <<journalFile, records>>

Deletes == conv.tool # "convert-raw"

DeleteRecord(f) ==
  /\ conv.file[f] = "written"
  /\ records' = IF Deletes THEN records \ {f} ELSE records
  /\ FileGoes(f, "other")
  /\ UNCHANGED <<journalFile, outputs>>

\* The record cannot be removed: convert-raw says so, convert_pb.py takes it
\* for a failure of the conversion and removes the output.
DeleteFails(f) ==
  /\ conv.file[f] = "written" /\ Deletes /\ f \in records
  /\ outputs' = IF conv.tool = "convert_pb" THEN [outputs EXCEPT ![f] = "none"] ELSE outputs
  /\ FileGoes(f, "other")
  /\ UNCHANGED <<journalFile, records>>

\* convert-raw has no more files; convert_pb.py is stopped between two.
ConvertEnd ==
  /\ conv.tool # "none" /\ conv.file = NoFiles
  /\ conv' = NoConv
  /\ UNCHANGED files

ConvertKilled ==
  /\ conv.tool # "none"
  /\ conv' = NoConv
  /\ UNCHANGED files

FileStep(f) ==
  \/ Create(f)
  \/ Undecoded(f)
  \/ WriteOutput(f)
  \/ WriteFails(f)
  \/ DeleteRecord(f)
  \/ DeleteFails(f)
=============================================================================
