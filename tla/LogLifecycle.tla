---------------------------- MODULE LogLifecycle ----------------------------
(***************************************************************************)
(* What the `logs` table promises to its readers (export, stats, package), *)
(* without queues, attempts or processes: a log id only moves forward,     *)
(* from unknown to wanted (listed, no payload) to stored (payload in the   *)
(* table) to converted, and once it is converted every mjai file of it is  *)
(* in the output directory and stays there.                                *)
(***************************************************************************)
CONSTANT Ids

VARIABLES
  phase,     \* how far each id has come
  complete   \* ids all of whose mjai files are in the output directory

Phases == {"unknown", "wanted", "stored", "converted"}

TypeOK ==
  /\ phase \in [Ids -> Phases]
  /\ complete \subseteq Ids

Init ==
  /\ phase = [id \in Ids |-> "unknown"]
  /\ complete = {}

Advance(id, from, to) ==
  /\ phase[id] = from
  /\ phase' = [phase EXCEPT ![id] = to]
  /\ UNCHANGED complete

List(id) == Advance(id, "unknown", "wanted")

Store(id) == Advance(id, "wanted", "stored")

\* a conversion writes the last missing file, or a failing one withdraws its
\* files
Output(id) ==
  /\ phase[id] = "stored"
  /\ complete' \in {complete \cup {id}, complete \ {id}}
  /\ UNCHANGED phase

Finish(id) ==
  /\ id \in complete
  /\ Advance(id, "stored", "converted")

Next == \E id \in Ids : List(id) \/ Store(id) \/ Output(id) \/ Finish(id)

Spec == Init /\ [][Next]_<<phase, complete>>
=============================================================================
