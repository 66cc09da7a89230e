---------------------------- MODULE MjaiValidator ----------------------------
(***************************************************************************)
(* dataset/mjai-validator, validate_file: one pass over the lines of a     *)
(* file of mjai events.  A line that is an event only adds to the state of *)
(* the pass; what makes the file invalid is a line that is none, a seat or *)
(* tile that does not exist, or the frame of the file: its first and last  *)
(* event, and as many ends of rounds as starts.  Some errors are reported  *)
(* and do not make it invalid, but the pass ends at the 50th of either.    *)
(***************************************************************************)
EXTENDS Integers, Sequences

VALID_EVENTS ==
  {"start_game", "end_game", "start_kyoku", "end_kyoku", "tsumo", "dahai", "chi", "pon",
   "daiminkan", "kakan", "ankan", "hora", "ryukyoku", "dora", "reach", "reach_accepted",
   "nukidora", "none"}

MaxErrors == 50

Fresh ==
  [valid |-> TRUE, errors |-> 0, lines |-> 0, first |-> "?", last |-> "?", prev |-> << >>,
   starts |-> 0, ends |-> 0, stop |-> FALSE]

\* n errors more, of which no more than MaxErrors are counted
Counted(r, n) == [r EXCEPT !.errors = IF @ + n < MaxErrors THEN @ + n ELSE MaxErrors]
Failed(r, n) == [Counted(r, n) EXCEPT !.valid = @ /\ n = 0]
One(b) == IF b THEN 1 ELSE 0

\* A line is an event, with the number of its seats and tiles that do not
\* exist, or it is no event (~json); then the pass goes on in any case.
Checked(r, line) ==
  LET seen == [Counted([r EXCEPT !.lines = @ + 1], One(<<line>> = r.prev))
                 EXCEPT !.prev = <<line>>]
      known == Counted([seen EXCEPT !.first = IF @ = "?" THEN line.type ELSE @,
                                    !.last = line.type,
                                    !.starts = IF line.type = "start_kyoku" THEN @ + 1 ELSE @,
                                    !.ends = IF line.type = "end_kyoku" THEN @ + 1 ELSE @],
                       One(line.type \notin VALID_EVENTS))
      whole == Failed(known, line.bad)
  IN CASE r.stop -> r
       [] ~r.stop /\ ~line.json -> Failed(seen, 1)
       [] OTHER -> [whole EXCEPT !.stop = whole.errors >= MaxErrors]

\* What validate_file returns as valid.
ValidFile(lines) ==
  LET after[n \in 0..Len(lines)] ==
        IF n = 0 THEN Fresh ELSE Checked(after[n - 1], lines[n])
      r == after[Len(lines)]
  IN /\ r.valid /\ r.lines > 0
     /\ r.first = "start_game" /\ r.last = "end_game"
     /\ r.starts > 0 /\ r.starts = r.ends
=============================================================================
