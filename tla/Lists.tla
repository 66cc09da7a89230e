-------------------------------- MODULE Lists --------------------------------
(***************************************************************************)
(* Lists that are read in their order, as the iterators of the converters  *)
(* read them (filter, filter_map).                                         *)
(***************************************************************************)
EXTENDS Integers, Sequences

\* the elements of s that are in S, in their order
Kept(s, S) ==
  LET upTo[n \in 0..Len(s)] ==
        IF n = 0 THEN << >>
        ELSE IF s[n] \in S THEN Append(upTo[n - 1], s[n]) ELSE upTo[n - 1]
  IN upTo[Len(s)]

OfType(events, types) ==
  Kept(events, {e \in {events[i] : i \in DOMAIN events} : e.type \in types})
=============================================================================
