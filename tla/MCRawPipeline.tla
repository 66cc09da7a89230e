--------------------------- MODULE MCRawPipeline ---------------------------
(***************************************************************************)
(* Instances of RawPipeline for TLC: three games, two accounts, a channel of *)
(* one, and an archive of three records, one of them invalid.              *)
(***************************************************************************)
EXTENDS RawPipeline

Scenario(todo, tools, converters, cleaning) ==
  [todo |-> todo, tools |-> tools, converters |-> converters, clean |-> cleaning]

Downloads == Scenario({1, 2, 3}, {"raw", "async"}, {}, FALSE)
Alongside(converter) == Scenario({1}, {"raw"}, {converter}, FALSE)
Cleaning == Scenario({}, {}, {}, TRUE)

PassScenarios == {Downloads, Cleaning} \cup {Alongside(c) : c \in Converters}
=============================================================================
