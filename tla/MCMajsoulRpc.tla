---------------------------- MODULE MCMajsoulRpc ----------------------------
(***************************************************************************)
(* Instances of MajsoulRpc for TLC.                                        *)
(***************************************************************************)
EXTENDS MajsoulRpc, TLC

\* every value the counter can have
AnyStart == 0..(CounterMod - 1)

\* Calls are alike; used for safety only.
AlikeCalls == Permutations(Calls)
=============================================================================
