--------------------------- MODULE MCMajsoulLogs ---------------------------
(***************************************************************************)
(* Instances of MajsoulLogs for TLC: three games on two days, of which the *)
(* room listing masks the uuids of two.                                    *)
(***************************************************************************)
EXTENDS MajsoulLogs, TLC

CONSTANTS a, b, p, q
ThePlayers == {a, b}
TheGameOf == 1 :> 1 @@ 2 :> 1 @@ 3 :> 3 @@ 4 :> 4 @@ 5 :> 4
TheRoomUuid == 1 :> 2 @@ 3 :> 3 @@ 4 :> 5
TheDayOf == 1 :> 1 @@ 3 :> 1 @@ 4 :> 2
TheChunkOf == 1 :> 1 @@ 3 :> 1 @@ 4 :> 2
TheStartTime == 1 :> 1 @@ 3 :> 2 @@ 4 :> 3
ThePlayersOf == 1 :> <<a, b>> @@ 3 :> <<None, b>> @@ 4 :> <<b, a>>

Scenario(games, commands, kinds) ==
  [games |-> games, commands |-> commands, kinds |-> kinds, downloaders |-> {p}]

\* scrape-all next to the commands that share its marks, with a listing that is
\* cut, and after what takes marks back
Rounds == Scenario({1, 4}, {"scrape-all", "fetch-room", "fetch-full-uuids", "recover-orphans"}, {})
CutRounds == Scenario({1, 3}, {"scrape-all"}, {})
Again == Scenario({1, 4}, {"scrape-all", "reset-capped-players", "resolve-uuids"}, {})
\* the two phases
Phases == Scenario({1, 3, 4}, {"fetch-days", "scrape-players", "fetch"}, {})
\* downloads of what is listed
AllRows == Scenario({1, 3}, {"fetch-room"}, {"download"})
FullRows == Scenario({1, 3}, {"fetch-room", "fetch-public", "recover-orphans"}, {"bulk"})
Mixed == Scenario({1}, {"fetch-room", "fetch-public"}, {"download", "bulk"})
AsJson == Scenario({1, 3}, {"fetch-public"}, {"json"})
\* two downloads at the same time, with one queue and with two
TwoAtATime(s) == [s EXCEPT !.downloaders = {p, q}]
Overlap == TwoAtATime(Scenario({1}, {"fetch-public"}, {"download"}))
OverlapMixed == TwoAtATime(Scenario({1}, {"fetch-public"}, {"download", "bulk"}))
Resolved == Scenario({1}, {"fetch-room", "resolve-uuids"}, {"bulk"})

PassScenarios ==
  {Rounds, CutRounds, Again, Phases, AllRows, FullRows, Mixed, AsJson, Overlap, OverlapMixed}
ResolvedRows == {Resolved}
=============================================================================
