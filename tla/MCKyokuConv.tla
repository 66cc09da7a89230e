---------------------------- MODULE MCKyokuConv ----------------------------
(***************************************************************************)
(* Instances of KyokuConv for TLC: what may happen in the rounds.          *)
(***************************************************************************)
EXTENDS MjlogReplay, MajsoulMoves, MeldCodes

Plain == [calls |-> {}, kans |-> {}, giri |-> FALSE, reach |-> FALSE, tsumo |-> FALSE,
          tiles |-> {1, 2}, turns |-> 5, passes |-> 5]

\* chi and pon, for the guesses
CallRound == [Plain EXCEPT !.calls = {"chi", "pon"}, !.tiles = {1, 2, 3},
                           !.turns = 6, !.passes = 2]
\* several kans of one seat
KanRound == [Plain EXCEPT !.calls = {"pon", "daiminkan"}, !.kans = {"ankan", "kakan"},
                          !.tiles = {1, 2, 3}, !.passes = 1]
\* the discards that have to be filled in
ReachRound == [Plain EXCEPT !.calls = {"pon", "daiminkan"}, !.giri = TRUE,
                            !.reach = TRUE, !.turns = 4]
\* rounds that end on a draw
WonRound == [Plain EXCEPT !.calls = {"chi", "pon"}, !.tsumo = TRUE, !.passes = 2]

AllRounds == {CallRound, KanRound, ReachRound, WonRound}
CallRounds == {CallRound}
WonRounds == {WonRound}

\* two reaches before the first of them draws again
ReachRounds == {[Plain EXCEPT !.giri = TRUE, !.reach = TRUE]}

\* The translation of calls does not depend on the round: it is looked at
\* before the first move.
MeldsKeepTheirTiles == phase = "play" /\ played = << >> => MeldsTranslated
=============================================================================
