----------------------------- MODULE KyokuRound -----------------------------
(***************************************************************************)
(* A round (kyoku) as it is played, and what a tenhou.net/6 log keeps of   *)
(* it: for each seat the tiles it took and the tiles it put down, in two   *)
(* lists without any order between the seats, and the dora indicators.     *)
(* The log is the input of convlog; the events in the order in which they  *)
(* happened are in no log, and are kept here to compare with.              *)
(*                                                                         *)
(* A tile is one of Tiles, which are told apart and exist four times, or   *)
(* Other, which stands for every tile that nobody calls or discards.  The  *)
(* Tiles are numbered in the order in which they come up in the round.     *)
(***************************************************************************)
EXTENDS Integers, Sequences

CONSTANTS
  Tiles,        \* the tiles that are discarded and called
  Other,        \* every other tile
  Nobody,       \* no seat, and no tile
  Profiles      \* what may happen in a round: which calls and kans; whether there
                \* is tsumogiri, reach, an end on a draw; and as bounds how many
                \* tiles, turns (discards and kans) and passes (discards not called)

ASSUME TilesAssumption == Tiles \subseteq Nat /\ Other \notin Tiles

Seats == 0..3
ASSUME NobodyAssumption == Nobody \notin Seats /\ Nobody \notin Tiles \cup {Other}
Shimocha(a) == (a + 1) % 4

VARIABLES
  profile,      \* the profile of this round
  table,        \* whose turn it is and what is open
  takes,        \* the log: action_tables[a].takes
  discards,     \* the log: action_tables[a].discards
  indicators,   \* the log: how many dora indicators
  played        \* the events in the order in which they happened

roundVars == <<profile, table, takes, discards, indicators, played>>

\* an mjai event; target is the actor itself if nobody else is concerned
Event(type, actor, target, pai) ==
  [type |-> type, actor |-> actor, target |-> target, pai |-> pai]

\* an item of a log: a tile, or a call that names the seat called from by its
\* distance from the caller
Item(kind, from, pai) == [kind |-> kind, from |-> from, pai |-> pai]

Init ==
  /\ profile \in Profiles
  /\ table = [seat |-> 0, stage |-> "draw", last |-> Other, turns |-> 0, passes |-> 0,
              seen |-> [t \in Tiles |-> 0], accept |-> Nobody,
              reached |-> {}, opened |-> {}, pons |-> [a \in Seats |-> {}],
              atDiscard |-> 0, atDraw |-> 0, byDraw |-> FALSE]
  /\ takes = [a \in Seats |-> << >>]
  /\ discards = [a \in Seats |-> << >>]
  /\ indicators = 1
  /\ played = << >>

\* at most four copies of a tile can be shown
Show(t, n) == [table.seen EXCEPT ![t] = @ + n]
CanShow(t, n) ==
  /\ t \in profile.tiles
  /\ table.seen[t] + n <= 4
  /\ \A u \in Tiles : u < t => table.seen[u] > 0

\* the stick of a reach is accepted once nobody wins on its discard
Accepted ==
  IF table.accept = Nobody THEN << >>
  ELSE <<Event("reach_accepted", table.accept, table.accept, Other)>>

Played(events) == played' = played \o Accepted \o events
Took(a, item) == takes' = [takes EXCEPT ![a] = Append(@, item)]
PutDown(a, items) == discards' = [discards EXCEPT ![a] = @ \o items]
Drew(t) == Event("tsumo", table.seat, table.seat, t)
Did(type, t) == Event(type, table.seat, table.seat, t)
ToDraw == table.stage \in {"draw", "kakan"} /\ table.turns < profile.turns

-----------------------------------------------------------------------------
\* Draw a tile and discard the same (tsumogiri) or another one; before the
\* discard the indicators of open kans are shown.
DrawAndDiscard(t, giri) ==
  /\ ToDraw /\ CanShow(t, 1)
  /\ giri => profile.giri
  /\ table.seat \in table.reached => giri
  /\ Took(table.seat, Item("tile", 0, IF giri THEN t ELSE Other))
  /\ PutDown(table.seat, <<IF giri THEN Item("giri", 0, Other) ELSE Item("tile", 0, t)>>)
  /\ Played(<<Drew(IF giri THEN t ELSE Other), Did("dahai", t)>>)
  /\ indicators' = indicators + table.atDraw + table.atDiscard
  /\ table' = [table EXCEPT !.stage = "open", !.last = t, !.turns = @ + 1,
                            !.seen = Show(t, 1), !.accept = Nobody,
                            !.atDraw = 0, !.atDiscard = 0]
  /\ UNCHANGED profile

\* Declare reach with a closed hand.
DrawAndReach(t, giri) ==
  /\ ToDraw /\ CanShow(t, 1) /\ profile.reach
  /\ giri => profile.giri
  /\ table.seat \notin table.reached \cup table.opened
  /\ Took(table.seat, Item("tile", 0, IF giri THEN t ELSE Other))
  /\ PutDown(table.seat, <<Item("reach", 0, IF giri THEN Other ELSE t)>>)
  /\ Played(<<Drew(IF giri THEN t ELSE Other), Did("reach", Other), Did("dahai", t)>>)
  /\ indicators' = indicators + table.atDraw + table.atDiscard
  /\ table' = [table EXCEPT !.stage = "open", !.last = t, !.turns = @ + 1,
                            !.seen = Show(t, 1), !.accept = table.seat,
                            !.reached = @ \cup {table.seat},
                            !.atDraw = 0, !.atDiscard = 0]
  /\ UNCHANGED profile

\* A closed kan shows its indicator at once and is followed by a draw.
DrawAndAnkan(t) ==
  /\ ToDraw /\ table.turns + 1 < profile.turns
  /\ CanShow(t, 4) /\ "ankan" \in profile.kans
  /\ Took(table.seat, Item("tile", 0, Other))
  /\ PutDown(table.seat, <<Item("ankan", 0, t)>>)
  /\ Played(<<Drew(Other), Did("ankan", t)>>)
  /\ indicators' = indicators + table.atDraw + table.atDiscard + 1
  /\ table' = [table EXCEPT !.stage = "draw", !.turns = @ + 1, !.seen = Show(t, 4),
                            !.accept = Nobody, !.atDraw = 0, !.atDiscard = 0]
  /\ UNCHANGED profile

\* Add the fourth tile to a pon; the kan can still be robbed.
DrawAndKakan(t) ==
  /\ ToDraw /\ CanShow(t, 1) /\ "kakan" \in profile.kans
  /\ t \in table.pons[table.seat]
  /\ Took(table.seat, Item("tile", 0, t))
  /\ PutDown(table.seat, <<Item("kakan", 0, t)>>)
  /\ Played(<<Drew(t), Did("kakan", t)>>)
  /\ indicators' = indicators + table.atDraw
  /\ table' = [table EXCEPT !.stage = "kakan", !.turns = @ + 1, !.seen = Show(t, 1),
                            !.accept = Nobody, !.atDraw = table.atDiscard,
                            !.atDiscard = 1]
  /\ UNCHANGED profile

\* Chi from the kamicha, pon or daiminkan from anyone.
Call(a, kind) ==
  /\ table.stage = "open" /\ table.turns < profile.turns /\ kind \in profile.calls
  /\ a # table.seat /\ a \notin table.reached
  /\ kind = "chi" => a = Shimocha(table.seat)
  /\ LET copies == CASE kind = "chi" -> 0 [] kind = "pon" -> 2 [] OTHER -> 3
     IN /\ CanShow(table.last, copies)
        /\ table' = [table EXCEPT
             !.seat = a,
             !.stage = IF kind = "daiminkan" THEN "draw" ELSE "hold",
             !.seen = Show(table.last, copies),
             !.opened = @ \cup {a}, !.accept = Nobody,
             !.pons[a] = IF kind = "pon" THEN @ \cup {table.last} ELSE @,
             !.atDiscard = IF kind = "daiminkan" THEN 1 ELSE @]
  /\ Took(a, Item(kind, (table.seat - a) % 4, table.last))
  /\ PutDown(a, IF kind = "daiminkan" THEN <<Item("zero", 0, Other)>> ELSE << >>)
  /\ Played(<<Event(kind, a, table.seat, table.last)>>)
  /\ UNCHANGED <<profile, indicators>>

\* Chi and pon are followed by a discard without a draw.
Discard(t) ==
  /\ table.stage = "hold" /\ CanShow(t, 1) /\ table.turns < profile.turns
  /\ PutDown(table.seat, <<Item("tile", 0, t)>>)
  /\ Played(<<Did("dahai", t)>>)
  /\ table' = [table EXCEPT !.stage = "open", !.last = t, !.turns = @ + 1,
                            !.seen = Show(t, 1)]
  /\ UNCHANGED <<profile, takes, indicators>>

\* Nobody calls: the next seat draws.
Pass ==
  /\ table.stage = "open" /\ table.turns < profile.turns
  /\ table.passes < profile.passes
  /\ table' = [table EXCEPT !.stage = "draw", !.seat = Shimocha(@), !.passes = @ + 1]
  /\ UNCHANGED <<profile, takes, discards, indicators, played>>

\* The round ends after a discard (ron, exhaustive draw) or at a kan that is
\* robbed (chankan).
EndOnDiscard ==
  /\ table.stage \in {"open", "kakan"}
  /\ table' = [table EXCEPT !.stage = "over"]
  /\ UNCHANGED <<profile, takes, discards, indicators, played>>

\* The round ends on a draw: tsumo, or nine kinds of terminals.
EndOnDraw ==
  /\ ToDraw /\ profile.tsumo
  /\ Took(table.seat, Item("tile", 0, Other))
  /\ Played(<<Drew(Other)>>)
  /\ indicators' = indicators + table.atDraw
  /\ table' = [table EXCEPT !.stage = "over", !.byDraw = TRUE, !.accept = Nobody,
                            !.atDraw = 0]
  /\ UNCHANGED <<profile, discards>>

Play ==
  \/ \E t \in Tiles, giri \in BOOLEAN : DrawAndDiscard(t, giri)
  \/ \E t \in Tiles, giri \in BOOLEAN : DrawAndReach(t, giri)
  \/ \E t \in Tiles : DrawAndAnkan(t)
  \/ \E t \in Tiles : DrawAndKakan(t)
  \/ \E a \in Seats, kind \in {"chi", "pon", "daiminkan"} : Call(a, kind)
  \/ \E t \in Tiles : Discard(t)
  \/ Pass
  \/ EndOnDiscard
  \/ EndOnDraw

Over == table.stage = "over"

\* whoever can win at the end of the round: the seat that drew, or all others
\* on the last discard or kan
CanWin == IF table.byDraw THEN {table.seat} ELSE Seats \ {table.seat}
=============================================================================
