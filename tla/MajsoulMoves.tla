---------------------------- MODULE MajsoulMoves ----------------------------
(***************************************************************************)
(* src/majsoul/convert.rs, events_to_mjai: a Majsoul record has the events *)
(* of a game in their order, and most of them become one mjai event.  Not  *)
(* in the record are who pays for a ron, and when a reach is accepted; the *)
(* converter keeps the last discarder and one pending reach for these      *)
(* across the events, and across the rounds.                               *)
(*                                                                         *)
(* An event of the record is written as the event of KyokuRound it is the  *)
(* record of (RecordDealTile: tsumo, RecordDiscardTile: dahai with liqi,   *)
(* RecordChiPengGang, RecordAnGangAddGang); the record has no event for    *)
(* the acceptance of a reach.  How the server orders the tiles and the     *)
(* seats (froms) of a call is not in the repository: here its first from   *)
(* is the seat called from, as the converter takes it.                     *)
(***************************************************************************)
EXTENDS KyokuConv, Lists, MjaiValidator

\* is_liqi or is_wliqi of a discard: it follows its declaration
IsLiqi(i) == i > 1 /\ played[i - 1].type = "reach"
Entry(e, liqi, hules) == [event |-> e, liqi |-> liqi, hules |-> hules]
Entries == [i \in DOMAIN played |-> Entry(played[i], IsLiqi(i), << >>)]
Recorded ==
  Kept(Entries, {r \in Range(Entries) : r.event.type \notin {"reach", "reach_accepted"}})

Mark(type, hules) == Entry(Event(type, Nobody, Nobody, Other), FALSE, hules)

\* one RecordHule for all winners, and RecordNoTile or RecordLiuJu for a draw
Hules(winners) ==
  LET order == Kept(<<0, 1, 2, 3>>, winners)
  IN [i \in DOMAIN order |-> [seat |-> order[i], zimo |-> table.byDraw]]
RoundRecord(winners) ==
  <<Mark("new_round", << >>)>> \o Recorded
    \o <<Mark(IF winners = {} THEN "draw" ELSE "hule", Hules(winners))>>

\* A game of two rounds, both of them played alike: nobody wins the first one,
\* and everybody who can the second one.  External.
Record == RoundRecord({}) \o RoundRecord(CanWin)

-----------------------------------------------------------------------------
(* The loop of events_to_mjai: out is mjai_events, reach is pending_reach,   *)
(* discarder is last_discarder.                                              *)

Emit(c, events) == [c EXCEPT !.out = @ \o events]

\* pending_reach.take()
DropReach(c) ==
  [c EXCEPT !.reach = Nobody, !.dropped = @ + Num(c.reach # Nobody)]

NewRound(c) ==
  [Emit(DropReach(c), <<Event("start_kyoku", Nobody, Nobody, Other)>>)
     EXCEPT !.discarder = Nobody]

DealTile(c, e) ==
  IF c.reach = e.actor
  THEN [Emit(c, <<Event("reach_accepted", e.actor, e.actor, Other), e>>)
          EXCEPT !.reach = Nobody]
  ELSE Emit(c, <<e>>)

DiscardTile(c, e, liqi) ==
  LET declared == IF liqi THEN <<Event("reach", e.actor, e.actor, Other)>> ELSE << >>
  IN [Emit(c, declared \o <<e>>)
        EXCEPT !.discarder = e.actor, !.reach = IF liqi THEN e.actor ELSE @]

\* the seat called from is that of the first from
ChiPengGang(c, e) == Emit(c, <<Event(e.type, e.actor, e.target, e.pai)>>)
AnGang(c, e) == Emit(c, <<Event("ankan", e.actor, e.actor, e.pai)>>)

\* mutant: a robbed kan is paid by the last discarder
AddGangUnnoticed(c, e) == Emit(c, <<e>>)

\* a kakan can be robbed, so its seat counts as the discarder
AddGang(c, e) == [Emit(c, <<e>>) EXCEPT !.discarder = e.actor]

\* an error if there is nobody to pay for a ron (bail)
Hule(c, hules) ==
  LET horas == [i \in DOMAIN hules |->
                  Event("hora", hules[i].seat,
                        IF hules[i].zimo THEN hules[i].seat ELSE c.discarder, Other)]
  IN IF c.discarder = Nobody /\ \E i \in DOMAIN hules : ~hules[i].zimo
     THEN [c EXCEPT !.error = TRUE]
     ELSE Emit(DropReach(c), Append(horas, Event("end_kyoku", Nobody, Nobody, Other)))

NoTile(c) ==
  Emit(DropReach(c), <<Event("ryukyoku", Nobody, Nobody, Other),
                       Event("end_kyoku", Nobody, Nobody, Other)>>)

Converted(c, r) ==
  LET e == r.event
  IN CASE e.type = "new_round" -> NewRound(c)
       [] e.type = "tsumo" -> DealTile(c, e)
       [] e.type = "dahai" -> DiscardTile(c, e, r.liqi)
       [] e.type = "kakan" -> AddGang(c, e)
       [] e.type = "ankan" -> AnGang(c, e)
       [] e.type \in Nakis -> ChiPengGang(c, e)
       [] e.type = "hule" -> Hule(c, r.hules)
       [] e.type = "draw" -> NoTile(c)

\* the loop over a record, from c
ConvertedFrom(c, record) ==
  LET after[n \in 0..Len(record)] ==
        IF n = 0 THEN c ELSE Converted(after[n - 1], record[n])
  IN after[Len(record)]

EventsToMjai ==
  ConvertedFrom([out |-> << >>, reach |-> Nobody, dropped |-> 0, discarder |-> Nobody,
                 error |-> FALSE], Record)

-----------------------------------------------------------------------------
Moves(events) ==
  OfType(events, {"tsumo", "dahai", "reach", "ankan", "kakan"} \cup Nakis)

\* The file that convert_single_file writes: a line for each event.
Line(type, event) == [type |-> type, json |-> TRUE, bad |-> 0, event |-> event]
MjaiFile(events) ==
  <<Line("start_game", << >>)>> \o [i \in DOMAIN events |-> Line(events[i].type, events[i])]
    \o <<Line("end_game", << >>)>>

\* Across both rounds the moves are those that were played, in their order; a
\* ron is paid by the seat whose tile was taken, also when it is the tile of a
\* kakan; and no acceptance is made up: each is that of a reach of this round
\* that is not accepted yet, right before the draw of its seat.  The validator
\* accepts the file.
MajsoulRecovered ==
  phase = "play" /\ Over =>
    LET c == EventsToMjai
        out == c.out
    IN /\ ~c.error
       /\ ValidFile(MjaiFile(out))
       /\ Moves(out) = Moves(played) \o Moves(played)
       /\ \A e \in Range(OfType(out, {"hora"})) :
            e.target = (IF table.byDraw THEN e.actor ELSE table.seat)
       /\ \A i \in DOMAIN out : out[i].type = "reach_accepted" =>
            /\ out[i + 1].type = "tsumo" /\ out[i + 1].actor = out[i].actor
            /\ \E j \in 1..(i - 1) :
                 /\ out[j].type = "reach" /\ out[j].actor = out[i].actor
                 /\ \A k \in (j + 1)..(i - 1) :
                      /\ out[k].type # "start_kyoku"
                      /\ ~(out[k].type = "reach_accepted" /\ out[k].actor = out[i].actor)

\* What comments say of the acceptance (convert.rs:154, "only on reacher's next
\* DealTile", and 201): a seat that draws again after its reach has it accepted
\* with that draw.
AcceptedAtNextDraw ==
  phase = "play" /\ Over =>
    LET out == EventsToMjai.out
    IN \A i, j \in DOMAIN out :
         /\ i < j /\ out[i].type = "reach"
         /\ out[j].type = "tsumo" /\ out[j].actor = out[i].actor
         /\ \A k \in (i + 1)..(j - 1) :
              out[k].type # "start_kyoku"
              /\ ~(out[k].type = "tsumo" /\ out[k].actor = out[i].actor)
         => out[j - 1] = Event("reach_accepted", out[i].actor, out[i].actor, Other)
=============================================================================
