----------------------------- MODULE MjlogReplay -----------------------------
(***************************************************************************)
(* crates/mjlog2json-core: an mjlog has the actions of all seats in one    *)
(* list, game after game; the tenhou.net/6 log that KyokuConv reads has    *)
(* two lists for each seat of a round.  The list of a game is cut at its   *)
(* INIT tags, and the actions of a seat are replayed with two flags: that  *)
(* reach was declared, and which tile was drawn last.                      *)
(*                                                                         *)
(* An action is written as the event of KyokuRound that it records: tsumo  *)
(* for a draw, dahai for a discard, reach and reach_accepted for the two   *)
(* steps of REACH, and the call for N.                                     *)
(***************************************************************************)
EXTENDS KyokuConv, Lists

-----------------------------------------------------------------------------
\* extract_round_indices: what comes before the first INIT is in no round
Rounds(actions) ==
  LET inits == Kept([i \in DOMAIN actions |-> i],
                    {i \in DOMAIN actions : actions[i].type = "init"})
  IN [k \in DOMAIN inits |->
        SubSeq(actions, inits[k],
               IF k < Len(inits) THEN inits[k + 1] - 1 ELSE Len(actions))]

\* is_valid_player_action: the second step of REACH is not one
ActionsOf(a, actions) ==
  LET types == {"tsumo", "dahai", "reach", "ankan", "kakan"} \cup Nakis
  IN Kept(actions, {e \in Range(actions) : e.actor = a /\ e.type \in types})

\* A DISCARD: the drawn tile is put down again, or one of the hand.  The hai
\* are told apart, so it is the same one and not only an equal one; in
\* KyokuRound a seat that puts down an equal tile puts down the same one.
Discarded(r, tile) ==
  IF tile = r.lastDraw
  THEN Item(IF r.reach THEN "reach" ELSE "giri", 0, Other)
  ELSE Item(IF r.reach THEN "reach" ELSE "tile", 0, tile)

\* mutant: the declaration of reach is not taken back
AfterDiscardReached(r, tile) ==
  [r EXCEPT !.outgoing = Append(@, Discarded(r, tile)), !.lastDraw = Nobody]

AfterDiscard(r, tile) ==
  [r EXCEPT !.outgoing = Append(@, Discarded(r, tile)),
            !.reach = FALSE, !.lastDraw = Nobody]

\* A call or kan; the discard that a daiminkan leaves out has a placeholder.
AfterMeld(r, e) ==
  LET item == Item(e.type, (e.target - e.actor) % 4, e.pai)
  IN IF e.type \in Nakis
     THEN [r EXCEPT !.incoming = Append(@, item),
                    !.outgoing = IF e.type = "daiminkan" THEN Append(@, Item("zero", 0, Other))
                                 ELSE @]
     ELSE [r EXCEPT !.outgoing = Append(@, item)]

ReplayOne(r, e) ==
  CASE e.type = "tsumo" -> [r EXCEPT !.incoming = Append(@, Item("tile", 0, e.pai)),
                                     !.lastDraw = e.pai]
    [] e.type = "dahai" -> AfterDiscard(r, e.pai)
    [] e.type = "reach" -> [r EXCEPT !.reach = TRUE]
    [] OTHER -> AfterMeld(r, e)

\* the placeholders at the end are taken off again
WithoutLastZeros(items) ==
  SubSeq(items, 1, SelectLastInSeq(items, LAMBDA x : x.kind # "zero"))

\* replay_actions, the loop over the actions of one seat of a round
Replay(actions) ==
  LET after[n \in 0..Len(actions)] ==
        IF n = 0 THEN [incoming |-> << >>, outgoing |-> << >>, reach |-> FALSE,
                       lastDraw |-> Nobody]
        ELSE ReplayOne(after[n - 1], actions[n])
  IN after[Len(actions)]

\* replay_actions and conv_round_players
Replayed(a, actions) ==
  LET r == Replay(ActionsOf(a, actions))
  IN [r EXCEPT !.outgoing = WithoutLastZeros(@)]

\* conv_round_result: a draw, or every win
ResultOf(actions) ==
  LET draws == OfType(actions, {"ryuukyoku"})
      wins == OfType(actions, {"agari"})
  IN CASE Len(draws) = 1 -> draws
       [] Len(draws) # 1 /\ wins # << >> -> wins
       [] OTHER -> <<"error">>

-----------------------------------------------------------------------------
(* The mjlog of a game of two rounds, both of them played alike: nobody     *)
(* wins the first one, and everybody who can the second one.  External.     *)

Tag(type) == Event(type, Nobody, Nobody, Other)
Ends(winners) ==
  LET order == Kept(<<0, 1, 2, 3>>, winners)
  IN IF winners = {} THEN <<Tag("ryuukyoku")>>
     ELSE [i \in DOMAIN order |-> Event("agari", order[i], table.seat, Other)]
RoundTags(winners) ==
  <<Tag("init")>> \o played \o [i \in 1..(indicators - 1) |-> Tag("dora")] \o Ends(winners)
Mjlog == <<Tag("go"), Tag("taikyoku")>> \o RoundTags({}) \o RoundTags(CanWin)

\* A round that comes from an mjlog is the round that tenhou.net/6 itself
\* would have given: each seat has the same takes, and the same discards once
\* they are filled in, and the result is that of the same round.  What flags a
\* seat's replay keeps, and where a round is cut off, moves no discard.
ReplayedAlike ==
  phase = "play" /\ Over =>
    LET rounds == Rounds(Mjlog) IN
    /\ Len(rounds) = 2
    /\ \A k \in 1..2 :
         /\ Cardinality({i \in DOMAIN rounds[k] : rounds[k][i].type = "dora"}) = indicators - 1
         /\ ResultOf(rounds[k]) = Ends(IF k = 1 THEN {} ELSE CanWin)
         /\ \A a \in Seats :
              LET r == Replayed(a, rounds[k])
              IN /\ r.incoming = takes[a]
                 /\ DiscardsFrom(a, r.incoming, r.outgoing) = DiscardsOf(a)
=============================================================================
