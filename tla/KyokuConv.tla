----------------------------- MODULE KyokuConv -----------------------------
(***************************************************************************)
(* crates/convlog/src/conv.rs: tenhou_kyoku_to_mjai_events finds one order *)
(* for the takes and discards of the four seats.  An attempt walks through *)
(* the lists: the actor takes, discards, and the seat that called the      *)
(* discard, or else the next seat, becomes the actor.  Where a call fits   *)
(* two equal discards of the same seat the attempt guesses; when it fails, *)
(* the whole attempt is repeated with the guesses noted in backtracks.     *)
(*                                                                         *)
(* An action is one of the three parts of the loop body, or the retry.     *)
(***************************************************************************)
EXTENDS KyokuRound, Lists, FiniteSets, SequencesExt

VARIABLES
  phase,          \* "play", "take", "discard", "next", "failed", "done", "error"
  takeEvents,     \* take_events
  discardEvents,  \* discard_events
  backtracks,     \* key -> use_the_first_branch
  attempt,        \* the closure of that name: what it captures, and its locals
  begun           \* history: the backtracks that attempts began with

convVars == <<phase, takeEvents, discardEvents, backtracks, attempt, begun>>
vars == <<roundVars, convVars>>

-----------------------------------------------------------------------------
\* take_action_to_events (506-630): the position of the letter in a naki
\* string says which seat the tile came from.
TakeEvent(a, item) ==
  IF item.kind = "tile" THEN Event("tsumo", a, a, item.pai)
  ELSE Event(item.kind, a, (a + item.from) % 4, item.pai)

\* discard_action_to_events (632-754): the tile of a tsumogiri is not in the
\* log; type "giri" is a dahai with tsumogiri: true that has no tile yet.
DiscardEvent(a, item) ==
  LET dahai == IF item.kind = "giri" \/ (item.kind = "reach" /\ item.pai = Other)
               THEN Event("giri", a, a, Other)
               ELSE Event("dahai", a, a, item.pai)
  IN CASE item.kind = "reach" -> <<Event("reach", a, a, Other), dahai>>
       [] item.kind \in {"ankan", "kakan"} -> <<Event(item.kind, a, a, item.pai)>>
       [] item.kind \in {"tile", "giri", "zero"} -> <<dahai>>

\* mutant: the dahai of a reach is not filled in
FinalizeWithoutReach(f, take) ==
  IF f.di > Len(f.ds) THEN f
  ELSE IF f.ds[f.di].type = "giri" /\ take.type = "tsumo"
  THEN [di |-> f.di + 1,
        ds |-> [f.ds EXCEPT ![f.di] = Event("dahai", take.actor, take.actor, take.pai)]]
  ELSE IF f.ds[f.di].type = "dahai" /\ f.ds[f.di].pai = Other
  THEN [f EXCEPT !.ds = RemoveAt(f.ds, f.di)]
  ELSE [f EXCEPT !.di = f.di + 1]

\* One take of finalize_discards (455-497).  f.di is the discard it goes with;
\* the placeholder of a daiminkan is a dahai of no tile, and is dropped.
Finalize(f, take) ==
  LET di == IF f.di <= Len(f.ds) /\ f.ds[f.di].type = "reach" THEN f.di + 1 ELSE f.di
  IN IF di > Len(f.ds) THEN [f EXCEPT !.di = di]
     ELSE IF f.ds[di].type = "giri" /\ take.type = "tsumo"
     THEN [di |-> di + 1,
           ds |-> [f.ds EXCEPT ![di] = Event("dahai", take.actor, take.actor, take.pai)]]
     ELSE IF f.ds[di].type = "dahai" /\ f.ds[di].pai = Other
     THEN [di |-> di, ds |-> RemoveAt(f.ds, di)]
     ELSE [f EXCEPT !.di = di + 1]

\* the events of the first n discards, for each n
DiscardEvents(a, items) ==
  LET upTo[n \in 0..Len(items)] ==
        IF n = 0 THEN << >> ELSE upTo[n - 1] \o DiscardEvent(a, items[n])
  IN upTo

\* finalize_discards: what the first n takes make of ds, for each n
Finalized(ts, ds) ==
  LET after[n \in 0..Len(ts)] ==
        IF n = 0 THEN [di |-> 1, ds |-> ds] ELSE Finalize(after[n - 1], ts[n])
  IN after

\* parse_takes_and_discards_to_mjai (443-453), for the lists of any log
TakesFrom(a, items) == [i \in DOMAIN items |-> TakeEvent(a, items[i])]
DiscardsFrom(a, taken, items) ==
  LET ds == DiscardEvents(a, items)[Len(items)]
  IN Finalized(TakesFrom(a, taken), ds)[Len(taken)].ds
TakesOf(a) == TakesFrom(a, takes[a])
DiscardsOf(a) == DiscardsFrom(a, takes[a], discards[a])

\* mutant: StartKyoku takes two indicators
FreshAttemptShort(taken, put) ==
  [takes |-> taken, discards |-> put,
   events |-> << >>, doraFeed |-> indicators - 2,
   takeIdx |-> [a \in Seats |-> 0], discardIdx |-> [a \in Seats |-> 0],
   reach |-> Nobody, lastDiscard |-> Other, lastActor |-> Nobody,
   doraAtDiscard |-> FALSE, doraAtTsumo |-> FALSE, actor |-> 0]

\* The lists that an attempt captures and its locals (105-151); StartKyoku takes
\* the first indicator.
FreshAttempt(taken, put) ==
  [takes |-> taken, discards |-> put,
   events |-> << >>, doraFeed |-> indicators - 1,
   takeIdx |-> [a \in Seats |-> 0], discardIdx |-> [a \in Seats |-> 0],
   reach |-> Nobody, lastDiscard |-> Other, lastActor |-> Nobody,
   doraAtDiscard |-> FALSE, doraAtTsumo |-> FALSE, actor |-> 0]

ConvInit ==
  /\ Init
  /\ phase = "play" /\ backtracks = << >>
  /\ takeEvents = [a \in Seats |-> << >>] /\ discardEvents = [a \in Seats |-> << >>]
  /\ attempt = FreshAttempt(takeEvents, discardEvents) /\ begun = {}

\* The log of a round that is over is converted (85-105).
StartConversion ==
  /\ phase = "play" /\ Over
  /\ takeEvents' = [a \in Seats |-> TakesOf(a)]
  /\ discardEvents' = [a \in Seats |-> DiscardsOf(a)]
  /\ attempt' = FreshAttempt(takeEvents', discardEvents') /\ begun' = {backtracks}
  /\ phase' = "take"
  /\ UNCHANGED <<roundVars, backtracks>>

-----------------------------------------------------------------------------
\* What an attempt x does next is a function of what it captured, its locals and,
\* where it guesses, of backtracks.
Dora == Event("dora", Nobody, Nobody, Other)
Nakis == {"chi", "pon", "daiminkan"}
IsNaki(e) == e.type \in Nakis
MoreTakes(x, a) == x.takeIdx[a] < Len(x.takes[a])
MoreDiscards(x, a) == x.discardIdx[a] < Len(x.discards[a])
NextTake(x, a) == x.takes[a][x.takeIdx[a] + 1]
NextDiscard(x, a) == x.discards[a][x.discardIdx[a] + 1]

\* dora_feed.next() for a number of indicators, or the error if there are none
Reveal(n) == [i \in 1..n |-> Dora]
Feeds(x, n) == n <= x.doraFeed
Num(b) == IF b THEN 1 ELSE 0

\* mutant: the naki is not compared with the last discard
UnexpectedNever(x, take) == FALSE

\* A naki must answer the last discard of another seat (164-176).
Unexpected(x, take) ==
  /\ IsNaki(take)
  /\ \/ take.pai # x.lastDiscard
     \/ x.lastActor # Nobody /\ x.lastActor # take.target
     \/ x.lastActor = take.actor

\* mutant: an open kan before a closed one is forgotten
DueAtDahai(x, discard) == x.doraAtDiscard /\ discard.type = "dahai"

\* The indicator of an open kan is shown before the next discard or closed kan,
\* or, when a kakan follows, at the draw after it (181-221, 249-274).
DueAtTake(x, take) ==
  \/ take.type = "daiminkan" /\ x.doraAtDiscard
  \/ take.type = "tsumo" /\ x.doraAtTsumo
DueAtDiscard(x, discard) == x.doraAtDiscard /\ discard.type \in {"dahai", "ankan"}

Fail == phase' = "failed" /\ UNCHANGED attempt

\* The actor's next take (153-229); a daiminkan is followed at once by a draw.
TakeOf(x) == NextTake(x, x.actor)
ShownAtTake(x) == Num(DueAtTake(x, TakeOf(x)))
TakeFails(x) ==
  ~MoreTakes(x, x.actor) \/ Unexpected(x, TakeOf(x)) \/ ~Feeds(x, ShownAtTake(x))
Taken(x) ==
  LET accepted == IF x.reach = Nobody THEN << >>
                  ELSE <<Event("reach_accepted", x.reach, x.reach, Other)>>
  IN [x EXCEPT !.events = @ \o accepted \o Reveal(ShownAtTake(x)) \o <<TakeOf(x)>>,
               !.doraFeed = @ - ShownAtTake(x),
               !.takeIdx[x.actor] = @ + 1,
               !.reach = Nobody,
               !.doraAtDiscard = @ \/ TakeOf(x).type = "daiminkan",
               !.doraAtTsumo = @ /\ TakeOf(x).type # "tsumo"]
PhaseAfterTake(x) ==
  IF TakeOf(x).type = "daiminkan" THEN "take"
  ELSE IF MoreDiscards(x, x.actor) THEN "discard" ELSE "done"

Take ==
  /\ phase = "take"
  /\ IF TakeFails(attempt) THEN Fail
     ELSE attempt' = Taken(attempt) /\ phase' = PhaseAfterTake(attempt)
  /\ UNCHANGED <<roundVars, takeEvents, discardEvents, backtracks, begun>>

\* The actor's next discard (231-327): a dahai, a reach with its dahai, or a
\* kan, after which the same seat takes again.
DiscardOf(x) == NextDiscard(x, x.actor)
Group(x) ==
  IF DiscardOf(x).type = "reach"
  THEN <<DiscardOf(x), x.discards[x.actor][x.discardIdx[x.actor] + 2]>>
  ELSE <<DiscardOf(x)>>
NoTakesLeft(x) == \A a \in Seats : ~MoreTakes(x, a)
ShownBefore(x) == Num(DueAtDiscard(x, DiscardOf(x)))
ShownAfter(x) == Num(DiscardOf(x).type = "ankan" /\ ~NoTakesLeft(x))
DiscardFails(x) == ~Feeds(x, ShownBefore(x) + ShownAfter(x))
Thrown(x) ==
  LET discard == DiscardOf(x)
      last == Last(Group(x))
  IN [x EXCEPT !.events = @ \o Reveal(ShownBefore(x)) \o Group(x) \o Reveal(ShownAfter(x)),
               !.doraFeed = @ - ShownBefore(x) - ShownAfter(x),
               !.discardIdx[x.actor] = @ + Len(Group(x)),
               !.reach = IF discard.type = "reach" THEN x.actor ELSE @,
               !.lastDiscard = IF last.type = "dahai" THEN last.pai ELSE @,
               !.doraAtTsumo = @ \/ (x.doraAtDiscard /\ discard.type = "kakan"),
               !.doraAtDiscard = \/ @ /\ ~DueAtDiscard(x, discard)
                                 \/ discard.type = "kakan" /\ ~NoTakesLeft(x)]
PhaseAfterDiscard(x) ==
  IF NoTakesLeft(x) THEN "done"
  ELSE IF DiscardOf(x).type \in {"ankan", "kakan"} THEN "take" ELSE "next"

DiscardStep ==
  /\ phase = "discard"
  /\ IF DiscardFails(attempt) THEN Fail
     ELSE attempt' = Thrown(attempt) /\ phase' = PhaseAfterDiscard(attempt)
  /\ UNCHANGED <<roundVars, takeEvents, discardEvents, backtracks, begun>>

-----------------------------------------------------------------------------
\* Deciding who acts next (329-421).

\* The seats whose next take is a naki of this discard; a pon goes before a
\* chi, a daiminkan last, and max_by_key keeps the last of equals.
Candidates(x) ==
  {a \in Seats \ {x.actor} :
     /\ MoreTakes(x, a) /\ IsNaki(NextTake(x, a))
     /\ NextTake(x, a).target = x.actor /\ NextTake(x, a).pai = x.lastDiscard}
\* mutant: chi before pon
NakiOrdChiFirst(e) == IF e.type = "chi" THEN 1 ELSE 0
NakiOrd(e) == CASE e.type = "chi" -> 0 [] e.type = "pon" -> 1 [] OTHER -> -1
Before(x, b, a) ==
  LET ordB == NakiOrd(NextTake(x, b))
      ordA == NakiOrd(NextTake(x, a))
  IN ordB < ordA \/ (ordB = ordA /\ b <= a)
Caller(x) == CHOOSE a \in Candidates(x) : \A b \in Candidates(x) : Before(x, b, a)

\* mutant: the next discard is not counted among those that are left
AmbiguousLater(x) ==
  \E i \in (x.discardIdx[x.actor] + 2)..Len(x.discards[x.actor]) :
    x.discards[x.actor][i] = Event("dahai", x.actor, x.actor, x.lastDiscard)

\* The call may belong to a later, equal discard of the same seat
\* (discard_sets counts the dahai that are left).
Ambiguous(x) ==
  \E i \in (x.discardIdx[x.actor] + 1)..Len(x.discards[x.actor]) :
    x.discards[x.actor][i] = Event("dahai", x.actor, x.actor, x.lastDiscard)
Guess(x) == <<x.lastDiscard, x.actor, x.discardIdx[x.actor]>>

NobodyClaims(x) == Candidates(x) = {}
Certain(x) == Candidates(x) # {} /\ ~Ambiguous(x)
Doubtful(x) == Candidates(x) # {} /\ Ambiguous(x)

PassTo(x, a) == [x EXCEPT !.lastActor = x.actor, !.actor = a]
GoTo(a) ==
  /\ attempt' = PassTo(attempt, a)
  /\ phase' = "take"
  /\ UNCHANGED <<roundVars, takeEvents, discardEvents, begun>>

NobodyCalls ==
  /\ phase = "next" /\ NobodyClaims(attempt)
  /\ GoTo(Shimocha(attempt.actor)) /\ UNCHANGED backtracks

CallIsCertain ==
  /\ phase = "next" /\ Certain(attempt)
  /\ GoTo(Caller(attempt)) /\ UNCHANGED backtracks

\* Entry::Vacant: take the first of the equal discards for the called one
GuessFirst ==
  /\ phase = "next" /\ Doubtful(attempt) /\ Guess(attempt) \notin DOMAIN backtracks
  /\ GoTo(Caller(attempt))
  /\ backtracks' = [g \in DOMAIN backtracks \cup {Guess(attempt)} |->
                      IF g = Guess(attempt) THEN TRUE ELSE backtracks[g]]

\* mutant: the entry is not updated, so that the first branch is taken again
GuessAgain ==
  /\ phase = "next" /\ Doubtful(attempt) /\ Guess(attempt) \in DOMAIN backtracks
  /\ backtracks[Guess(attempt)]
  /\ GoTo(Caller(attempt))
  /\ UNCHANGED backtracks

\* Entry::Occupied with use_the_first_branch: now take it for a later one
GuessSecond ==
  /\ phase = "next" /\ Doubtful(attempt) /\ Guess(attempt) \in DOMAIN backtracks
  /\ backtracks[Guess(attempt)]
  /\ GoTo(Shimocha(attempt.actor))
  /\ backtracks' = [backtracks EXCEPT ![Guess(attempt)] = FALSE]

\* Entry::Occupied otherwise: both have failed, forget the guess
GiveUpGuess ==
  /\ phase = "next" /\ Doubtful(attempt) /\ Guess(attempt) \in DOMAIN backtracks
  /\ ~backtracks[Guess(attempt)]
  /\ GoTo(Shimocha(attempt.actor))
  /\ backtracks' = [g \in DOMAIN backtracks \ {Guess(attempt)} |-> backtracks[g]]

\* A failed attempt is repeated as long as there are guesses (427-440).
Retry ==
  /\ phase = "failed"
  /\ phase' = IF DOMAIN backtracks = {} THEN "error" ELSE "take"
  /\ attempt' = IF DOMAIN backtracks = {} THEN attempt
              ELSE FreshAttempt(takeEvents, discardEvents)
  /\ begun' = begun \cup {backtracks}
  /\ UNCHANGED <<roundVars, takeEvents, discardEvents, backtracks>>

PlayRound == phase = "play" /\ Play /\ UNCHANGED convVars

Convert ==
  \/ StartConversion
  \/ Take
  \/ DiscardStep
  \/ NobodyCalls
  \/ CallIsCertain
  \/ GuessFirst
  \/ GuessSecond
  \/ GiveUpGuess
  \/ Retry

Next == PlayRound \/ Convert
Spec == ConvInit /\ [][Next]_vars

-----------------------------------------------------------------------------
(* Properties *)

\* The attempt stays within the lists and the indicators of the log.
TypeOK ==
  /\ phase \in {"play", "take", "discard", "next", "failed", "done", "error"}
  /\ attempt.doraFeed \in 0..indicators
  /\ \A a \in Seats : /\ attempt.takeIdx[a] \in 0..Len(takeEvents[a])
                      /\ attempt.discardIdx[a] \in 0..Len(discardEvents[a])
  /\ DOMAIN backtracks \subseteq Tiles \X Seats \X Nat

WithoutDora(events) == Kept(events, Range(events) \ {Dora})
Kans == {"ankan", "kakan", "daiminkan"}
Until(events, types, n) == Cardinality({i \in 1..n : events[i].type \in types})

\* The log has no order between the seats, and the guesses are a heuristic:
\* still a round that ends on a discard is converted to the very events that
\* were played, in their order, none lost and none moved to another discard.
RoundRecovered ==
  phase = "done" /\ ~table.byDraw => WithoutDora(attempt.events) = played

\* What the code says of every end of a round (225-229): the kyoku ends where
\* the actor has no discard left.  Then nothing else may be left either.
NothingLeftAtEnd ==
  phase = "done" => \A a \in Seats : ~MoreTakes(attempt, a) /\ ~MoreDiscards(attempt, a)

\* the moves are the events but what the table announces between them
IsMove(e) == e.type \notin {"dora", "reach_accepted"}
MayFollow(before, now) ==
  /\ IsNaki(now) => /\ before.type = "dahai" /\ before.pai = now.pai
                    /\ before.actor = now.target /\ now.target # now.actor
  /\ now.type = "tsumo" =>
       \/ before.type = "dahai" /\ now.actor = Shimocha(before.actor)
       \/ before.type \in Kans /\ now.actor = before.actor
LegalMoves(events) ==
  \A i, j \in DOMAIN events :
    /\ i < j /\ IsMove(events[i]) /\ IsMove(events[j])
    /\ \A k \in (i + 1)..(j - 1) : ~IsMove(events[k])
    => MayFollow(events[i], events[j])

\* Whatever the conversion returns, also for a round that ends on a draw, is a
\* sequence of legal turns: a call answers the discard right before it, and a
\* seat draws after its kamicha's discard or its own kan.
LegalOrder == phase = "done" => LegalMoves(attempt.events)

\* what is shown up to a dahai, right after a closed kan, and between an open
\* kan and the next draw
DoraOnTime(events) ==
  \A i \in DOMAIN events :
    LET e == events[i]
        shown(n) == Until(events, {"dora"}, n)
        kans == Until(events, Kans, i)
    IN /\ e.type = "dahai" => shown(i) = kans
       /\ e.type = "ankan" => shown(i + 1) = kans
       /\ e.type \in {"kakan", "daiminkan"} =>
            \A j \in DOMAIN events :
              (\A k \in i..j : events[k].type # "tsumo") => shown(j) <= kans - 1

\* Each kan shows one indicator: a closed one at once, an open one before the
\* next discard but not before the draw that follows it, since it can be
\* robbed until then, and this also when one kan follows another.
DoraTiming == phase = "done" => DoraOnTime(attempt.events)

\* No two equal discards were in doubt so far: the search is in its first attempt
\* and has noted nothing.
Unguessed == begun \subseteq {<< >>} /\ DOMAIN backtracks = {}

\* What the conversion does without a guess is right: it goes through the events
\* in the very order in which they were played, never fails, and does not end
\* before the last of them, whatever the round ends on.  (The dora events are left
\* out: of these DoraTiming speaks.)
CertainIsRight ==
  Unguessed =>
    /\ phase \notin {"failed", "error"}
    /\ IsPrefix(WithoutDora(attempt.events), played)
    /\ phase = "done" => WithoutDora(attempt.events) = played

\* The places where a naki may belong to one of several equal discards: all
\* but the last discard of a tile that some other seat calls from this seat.
Doubts ==
  {place \in Seats \X (1..profile.turns) :
     LET a == place[1]
         i == place[2]
     IN /\ i \in DOMAIN discardEvents[a] /\ discardEvents[a][i].type = "dahai"
        /\ \E j \in (i + 1)..Len(discardEvents[a]) :
             discardEvents[a][j] = discardEvents[a][i]
        /\ \E b \in Seats \ {a} : \E k \in DOMAIN takeEvents[b] :
             /\ IsNaki(takeEvents[b][k]) /\ takeEvents[b][k].target = a
             /\ takeEvents[b][k].pai = discardEvents[a][i].pai}

\* A round that was played is not rejected if there is one place to guess at:
\* the first and the second branch are both tried (343-418).
OneDoubtConverts == phase = "error" => Cardinality(Doubts) > 1

\* No round that was played is rejected: where both branches are wrong the
\* search backtracks to the previous point of divergence (406-411).
EveryRoundConverts == phase # "error"

\* The loop around the attempts ends (427-440): an attempt is determined by the
\* log and backtracks, so the loop goes on for ever if and only if an attempt
\* begins with the backtracks of an earlier one.
NoAttemptTwice ==
  [][phase = "failed" /\ phase' = "take" => backtracks' \notin begun]_vars
=============================================================================
