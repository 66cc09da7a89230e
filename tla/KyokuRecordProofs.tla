-------------------------- MODULE KyokuRecordProofs --------------------------
(***************************************************************************)
(* Proofs about what the converters make of a round, compared with the     *)
(* round that was played, for rounds of any length: a Majsoul record       *)
(* (MajsoulMoves) and an mjlog (MjlogReplay).                              *)
(***************************************************************************)
EXTENDS MjlogReplay, MajsoulMoves, KyokuRoundProofs, FiniteSetTheorems

-----------------------------------------------------------------------------
(***************************************************************************)
(* The loop of events_to_mjai over a record.                               *)
(***************************************************************************)

OutEvents ==
  [type : {"start_kyoku", "tsumo", "dahai", "reach", "reach_accepted", "ankan", "kakan"}
            \cup Nakis \cup {"hora", "ryukyoku", "end_kyoku"},
   actor : Seats \cup {Nobody}, target : Seats \cup {Nobody}, pai : Tiles \cup {Other}]
Written(out, reach, dropped, discarder, error) ==
  [out |-> out, reach |-> reach, dropped |-> dropped, discarder |-> discarder, error |-> error]
States ==
  [out : Seq(OutEvents), reach : Seats \cup {Nobody}, dropped : Nat,
   discarder : Seats \cup {Nobody}, error : BOOLEAN]

Wins == [seat : Seats, zimo : BOOLEAN]
RecordedEvents == {e \in RoundEvents : e.type \notin {"reach", "reach_accepted"}}
Marks == {Event(type, Nobody, Nobody, Other) : type \in {"new_round", "hule", "draw"}}
RecordEntries ==
  [event : RecordedEvents \cup Marks, liqi : BOOLEAN, hules : Seq(Wins)]

Plain(type) == Event(type, Nobody, Nobody, Other)
Declares(a) == Event("reach", a, a, Other)
IsAccepted(a) == Event("reach_accepted", a, a, Other)

LEMMA OutTypes ==
  /\ RoundEvents \subseteq OutEvents
  /\ \A a \in Seats : /\ Declares(a) \in OutEvents /\ IsAccepted(a) \in OutEvents
                      /\ Declares(a).type = "reach" /\ Declares(a).actor = a
                      /\ IsAccepted(a).type = "reach_accepted" /\ IsAccepted(a).actor = a
  /\ \A type \in {"start_kyoku", "ryukyoku", "end_kyoku"} :
       Plain(type) \in OutEvents /\ Plain(type).type = type
  BY DEF RoundEvents, OutEvents, Declares, IsAccepted, Plain, Event

LEMMA WrittenFields ==
  ASSUME NEW out, NEW reach, NEW dropped, NEW discarder, NEW error,
         NEW w, w = Written(out, reach, dropped, discarder, error)
  PROVE  /\ w.out = out /\ w.reach = reach /\ w.dropped = dropped
         /\ w.discarder = discarder /\ w.error = error
  BY DEF Written

LEMMA ConvertedEvent ==
  ASSUME NEW c \in States, NEW r \in RecordEntries, r.event \in RecordedEvents
  PROVE  LET e == r.event
             d == Converted(c, r)
         IN /\ e.type = "tsumo" =>
                 d = IF c.reach = e.actor
                     THEN Written(c.out \o <<IsAccepted(e.actor), e>>, Nobody, c.dropped,
                                  c.discarder, c.error)
                     ELSE Written(c.out \o <<e>>, c.reach, c.dropped, c.discarder, c.error)
            /\ e.type = "dahai" =>
                 d = IF r.liqi
                     THEN Written(c.out \o <<Declares(e.actor), e>>, e.actor, c.dropped,
                                  e.actor, c.error)
                     ELSE Written(c.out \o <<e>>, c.reach, c.dropped, e.actor, c.error)
            /\ e.type = "kakan" =>
                 d = Written(c.out \o <<e>>, c.reach, c.dropped, e.actor, c.error)
            /\ e.type \in {"ankan"} \cup Nakis =>
                 d = Written(c.out \o <<e>>, c.reach, c.dropped, c.discarder, c.error)
<1> DEFINE e == r.event
           d == Converted(c, r)
<1>1. \A es : Emit(c, es) = Written(c.out \o es, c.reach, c.dropped, c.discarder, c.error)
  <2>1. ASSUME NEW f PROVE [c EXCEPT !.out = f] = Written(f, c.reach, c.dropped, c.discarder, c.error)
    BY DEF Written, States
  <2> QED
    BY <2>1 DEF Emit
<1> HIDE DEF e, d
<1>2. CASE e.type = "tsumo"
  <2>1. d = DealTile(c, e)
    BY <1>2 DEF Converted, Nakis, d, e
  <2>2. CASE c.reach = e.actor
    <3>1. d = [Emit(c, <<IsAccepted(e.actor), e>>) EXCEPT !.reach = Nobody]
      BY <2>1, <2>2 DEF DealTile, IsAccepted
    <3>2. d = Written(c.out \o <<IsAccepted(e.actor), e>>, Nobody, c.dropped, c.discarder, c.error)
      <4> DEFINE w == Emit(c, <<IsAccepted(e.actor), e>>)
                 o == c.out \o <<IsAccepted(e.actor), e>>
      <4>1. w = Written(o, c.reach, c.dropped, c.discarder, c.error)
        BY <1>1
      <4> HIDE DEF w, o
      <4>2. [w EXCEPT !.reach = Nobody] = Written(o, Nobody, c.dropped, c.discarder, c.error)
        BY <4>1 DEF Written
      <4> QED
        BY <3>1, <4>2 DEF w, o
    <3> QED
      BY <1>2, <2>2, <3>2 DEF Nakis, e, d
  <2>3. CASE c.reach # e.actor
    <3>1. d = Written(c.out \o <<e>>, c.reach, c.dropped, c.discarder, c.error)
      BY <1>1, <2>1, <2>3 DEF DealTile
    <3> QED
      BY <1>2, <2>3, <3>1 DEF Nakis, e, d
  <2> QED
    BY <2>2, <2>3
<1>3. CASE e.type = "dahai"
  <2>1. d = DiscardTile(c, e, r.liqi)
    BY <1>3 DEF Converted, Nakis, d, e
  <2>2. CASE r.liqi
    <3>1. <<Declares(e.actor)>> \o <<e>> = <<Declares(e.actor), e>>
      <4> DEFINE x == Declares(e.actor)
      <4> HIDE DEF x
      <4>1. x \in {x, e} /\ e \in {x, e} /\ <<x>> \in Seq({x, e})
        BY Pair
      <4>2. <<x>> \o <<e>> = Append(<<x>>, e)
        BY <4>1, Lengthened
      <4>3. <<x, e>> = Append(<<x>>, e)
        BY <4>1, Pair
      <4> QED
        BY <4>2, <4>3 DEF x
    <3>2. d = [Emit(c, <<Declares(e.actor), e>>) EXCEPT !.discarder = e.actor, !.reach = e.actor]
      BY <2>1, <2>2, <3>1 DEF DiscardTile, Declares
    <3>3. d = Written(c.out \o <<Declares(e.actor), e>>, e.actor, c.dropped, e.actor, c.error)
      <4> DEFINE w == Emit(c, <<Declares(e.actor), e>>)
                 o == c.out \o <<Declares(e.actor), e>>
      <4>1. w = Written(o, c.reach, c.dropped, c.discarder, c.error)
        BY <1>1
      <4> HIDE DEF w, o
      <4>2. [w EXCEPT !.discarder = e.actor] = Written(o, c.reach, c.dropped, e.actor, c.error)
        BY <4>1 DEF Written
      <4>3. [[w EXCEPT !.discarder = e.actor] EXCEPT !.reach = e.actor]
              = Written(o, e.actor, c.dropped, e.actor, c.error)
        <5> DEFINE v == [w EXCEPT !.discarder = e.actor]
        <5>1. v = Written(o, c.reach, c.dropped, e.actor, c.error)
          BY <4>2
        <5> HIDE DEF v
        <5>2. [v EXCEPT !.reach = e.actor] = Written(o, e.actor, c.dropped, e.actor, c.error)
          BY <5>1 DEF Written
        <5> QED
          BY <5>2 DEF v
      <4>4. [w EXCEPT !.discarder = e.actor, !.reach = e.actor]
              = [[w EXCEPT !.discarder = e.actor] EXCEPT !.reach = e.actor]
        OBVIOUS
      <4> QED
        BY <3>2, <4>3, <4>4 DEF w, o
    <3> QED
      BY <1>3, <2>2, <3>3 DEF Nakis, e, d
  <2>3. CASE ~r.liqi
    <3>1. << >> \o <<e>> = <<e>>
      OBVIOUS
    <3> DEFINE w == Emit(c, <<e>>)
               o == c.out \o <<e>>
    <3>2. w = Written(o, c.reach, c.dropped, c.discarder, c.error)
      BY <1>1
    <3>3. d = [w EXCEPT !.discarder = e.actor, !.reach = w.reach]
      BY <2>1, <2>3, <3>1 DEF DiscardTile
    <3> HIDE DEF w, o
    <3>4. d = Written(o, c.reach, c.dropped, e.actor, c.error)
      <4>1. w.reach = c.reach
        BY <3>2, WrittenFields
      <4>2. [w EXCEPT !.discarder = e.actor]
              = Written(o, c.reach, c.dropped, e.actor, c.error)
        BY <3>2 DEF Written
      <4>3. [[w EXCEPT !.discarder = e.actor] EXCEPT !.reach = w.reach]
              = Written(o, w.reach, c.dropped, e.actor, c.error)
        BY <4>2 DEF Written
      <4>4. [w EXCEPT !.discarder = e.actor, !.reach = w.reach]
              = [[w EXCEPT !.discarder = e.actor] EXCEPT !.reach = w.reach]
        OBVIOUS
      <4> QED
        BY <3>3, <4>1, <4>3, <4>4
    <3> QED
      BY <1>3, <2>3, <3>4 DEF Nakis, e, d, o
  <2> QED
    BY <2>2, <2>3
<1>4. CASE e.type = "kakan"
  <2>1. d = AddGang(c, e)
    BY <1>4 DEF Converted, Nakis, d, e
  <2>2. d = Written(c.out \o <<e>>, c.reach, c.dropped, e.actor, c.error)
    <3> DEFINE w == Emit(c, <<e>>)
    <3>1. w = Written(c.out \o <<e>>, c.reach, c.dropped, c.discarder, c.error)
      BY <1>1
    <3>2. d = [w EXCEPT !.discarder = e.actor]
      BY <2>1 DEF AddGang
    <3> HIDE DEF w
    <3> QED
      BY <3>1, <3>2 DEF Written
  <2> QED
    BY <1>4, <2>2 DEF Nakis, e, d
<1>5. CASE e.type = "ankan"
  <2>1. d = AnGang(c, e)
    BY <1>5 DEF Converted, Nakis, d, e
  <2>2. Event("ankan", e.actor, e.actor, e.pai) = e
    BY <1>5 DEF RecordedEvents, RoundEvents, Event, e
  <2>3. d = Written(c.out \o <<e>>, c.reach, c.dropped, c.discarder, c.error)
    BY <1>1, <2>1, <2>2 DEF AnGang
  <2> QED
    BY <1>5, <2>3 DEF Nakis, e, d
<1>6. CASE e.type \in Nakis
  <2>1. d = ChiPengGang(c, e)
    BY <1>6 DEF Converted, Nakis, d, e
  <2>2. Event(e.type, e.actor, e.target, e.pai) = e
    BY DEF RecordedEvents, RoundEvents, Event, e
  <2>3. d = Written(c.out \o <<e>>, c.reach, c.dropped, c.discarder, c.error)
    BY <1>1, <2>1, <2>2 DEF ChiPengGang
  <2> QED
    BY <1>6, <2>3 DEF Nakis, e, d
<1>7. e.type \in {"tsumo", "dahai", "kakan", "ankan"} \cup Nakis
  BY DEF RecordedEvents, RoundEvents, e
<1> QED
  BY <1>2, <1>3, <1>4, <1>5, <1>6, <1>7 DEF e, d

LEMMA StatesWritten ==
  /\ \A c \in States : c = Written(c.out, c.reach, c.dropped, c.discarder, c.error)
  /\ \A out \in Seq(OutEvents), reach \in Seats \cup {Nobody}, dropped \in Nat,
        discarder \in Seats \cup {Nobody}, error \in BOOLEAN :
       Written(out, reach, dropped, discarder, error) \in States
  BY DEF Written, States

Horas(c, hules) ==
  [i \in DOMAIN hules |->
     Event("hora", hules[i].seat, IF hules[i].zimo THEN hules[i].seat ELSE c.discarder, Other)]

\* What the marks of a round are converted to.
LEMMA ConvertedMark ==
  ASSUME NEW c \in States, NEW hules
  PROVE  LET n == c.dropped + Num(c.reach # Nobody)
         IN /\ n \in Nat
            /\ Converted(c, Mark("new_round", hules)) =
                 Written(c.out \o <<Plain("start_kyoku")>>, Nobody, n, Nobody, c.error)
            /\ Converted(c, Mark("draw", hules)) =
                 Written(c.out \o <<Plain("ryukyoku"), Plain("end_kyoku")>>, Nobody, n,
                         c.discarder, c.error)
            /\ Converted(c, Mark("hule", hules)) =
                 IF c.discarder = Nobody /\ \E i \in DOMAIN hules : ~hules[i].zimo
                 THEN Written(c.out, c.reach, c.dropped, c.discarder, TRUE)
                 ELSE Written(c.out \o Append(Horas(c, hules), Plain("end_kyoku")), Nobody, n,
                              c.discarder, c.error)
<1> DEFINE n == c.dropped + Num(c.reach # Nobody)
           w == DropReach(c)
<1>1. c = Written(c.out, c.reach, c.dropped, c.discarder, c.error) /\ c.dropped \in Nat
  BY StatesWritten DEF States
<1>2. n \in Nat
  BY <1>1 DEF Num
<1>3. w = Written(c.out, Nobody, n, c.discarder, c.error)
  <2> DEFINE v == [c EXCEPT !.reach = Nobody]
  <2>1. v = Written(c.out, Nobody, c.dropped, c.discarder, c.error)
    BY <1>1 DEF Written
  <2>2. w = [v EXCEPT !.dropped = n]
    <3>1. w = [c EXCEPT !.reach = Nobody, !.dropped = n]
      BY DEF DropReach
    <3> HIDE DEF n
    <3> QED
      BY <3>1
  <2> HIDE DEF v, n
  <2> QED
    BY <2>1, <2>2 DEF Written
<1> HIDE DEF n, w
<1>4. ASSUME NEW es PROVE Emit(w, es) = Written(c.out \o es, Nobody, n, c.discarder, c.error)
  <2> DEFINE f == w.out \o es
  <2>1. w.out = c.out
    BY <1>3, WrittenFields
  <2>2. Emit(w, es) = [w EXCEPT !.out = f]
    BY DEF Emit
  <2> HIDE DEF f
  <2>3. [w EXCEPT !.out = f] = Written(f, Nobody, n, c.discarder, c.error)
    BY <1>3 DEF Written
  <2> QED
    BY <2>1, <2>2, <2>3 DEF f
<1>5. ASSUME NEW type PROVE Mark(type, hules).event.type = type /\ Mark(type, hules).hules = hules
  BY DEF Mark, Entry, Event
<1>6. Converted(c, Mark("new_round", hules)) =
        Written(c.out \o <<Plain("start_kyoku")>>, Nobody, n, Nobody, c.error)
  <2> DEFINE r == Mark("new_round", hules)
             v == Emit(w, <<Plain("start_kyoku")>>)
             o == c.out \o <<Plain("start_kyoku")>>
  <2>1. Converted(c, r) = NewRound(c)
    <3>1. r.event.type = "new_round"
      BY <1>5
    <3> HIDE DEF r
    <3> QED
      BY <3>1 DEF Converted, Nakis
  <2>2. NewRound(c) = [v EXCEPT !.discarder = Nobody]
    BY DEF NewRound, w, Plain
  <2>3. v = Written(o, Nobody, n, c.discarder, c.error)
    BY <1>4
  <2> HIDE DEF v, o, r
  <2>4. [v EXCEPT !.discarder = Nobody] = Written(o, Nobody, n, Nobody, c.error)
    BY <2>3 DEF Written
  <2> QED
    BY <2>1, <2>2, <2>4 DEF o, r
<1>7. Converted(c, Mark("draw", hules)) =
        Written(c.out \o <<Plain("ryukyoku"), Plain("end_kyoku")>>, Nobody, n, c.discarder, c.error)
  <2> DEFINE r == Mark("draw", hules)
  <2>1. Converted(c, r) = NoTile(c)
    <3>1. r.event.type = "draw"
      BY <1>5
    <3> HIDE DEF r
    <3> QED
      BY <3>1 DEF Converted, Nakis
  <2> QED
    BY <1>4, <2>1 DEF NoTile, w, Plain
<1>8. Converted(c, Mark("hule", hules)) =
        IF c.discarder = Nobody /\ \E i \in DOMAIN hules : ~hules[i].zimo
        THEN Written(c.out, c.reach, c.dropped, c.discarder, TRUE)
        ELSE Written(c.out \o Append(Horas(c, hules), Plain("end_kyoku")), Nobody, n,
                     c.discarder, c.error)
  <2> DEFINE r == Mark("hule", hules)
  <2>1. Converted(c, r) = Hule(c, hules)
    <3>1. r.event.type = "hule" /\ r.hules = hules
      BY <1>5
    <3> HIDE DEF r
    <3> QED
      BY <3>1 DEF Converted, Nakis
  <2>2. [c EXCEPT !.error = TRUE] = Written(c.out, c.reach, c.dropped, c.discarder, TRUE)
    <3> DEFINE o == c.out
               a == c.reach
               d == c.dropped
               b == c.discarder
               f == c.error
               t == TRUE
    <3>1. c = Written(o, a, d, b, f)
      BY <1>1
    <3> HIDE DEF o, a, d, b, f, t
    <3>2. [c EXCEPT !.error = t] = Written(o, a, d, b, t)
      BY <3>1 DEF Written
    <3> QED
      BY <3>2 DEF o, a, d, b, t
  <2>3. Emit(w, Append(Horas(c, hules), Plain("end_kyoku")))
          = Written(c.out \o Append(Horas(c, hules), Plain("end_kyoku")), Nobody, n,
                    c.discarder, c.error)
    BY <1>4
  <2>4. Hule(c, hules) = IF c.discarder = Nobody /\ \E i \in DOMAIN hules : ~hules[i].zimo
                         THEN [c EXCEPT !.error = TRUE]
                         ELSE Emit(w, Append(Horas(c, hules), Plain("end_kyoku")))
    BY DEF Hule, Horas, w, Plain
  <2> QED
    BY <2>1, <2>2, <2>3, <2>4
<1> QED
  BY <1>2, <1>6, <1>7, <1>8 DEF n

LEMMA HorasType ==
  ASSUME NEW c \in States, NEW hules \in Seq(Wins)
  PROVE  /\ Horas(c, hules) \in Seq(OutEvents) /\ Len(Horas(c, hules)) = Len(hules)
         /\ \A i \in 1..Len(hules) :
              LET e == Horas(c, hules)[i]
              IN /\ hules[i].seat \in Seats /\ e.type = "hora" /\ e.actor = hules[i].seat
                 /\ e.target = (IF hules[i].zimo THEN hules[i].seat ELSE c.discarder)
<1> DEFINE h(i) == Event("hora", hules[i].seat,
                         IF hules[i].zimo THEN hules[i].seat ELSE c.discarder, Other)
<1>1. Len(hules) \in Nat /\ DOMAIN hules = 1..Len(hules) /\ \A i \in 1..Len(hules) : hules[i] \in Wins
  BY LenProperties, ElementOfSeq
<1>2. ASSUME NEW i \in 1..Len(hules)
      PROVE  /\ h(i) \in OutEvents /\ hules[i].seat \in Seats /\ h(i).type = "hora"
             /\ h(i).actor = hules[i].seat
             /\ h(i).target = (IF hules[i].zimo THEN hules[i].seat ELSE c.discarder)
  BY <1>1 DEF Event, OutEvents, Wins, States
<1> HIDE DEF h
<1>3. Horas(c, hules) = [i \in 1..Len(hules) |-> h(i)]
  BY <1>1 DEF Horas, h
<1>4. [i \in 1..Len(hules) |-> h(i)] \in Seq(OutEvents)
  BY <1>1, <1>2
<1>5. Len([i \in 1..Len(hules) |-> h(i)]) = Len(hules)
  BY <1>1
<1>6. \A i \in 1..Len(hules) : [j \in 1..Len(hules) |-> h(j)][i] = h(i)
  OBVIOUS
<1> QED
  BY <1>2, <1>3, <1>4, <1>5, <1>6

LEMMA ConvertedType ==
  ASSUME NEW c \in States, NEW r \in RecordEntries PROVE Converted(c, r) \in States
<1>1. /\ c.out \in Seq(OutEvents) /\ c.reach \in Seats \cup {Nobody} /\ c.dropped \in Nat
      /\ c.discarder \in Seats \cup {Nobody} /\ c.error \in BOOLEAN
  BY DEF States
<1>2. CASE r.event \in RecordedEvents
  <2> DEFINE e == r.event
  <2>1. e \in OutEvents /\ e.actor \in Seats /\ r.liqi \in BOOLEAN
        /\ e.type \in {"tsumo", "dahai", "kakan", "ankan"} \cup Nakis
    BY <1>2, OutTypes DEF RecordedEvents, RoundEvents, RecordEntries
  <2>2. Declares(e.actor) \in OutEvents /\ IsAccepted(e.actor) \in OutEvents
    BY <2>1, OutTypes
  <2>3. <<e>> \in Seq(OutEvents) /\ <<Declares(e.actor), e>> \in Seq(OutEvents)
        /\ <<IsAccepted(e.actor), e>> \in Seq(OutEvents)
    BY <2>1, <2>2, Pair
  <2>4. /\ c.out \o <<e>> \in Seq(OutEvents)
        /\ c.out \o <<Declares(e.actor), e>> \in Seq(OutEvents)
        /\ c.out \o <<IsAccepted(e.actor), e>> \in Seq(OutEvents)
    BY <1>1, <2>3, ConcatProperties
  <2>5. \E out \in Seq(OutEvents), reach \in Seats \cup {Nobody}, discarder \in Seats \cup {Nobody} :
          Converted(c, r) = Written(out, reach, c.dropped, discarder, c.error)
    <3> HIDE DEF e
    <3>1. CASE e.type = "tsumo"
      BY <1>1, <1>2, <2>4, <3>1, ConvertedEvent DEF e
    <3>2. CASE e.type = "dahai"
      BY <1>1, <1>2, <2>1, <2>4, <3>2, ConvertedEvent DEF e
    <3>3. CASE e.type = "kakan"
      BY <1>1, <1>2, <2>1, <2>4, <3>3, ConvertedEvent DEF e
    <3>4. CASE e.type \in {"ankan"} \cup Nakis
      BY <1>1, <1>2, <2>1, <2>4, <3>4, ConvertedEvent DEF e
    <3> QED
      BY <2>1, <3>1, <3>2, <3>3, <3>4
  <2>6. PICK out \in Seq(OutEvents), reach \in Seats \cup {Nobody}, discarder \in Seats \cup {Nobody} :
          Converted(c, r) = Written(out, reach, c.dropped, discarder, c.error)
    BY <2>5
  <2>7. Written(out, reach, c.dropped, discarder, c.error) \in States
    BY <1>1, StatesWritten
  <2> QED
    BY <2>6, <2>7
<1>3. CASE r.event \in Marks
  <2>1. PICK type \in {"new_round", "hule", "draw"} : r.event = Event(type, Nobody, Nobody, Other)
    BY <1>3 DEF Marks
  <2> DEFINE m == Mark(type, r.hules)
  <2>2. m.event = r.event /\ m.hules = r.hules /\ r.event.type = type
    BY <2>1 DEF Mark, Entry, Event
  <2>3. Converted(c, r) = Converted(c, m)
    <3> HIDE DEF m
    <3>1. CASE type = "new_round"
      BY <2>2, <3>1 DEF Converted, Nakis
    <3>2. CASE type = "hule"
      BY <2>2, <3>2 DEF Converted, Nakis
    <3>3. CASE type = "draw"
      BY <2>2, <3>3 DEF Converted, Nakis
    <3> QED
      BY <3>1, <3>2, <3>3
  <2>4. r.hules \in Seq(Wins)
    BY DEF RecordEntries
  <2>5. /\ Plain("start_kyoku") \in OutEvents /\ Plain("ryukyoku") \in OutEvents
        /\ Plain("end_kyoku") \in OutEvents
    BY OutTypes
  <2>6. /\ <<Plain("start_kyoku")>> \in Seq(OutEvents)
        /\ <<Plain("ryukyoku"), Plain("end_kyoku")>> \in Seq(OutEvents)
        /\ Append(Horas(c, r.hules), Plain("end_kyoku")) \in Seq(OutEvents)
    BY <2>4, <2>5, Pair, HorasType, Appended
  <2>7. /\ c.out \o <<Plain("start_kyoku")>> \in Seq(OutEvents)
        /\ c.out \o <<Plain("ryukyoku"), Plain("end_kyoku")>> \in Seq(OutEvents)
        /\ c.out \o Append(Horas(c, r.hules), Plain("end_kyoku")) \in Seq(OutEvents)
    BY <1>1, <2>6, ConcatProperties
  <2>8. \E out \in Seq(OutEvents), reach \in Seats \cup {Nobody}, dropped \in Nat,
           discarder \in Seats \cup {Nobody}, error \in BOOLEAN :
          Converted(c, m) = Written(out, reach, dropped, discarder, error)
    <3>1. CASE type = "new_round"
      <4> DEFINE n == c.dropped + Num(c.reach # Nobody)
                 o == c.out \o <<Plain("start_kyoku")>>
      <4>1. n \in Nat /\ Converted(c, m) = Written(o, Nobody, n, Nobody, c.error)
        BY <3>1, ConvertedMark
      <4> HIDE DEF n, o, m
      <4> QED
        BY <1>1, <2>7, <4>1 DEF o
    <3>2. CASE type = "hule"
      <4> DEFINE n == c.dropped + Num(c.reach # Nobody)
                 o == c.out \o Append(Horas(c, r.hules), Plain("end_kyoku"))
      <4>1. n \in Nat /\ \/ Converted(c, m) = Written(c.out, c.reach, c.dropped, c.discarder, TRUE)
                         \/ Converted(c, m) = Written(o, Nobody, n, c.discarder, c.error)
        BY <3>2, ConvertedMark
      <4> HIDE DEF n, o, m
      <4> QED
        BY <1>1, <2>7, <4>1 DEF o
    <3>3. CASE type = "draw"
      BY <1>1, <2>7, <3>3, ConvertedMark
    <3> QED
      BY <3>1, <3>2, <3>3
  <2> QED
    BY <2>3, <2>8, StatesWritten
<1> QED
  BY <1>2, <1>3 DEF RecordEntries

\* The loop is the recursion it is written as.
Loops(f, c, s) ==
  /\ f[0] = c /\ ConvertedFrom(c, s) = f[Len(s)]
  /\ \A n \in 1..Len(s) : f[n] = Converted(f[n - 1], s[n])

LEMMA LoopRecursion ==
  ASSUME NEW c \in States, NEW s \in Seq(RecordEntries)
  PROVE  \E f : Loops(f, c, s) /\ \A n \in 0..Len(s) : f[n] \in States
<1> DEFINE N == Len(s)
           step == [p \in (1..N) \X States |-> Converted(p[2], s[p[1]])]
           Is(f) == f = [n \in 0..N |-> IF n = 0 THEN c ELSE Converted(f[n - 1], s[n])]
<1>1. N \in Nat /\ \A n \in 1..N : s[n] \in RecordEntries
  BY LenProperties, ElementOfSeq
<1>2. step \in [(1..N) \X States -> States]
  <2>1. ASSUME NEW n \in 1..N, NEW d \in States PROVE Converted(d, s[n]) \in States
    BY <1>1, ConvertedType
  <2> HIDE DEF N
  <2> QED
    BY <2>1
<1>3. PICK f \in [0..N -> States] : Repeats(f, c, step, N)
  <2> HIDE DEF N, step
  <2> QED
    BY <1>1, <1>2, Repeat
<1>4. ASSUME NEW n \in 1..N PROVE f[n] = Converted(f[n - 1], s[n])
  <2>1. n - 1 \in 0..N /\ f[n - 1] \in States
    BY <1>1
  <2>2. <<n, f[n - 1]>> \in (1..N) \X States
    BY <2>1
  <2>3. step[<<n, f[n - 1]>>] = Converted(f[n - 1], s[n])
    <3> HIDE DEF N
    <3> QED
      BY <2>2
  <2>4. f[n] = step[<<n, f[n - 1]>>]
    <3> HIDE DEF step
    <3> QED
      BY <1>3 DEF Repeats
  <2> QED
    BY <2>3, <2>4
<1>5. f[0] = c
  BY <1>3 DEF Repeats
<1>6. Is(f)
  <2>1. \A n \in 0..N : n # 0 => n \in 1..N
    BY <1>1
  <2>2. \A n \in 0..N : f[n] = IF n = 0 THEN c ELSE Converted(f[n - 1], s[n])
    BY <1>4, <1>5, <2>1
  <2> HIDE DEF N
  <2> QED
    BY <2>2
<1> DEFINE h == CHOOSE g : Is(g)
<1>7. Is(h)
  <2> HIDE DEF Is
  <2> QED
    BY <1>6
<1>8. ConvertedFrom(c, s) = h[N]
  BY DEF ConvertedFrom
<1> HIDE DEF h
<1>9. h[0] = c /\ \A n \in 1..N : h[n] = Converted(h[n - 1], s[n])
  <2>1. 0 \in 0..N /\ \A n \in 1..N : n \in 0..N /\ n # 0
    BY <1>1
  <2> HIDE DEF N
  <2> QED
    BY <1>7, <2>1
<1>10. \A n \in 0..N : h[n] = f[n]
  <2> DEFINE same == {n \in 0..N : h[n] = f[n]}
  <2>1. 0 \in same
    BY <1>1, <1>5, <1>9
  <2>2. ASSUME NEW n \in 1..N, n - 1 \in same PROVE n \in same
    BY <1>4, <1>9, <2>2
  <2>3. 0..N \subseteq same
    <3> HIDE DEF same
    <3> QED
      BY <1>1, <2>1, <2>2, UpTo
  <2> QED
    BY <2>3
<1>11. \A n \in 0..N : h[n] \in States
  BY <1>10
<1>12. Loops(h, c, s)
  BY <1>8, <1>9 DEF Loops
<1> QED
  BY <1>11, <1>12

LEMMA LoopAppend ==
  ASSUME NEW c \in States, NEW s \in Seq(RecordEntries), NEW r \in RecordEntries
  PROVE  /\ ConvertedFrom(c, Append(s, r)) = Converted(ConvertedFrom(c, s), r)
         /\ ConvertedFrom(c, s) \in States
<1> DEFINE t == Append(s, r)
           N == Len(s)
<1>1. /\ t \in Seq(RecordEntries) /\ Len(t) = N + 1 /\ N \in Nat /\ t[N + 1] = r
      /\ \A i \in 1..N : t[i] = s[i]
  BY Appended
<1>2. PICK f : Loops(f, c, s) /\ \A n \in 0..N : f[n] \in States
  BY LoopRecursion
<1>3. PICK g : Loops(g, c, t)
  <2> HIDE DEF t
  <2> QED
    BY <1>1, LoopRecursion
<1>4. /\ f[0] = c /\ ConvertedFrom(c, s) = f[N]
      /\ \A n \in 1..N : f[n] = Converted(f[n - 1], s[n])
  BY <1>2 DEF Loops
<1>5. /\ g[0] = c /\ ConvertedFrom(c, t) = g[N + 1]
      /\ \A n \in 1..(N + 1) : g[n] = Converted(g[n - 1], t[n])
  <2> HIDE DEF t, N
  <2> QED
    BY <1>1, <1>3 DEF Loops
<1> HIDE DEF t, N
<1>6. \A n \in 0..N : f[n] = g[n]
  <2> DEFINE same == {n \in 0..N : f[n] = g[n]}
  <2>1. 0 \in same
    BY <1>1, <1>4, <1>5
  <2>2. ASSUME NEW n \in 1..N, n - 1 \in same PROVE n \in same
    <3>1. f[n - 1] = g[n - 1] /\ s[n] = t[n] /\ n \in 1..(N + 1) /\ n \in 0..N
      BY <1>1, <2>2
    <3>2. f[n] = g[n]
      BY <1>4, <1>5, <3>1
    <3> QED
      BY <3>1, <3>2
  <2>3. 0..N \subseteq same
    <3> HIDE DEF same
    <3> QED
      BY <1>1, <2>1, <2>2, UpTo
  <2> QED
    BY <2>3
<1>7. N \in 0..N /\ N + 1 \in 1..(N + 1) /\ (N + 1) - 1 = N
  BY <1>1
<1>8. g[N + 1] = Converted(f[N], r)
  BY <1>1, <1>5, <1>6, <1>7
<1> QED
  BY <1>2, <1>4, <1>5, <1>7, <1>8 DEF t

LEMMA LoopShort ==
  ASSUME NEW c \in States
  PROVE  /\ ConvertedFrom(c, << >>) = c
         /\ \A r \in RecordEntries : ConvertedFrom(c, <<r>>) = Converted(c, r)
<1>1. << >> \in Seq(RecordEntries) /\ Len(<< >>) = 0
  BY EmptySeq
<1>2. PICK f : Loops(f, c, << >>)
  BY <1>1, LoopRecursion
<1>3. ConvertedFrom(c, << >>) = c
  BY <1>1, <1>2 DEF Loops
<1>4. ASSUME NEW r \in RecordEntries PROVE ConvertedFrom(c, <<r>>) = Converted(c, r)
  <2>1. Append(<< >>, r) = <<r>>
    OBVIOUS
  <2> QED
    BY <1>1, <1>3, <2>1, LoopAppend
<1> QED
  BY <1>3, <1>4

LEMMA LoopConcat ==
  ASSUME NEW c \in States, NEW s \in Seq(RecordEntries)
  PROVE  \A t \in Seq(RecordEntries) :
           ConvertedFrom(c, s \o t) = ConvertedFrom(ConvertedFrom(c, s), t)
<1> DEFINE T == RecordEntries
           d == ConvertedFrom(c, s)
           P == {t \in Seq(T) : ConvertedFrom(c, s \o t) = ConvertedFrom(d, t)}
<1>0. d \in States
  <2>1. PICK f : Loops(f, c, s) /\ \A n \in 0..Len(s) : f[n] \in States
    BY LoopRecursion
  <2>2. Len(s) \in 0..Len(s)
    BY LenProperties
  <2> QED
    BY <2>1, <2>2 DEF Loops
<1>1. << >> \in P
  <2>1. << >> \in Seq(T) /\ s \o << >> = s
    BY EmptySeq, ConcatEmptySeq
  <2> QED
    BY <1>0, <2>1, LoopShort
<1>2. ASSUME NEW t \in P, NEW x \in T PROVE Append(t, x) \in P
  <2>1. /\ t \in Seq(T) /\ Append(t, x) \in Seq(T) /\ s \o t \in Seq(T)
        /\ s \o Append(t, x) = Append(s \o t, x)
    BY Appended, AppendBehind
  <2>2. ConvertedFrom(c, Append(s \o t, x)) = Converted(ConvertedFrom(c, s \o t), x)
    <3> DEFINE u == s \o t
    <3>1. u \in Seq(RecordEntries)
      BY <2>1
    <3> HIDE DEF u
    <3>2. ConvertedFrom(c, Append(u, x)) = Converted(ConvertedFrom(c, u), x)
      BY <3>1, LoopAppend
    <3> QED
      BY <3>2 DEF u
  <2>3. ConvertedFrom(d, Append(t, x)) = Converted(ConvertedFrom(d, t), x)
    <3> HIDE DEF d
    <3> QED
      BY <1>0, <2>1, LoopAppend
  <2>4. ConvertedFrom(c, s \o t) = ConvertedFrom(d, t)
    BY <1>2
  <2> HIDE DEF d
  <2> QED
    BY <2>1, <2>2, <2>3, <2>4
<1>3. Seq(T) \subseteq P
  <2> HIDE DEF P, T, d
  <2>1. P \in SUBSET Seq(T)
    BY DEF P
  <2> QED
    BY <1>1, <1>2, <2>1, ListInduction
<1> QED
  BY <1>3

-----------------------------------------------------------------------------
(***************************************************************************)
(* What holds of the events that are written, and how it is kept when one  *)
(* more is written.                                                        *)
(***************************************************************************)

Of(types) == {e \in OutEvents : e.type \in types}
Moved(out) == Kept(out, Of({"tsumo", "dahai", "reach", "ankan", "kakan"} \cup Nakis))
Started(out) == Kept(out, Of({"start_kyoku"}))
Ended(out) == Kept(out, Of({"end_kyoku"}))

\* a reach of a among the first n events, in this round and not accepted
Waiting(out, a, n) ==
  \E j \in 1..n :
    /\ out[j].type = "reach" /\ out[j].actor = a
    /\ \A k \in (j + 1)..n :
         /\ out[k].type # "start_kyoku"
         /\ ~(out[k].type = "reach_accepted" /\ out[k].actor = a)

PairOK(x, y) ==
  x # y /\ (x.type = "reach_accepted" => y.type = "tsumo" /\ y.actor = x.actor)
Paid(e) == e.type = "hora" => e.target = (IF table.byDraw THEN e.actor ELSE table.seat)
OutOK(out) ==
  /\ out \in Seq(OutEvents)
  /\ \A i \in 2..Len(out) : PairOK(out[i - 1], out[i])
  /\ \A i \in 1..Len(out) :
       Paid(out[i]) /\ (out[i].type = "reach_accepted" => Waiting(out, out[i].actor, i - 1))

LEMMA OutAppend ==
  ASSUME NEW out, OutOK(out), NEW e \in OutEvents, Paid(e),
         out # << >> => PairOK(out[Len(out)], e),
         e.type = "reach_accepted" => Waiting(out, e.actor, Len(out))
  PROVE  LET o == Append(out, e)
         IN /\ OutOK(o) /\ o # << >> /\ o[Len(o)] = e
            /\ \A a \in Seats :
                 \/ /\ Waiting(out, a, Len(out)) /\ e.type # "start_kyoku"
                    /\ ~(e.type = "reach_accepted" /\ e.actor = a)
                 \/ e.type = "reach" /\ e.actor = a
                 => Waiting(o, a, Len(o))
<1> DEFINE o == Append(out, e)
           N == Len(out)
<1>1. out \in Seq(OutEvents) /\ N \in Nat /\ (N = 0 <=> out = << >>)
  BY EmptySeq DEF OutOK
<1>2. /\ o \in Seq(OutEvents) /\ Len(o) = N + 1 /\ o[N + 1] = e
      /\ \A i \in 1..N : o[i] = out[i]
  BY <1>1, Appended
<1> HIDE DEF o
<1>3. o # << >>
  BY <1>1, <1>2, EmptySeq
<1>4. ASSUME NEW a, NEW n \in 0..N, Waiting(out, a, n) PROVE Waiting(o, a, n)
  <2>1. PICK j \in 1..n :
          /\ out[j].type = "reach" /\ out[j].actor = a
          /\ \A k \in (j + 1)..n : /\ out[k].type # "start_kyoku"
                                   /\ ~(out[k].type = "reach_accepted" /\ out[k].actor = a)
    BY <1>4 DEF Waiting
  <2>2. j \in 1..N /\ \A k \in (j + 1)..n : k \in 1..N
    BY <1>1
  <2>3. o[j] = out[j] /\ \A k \in (j + 1)..n : o[k] = out[k]
    BY <1>2, <2>2
  <2> QED
    BY <2>1, <2>3 DEF Waiting
<1> HIDE DEF N
<1>5. ASSUME NEW i \in 2..Len(o) PROVE PairOK(o[i - 1], o[i])
  <2>1. i - 1 \in 1..N /\ o[i - 1] = out[i - 1]
    BY <1>1, <1>2
  <2>2. CASE i = N + 1
    <3>1. i - 1 = N /\ out # << >> /\ o[i] = e
      BY <1>1, <1>2, <2>1, <2>2
    <3> QED
      BY <2>1, <3>1 DEF N
  <2>3. CASE i # N + 1
    <3>1. i \in 2..N /\ i \in 1..N
      BY <1>1, <1>2, <2>3
    <3>2. o[i] = out[i] /\ PairOK(out[i - 1], out[i])
      BY <1>2, <3>1 DEF OutOK, N
    <3> QED
      BY <2>1, <3>2
  <2> QED
    BY <2>2, <2>3
<1>6. ASSUME NEW i \in 1..Len(o)
      PROVE  Paid(o[i]) /\ (o[i].type = "reach_accepted" => Waiting(o, o[i].actor, i - 1))
  <2>1. CASE i = N + 1
    <3>1. o[i] = e /\ i - 1 = N /\ N \in 0..N
      BY <1>1, <1>2, <2>1
    <3>2. e.type = "reach_accepted" => Waiting(o, e.actor, N)
      BY <1>4, <3>1 DEF N
    <3> QED
      BY <3>1, <3>2
  <2>2. CASE i # N + 1
    <3>1. i \in 1..N /\ i - 1 \in 0..N
      BY <1>1, <1>2, <2>2
    <3>2. o[i] = out[i]
      BY <1>2, <3>1
    <3>3. Paid(out[i]) /\ (out[i].type = "reach_accepted" => Waiting(out, out[i].actor, i - 1))
      BY <3>1 DEF OutOK, N
    <3> QED
      BY <1>4, <3>1, <3>2, <3>3
  <2> QED
    BY <2>1, <2>2
<1>7. ASSUME NEW a \in Seats,
             \/ /\ Waiting(out, a, N) /\ e.type # "start_kyoku"
                /\ ~(e.type = "reach_accepted" /\ e.actor = a)
             \/ e.type = "reach" /\ e.actor = a
      PROVE  Waiting(o, a, N + 1)
  <2>1. CASE e.type = "reach" /\ e.actor = a
    <3>1. N + 1 \in 1..(N + 1) /\ \A k \in ((N + 1) + 1)..(N + 1) : FALSE
      BY <1>1
    <3> QED
      BY <1>2, <2>1, <3>1 DEF Waiting
  <2>2. CASE /\ Waiting(out, a, N) /\ e.type # "start_kyoku"
             /\ ~(e.type = "reach_accepted" /\ e.actor = a)
    <3>1. Waiting(o, a, N)
      BY <1>1, <1>4, <2>2
    <3>2. PICK j \in 1..N :
            /\ o[j].type = "reach" /\ o[j].actor = a
            /\ \A k \in (j + 1)..N : /\ o[k].type # "start_kyoku"
                                     /\ ~(o[k].type = "reach_accepted" /\ o[k].actor = a)
      BY <3>1 DEF Waiting
    <3>3. ASSUME NEW k \in (j + 1)..(N + 1)
          PROVE  /\ o[k].type # "start_kyoku"
                 /\ ~(o[k].type = "reach_accepted" /\ o[k].actor = a)
      <4>1. CASE k = N + 1
        BY <1>2, <2>2, <4>1
      <4>2. CASE k # N + 1
        <5>1. k \in (j + 1)..N
          BY <1>1, <4>2
        <5> QED
          BY <3>2, <5>1
      <4> QED
        BY <4>1, <4>2
    <3>4. j \in 1..(N + 1)
      BY <1>1
    <3> QED
      BY <3>2, <3>3, <3>4 DEF Waiting
  <2> QED
    BY <1>7, <2>1, <2>2
<1> QED
  <2>1. OutOK(o)
    BY <1>2, <1>5, <1>6 DEF OutOK
  <2> QED
    BY <1>2, <1>3, <1>7, <2>1 DEF o, N

\* Which of the three lists an event is in.
LEMMA Listed ==
  ASSUME NEW out \in Seq(OutEvents), NEW e \in OutEvents
  PROVE  /\ Moved(Append(out, e)) =
              IF e.type \in {"tsumo", "dahai", "reach", "ankan", "kakan"} \cup Nakis
              THEN Append(Moved(out), e) ELSE Moved(out)
         /\ Started(Append(out, e)) =
              IF e.type = "start_kyoku" THEN Append(Started(out), e) ELSE Started(out)
         /\ Ended(Append(out, e)) =
              IF e.type = "end_kyoku" THEN Append(Ended(out), e) ELSE Ended(out)
<1>1. ASSUME NEW types
      PROVE  Kept(Append(out, e), Of(types)) =
               IF e.type \in types THEN Append(Kept(out, Of(types)), e) ELSE Kept(out, Of(types))
  <2>1. e \in Of(types) <=> e.type \in types
    BY DEF Of
  <2>2. Kept(Append(out, e), Of(types)) =
          IF e \in Of(types) THEN Append(Kept(out, Of(types)), e) ELSE Kept(out, Of(types))
    BY KeptAppend
  <2> QED
    BY <2>1, <2>2
<1>2. Moved(Append(out, e)) =
        IF e.type \in {"tsumo", "dahai", "reach", "ankan", "kakan"} \cup Nakis
        THEN Append(Moved(out), e) ELSE Moved(out)
  BY <1>1 DEF Moved
<1>3. Started(Append(out, e)) =
        IF e.type = "start_kyoku" THEN Append(Started(out), e) ELSE Started(out)
  BY <1>1 DEF Started
<1>4. Ended(Append(out, e)) =
        IF e.type = "end_kyoku" THEN Append(Ended(out), e) ELSE Ended(out)
  BY <1>1 DEF Ended
<1> QED
  BY <1>2, <1>3, <1>4

LEMMA MovedType ==
  ASSUME NEW out \in Seq(OutEvents)
  PROVE  /\ Moved(out) \in Seq(OutEvents) /\ Started(out) \in Seq(OutEvents)
         /\ Ended(out) \in Seq(OutEvents)
<1>1. ASSUME NEW types PROVE Kept(out, Of(types)) \in Seq(OutEvents)
  <2>1. Kept(out, Of(types)) \in Seq(OutEvents \cap Of(types))
    BY KeptElements
  <2>2. OutEvents \cap Of(types) \subseteq OutEvents
    OBVIOUS
  <2> HIDE DEF Of
  <2> QED
    BY <2>1, <2>2, SeqMonotonic
<1> QED
  BY <1>1 DEF Moved, Started, Ended

-----------------------------------------------------------------------------
(***************************************************************************)
(* A round, event by event.                                                *)
(***************************************************************************)

\* What is written of the first n events, from b at the beginning of the round:
\* a reach is written with its dahai only, and an acceptance at a later draw.
Owed(n) == IF n > 0 /\ played[n].type = "reach" THEN <<played[n]>> ELSE << >>
LastWritten(e, last) ==
  /\ e.type = "reach" => last.type = "tsumo"
  /\ e.type = "reach_accepted" => last.type = "dahai"
  /\ e.type \notin {"reach", "reach_accepted"} => last = e
Reading(n, b, c) ==
  /\ c \in States /\ ~c.error /\ OutOK(c.out) /\ c.out # << >>
  /\ c.reach # Nobody => Waiting(c.out, c.reach, Len(c.out))
  /\ n = 0 => c.out[Len(c.out)].type = "start_kyoku"
  /\ n > 0 => LastWritten(played[n], c.out[Len(c.out)])
  /\ n > 0 /\ played[n].type \in {"dahai", "kakan"} => c.discarder = played[n].actor
  /\ Moved(c.out) \o Owed(n) = Moved(b.out) \o Moved(First(played, n))
  /\ Started(c.out) = Started(b.out) /\ Ended(c.out) = Ended(b.out)

\* One of the played events, written after what may come before it.
LEMMA Emitted ==
  ASSUME NEW out, OutOK(out), out # << >>, NEW e \in RoundEvents, e.type # "reach_accepted",
         PairOK(out[Len(out)], e)
  PROVE  LET o == Append(out, e)
         IN /\ OutOK(o) /\ o # << >> /\ o[Len(o)] = e
            /\ Moved(o) = Append(Moved(out), e)
            /\ Started(o) = Started(out) /\ Ended(o) = Ended(out)
            /\ \A a \in Seats :
                 Waiting(out, a, Len(out)) \/ (e.type = "reach" /\ e.actor = a)
                 => Waiting(o, a, Len(o))
<1>1. /\ e \in OutEvents /\ e.type \notin {"start_kyoku", "end_kyoku", "hora"}
      /\ e.type \in {"tsumo", "dahai", "reach", "ankan", "kakan"} \cup Nakis
  BY OutTypes DEF RoundEvents, Nakis
<1>2. Paid(e) /\ out \in Seq(OutEvents)
  BY <1>1 DEF Paid, OutOK
<1> DEFINE o == Append(out, e)
<1>3. /\ OutOK(o) /\ o # << >> /\ o[Len(o)] = e
      /\ \A a \in Seats :
           \/ /\ Waiting(out, a, Len(out)) /\ e.type # "start_kyoku"
              /\ ~(e.type = "reach_accepted" /\ e.actor = a)
           \/ e.type = "reach" /\ e.actor = a
           => Waiting(o, a, Len(o))
  BY <1>1, <1>2, OutAppend
<1>4. /\ Moved(o) = Append(Moved(out), e)
      /\ Started(o) = Started(out) /\ Ended(o) = Ended(out)
  BY <1>1, <1>2, Listed
<1> QED
  BY <1>1, <1>3, <1>4

\* What the loop makes of the event n: nothing of a reach and an acceptance.
Read(n, c) ==
  IF played[n].type \in {"reach", "reach_accepted"} THEN c ELSE Converted(c, Entries[n])

LEMMA ReadEntry ==
  ASSUME Chain(played), NEW n \in 1..Len(played),
         played[n].type \notin {"reach", "reach_accepted"}
  PROVE  /\ Entries[n] \in RecordEntries /\ Entries[n].event = played[n]
         /\ played[n] \in RecordedEvents
         /\ Entries[n].liqi = (n > 1 /\ played[n - 1].type = "reach")
<1>1. DOMAIN played = 1..Len(played) /\ played[n] \in RoundEvents
  BY LenProperties, ElementOfSeq DEF Chain
<1>2. Entries[n] = [event |-> played[n], liqi |-> IsLiqi(n), hules |-> << >>]
  BY <1>1 DEF Entries, Entry
<1>3. IsLiqi(n) = (n > 1 /\ played[n - 1].type = "reach") /\ IsLiqi(n) \in BOOLEAN
  BY DEF IsLiqi
<1>4. << >> \in Seq(Wins)
  BY EmptySeq
<1>5. played[n] \in RecordedEvents
  BY <1>1 DEF RecordedEvents
<1> QED
  BY <1>2, <1>3, <1>4, <1>5 DEF RecordEntries

LEMMA ReadStep ==
  ASSUME Chain(played), NEW n \in 1..Len(played), NEW b \in States, NEW c, Reading(n - 1, b, c)
  PROVE  Reading(n, b, Read(n, c))
<1> DEFINE e == played[n]
           p == played[n - 1]
           out == c.out
           last == c.out[Len(c.out)]
           X == Moved(First(played, n - 1))
           B == Moved(b.out)
<1>1. /\ played \in Seq(RoundEvents) /\ Len(played) \in Nat /\ e \in RoundEvents /\ e \in OutEvents
      /\ e.actor \in Seats /\ n - 1 \in 0..Len(played) /\ n > 0
      /\ e.type \in {"tsumo", "dahai", "reach", "reach_accepted", "ankan", "kakan"} \cup Nakis
  <2>1. played \in Seq(RoundEvents)
    BY DEF Chain
  <2>2. Len(played) \in Nat /\ e \in RoundEvents
    BY <2>1, LenProperties, ElementOfSeq
  <2> QED
    BY <2>1, <2>2, OutTypes DEF RoundEvents
<1>2. n = 1 => e.type = "tsumo"
  <2>1. played # << >>
    BY <1>1, EmptySeq
  <2> QED
    BY <2>1 DEF Chain
<1>3. n > 1 => p \in RoundEvents /\ Follows(p, e)
  <2> SUFFICES ASSUME n > 1 PROVE p \in RoundEvents /\ Follows(p, e)
    OBVIOUS
  <2>1. n \in 2..Len(played) /\ n - 1 \in 1..Len(played)
    BY <1>1
  <2> QED
    BY <1>1, <2>1, ElementOfSeq DEF Chain
<1>4. /\ c \in States /\ ~c.error /\ OutOK(out) /\ out # << >> /\ out \in Seq(OutEvents)
      /\ c.reach # Nobody => Waiting(out, c.reach, Len(out))
      /\ c.reach \in Seats \cup {Nobody} /\ c.dropped \in Nat
      /\ c.discarder \in Seats \cup {Nobody} /\ c.error = FALSE
      /\ n = 1 => last.type = "start_kyoku"
      /\ n > 1 => LastWritten(p, last)
      /\ Moved(out) \o Owed(n - 1) = B \o X
      /\ Started(out) = Started(b.out) /\ Ended(out) = Ended(b.out)
  <2>1. /\ c \in States /\ ~c.error /\ OutOK(out) /\ out # << >>
        /\ c.reach # Nobody => Waiting(out, c.reach, Len(out))
        /\ Moved(out) \o Owed(n - 1) = B \o X
        /\ Started(out) = Started(b.out) /\ Ended(out) = Ended(b.out)
    BY DEF Reading
  <2>2. /\ n - 1 = 0 => last.type = "start_kyoku"
        /\ n - 1 > 0 => LastWritten(p, last)
    BY DEF Reading
  <2>3. (n = 1 <=> n - 1 = 0) /\ (n > 1 <=> n - 1 > 0)
    BY <1>1
  <2>4. /\ c.reach \in Seats \cup {Nobody} /\ c.dropped \in Nat
        /\ c.discarder \in Seats \cup {Nobody} /\ c.error = FALSE /\ out \in Seq(OutEvents)
    BY <2>1 DEF States
  <2> HIDE DEF B, X, last, p, out
  <2> QED
    BY <2>1, <2>2, <2>3, <2>4
<1>5. B \in Seq(OutEvents) /\ X \in Seq(OutEvents) /\ Moved(out) \in Seq(OutEvents)
      /\ First(played, n) = Append(First(played, n - 1), e)
      /\ First(played, n - 1) \in Seq(OutEvents)
  <2>1. played \in Seq(OutEvents)
    BY <1>1, OutTypes, SeqMonotonic
  <2>2. First(played, n) = Append(First(played, n - 1), e) /\ First(played, n - 1) \in Seq(OutEvents)
    BY <1>1, <2>1, Firsts
  <2>3. b.out \in Seq(OutEvents)
    BY DEF States
  <2> QED
    BY <1>4, <2>2, <2>3, MovedType
<1>6. B \o Moved(First(played, n)) =
        IF e.type = "reach_accepted" THEN B \o X ELSE Append(B \o X, e)
  <2>1. Moved(First(played, n)) = IF e.type = "reach_accepted" THEN X ELSE Append(X, e)
    BY <1>1, <1>5, Listed DEF Nakis
  <2>2. B \o Append(X, e) = Append(B \o X, e)
    <3>1. e \in OutEvents
      BY <1>1
    <3>2. B \in Seq(OutEvents) /\ X \in Seq(OutEvents)
      BY <1>5
    <3> HIDE DEF B, X, e
    <3> QED
      BY <3>1, <3>2, AppendBehind
  <2> QED
    BY <2>1, <2>2
<1>7. n = 1 \/ p.type # "reach" => Moved(out) = B \o X
  <2>1. n = 1 \/ p.type # "reach" => Owed(n - 1) = << >>
    BY <1>1 DEF Owed
  <2> QED
    BY <1>4, <1>5, <2>1, Lengthened
<1>8. e.type # "reach" => Owed(n) = << >>
  BY DEF Owed
<1> HIDE DEF B, X, last
<1>9. ASSUME e.type \notin {"reach", "reach_accepted"},
             NEW o, OutOK(o), o # << >>, o[Len(o)] = e, Moved(o) = Append(B \o X, e),
             Started(o) = Started(out), Ended(o) = Ended(out),
             NEW re \in Seats \cup {Nobody}, re # Nobody => Waiting(o, re, Len(o)),
             NEW di \in Seats \cup {Nobody}, e.type \in {"dahai", "kakan"} => di = e.actor,
             Converted(c, Entries[n]) = Written(o, re, c.dropped, di, c.error)
      PROVE  Reading(n, b, Read(n, c))
  <2> DEFINE d == Read(n, c)
  <2>1. d = Written(o, re, c.dropped, di, c.error)
    BY <1>9 DEF Read
  <2> HIDE DEF d
  <2>2. d.out = o /\ d.reach = re /\ d.discarder = di /\ d.error = c.error
    BY <2>1, WrittenFields
  <2>3. d \in States
    BY <1>4, <1>9, <2>1, StatesWritten DEF OutOK
  <2>4. Moved(o) \o Owed(n) = B \o Moved(First(played, n))
    <3>1. Moved(o) \in Seq(OutEvents)
      BY <1>9, MovedType DEF OutOK
    <3>2. Moved(o) \o Owed(n) = Moved(o)
      BY <1>8, <1>9, <3>1, Lengthened
    <3> QED
      BY <1>6, <1>9, <3>2
  <2>5. LastWritten(e, o[Len(o)])
    BY <1>9 DEF LastWritten
  <2>6. n # 0
    BY <1>1
  <2> QED
    BY <1>4, <1>9, <2>2, <2>3, <2>4, <2>5, <2>6 DEF Reading, B, d
<1>10. CASE e.type = "tsumo"
  <2>1. /\ Entries[n] \in RecordEntries /\ Entries[n].event = e /\ e \in RecordedEvents
    BY <1>10, ReadEntry
  <2>2. last.type \notin {"tsumo", "reach_accepted"} /\ Moved(out) = B \o X
    <3>1. CASE n = 1
      BY <1>4, <1>7, <3>1
    <3>2. CASE n # 1
      <4>1. n > 1
        BY <1>1, <3>2
      <4>2. p.type \in {"dahai", "reach_accepted", "ankan", "kakan", "daiminkan"}
        BY <1>3, <1>10, <4>1 DEF Follows, RoundEvents, Nakis
      <4> QED
        BY <1>4, <1>7, <4>1, <4>2 DEF LastWritten
    <3> QED
      BY <3>1, <3>2
  <2>3. CASE c.reach = e.actor
    <3> DEFINE acc == IsAccepted(e.actor)
               u == Append(out, acc)
               o == Append(u, e)
    <3>1. acc \in OutEvents /\ acc.type = "reach_accepted" /\ acc.actor = e.actor
      BY <1>1, OutTypes
    <3>2. Converted(c, Entries[n]) = Written(o, Nobody, c.dropped, c.discarder, c.error)
      <4>1. out \o <<acc, e>> = o
        BY <1>1, <1>4, <3>1, Lengthened
      <4> HIDE DEF o, acc
      <4> QED
        BY <1>4, <1>10, <2>1, <2>3, <4>1, ConvertedEvent DEF acc
    <3>3. OutOK(u) /\ u # << >> /\ u[Len(u)] = acc
      <4>1. PairOK(last, acc) /\ Paid(acc) /\ Waiting(out, acc.actor, Len(out))
        <5>1. c.reach # Nobody
          BY <1>1, <2>3, NobodyAssumption
        <5> QED
          BY <1>4, <2>2, <2>3, <3>1, <5>1 DEF PairOK, Paid
      <4> HIDE DEF acc
      <4> QED
        BY <1>4, <3>1, <4>1, OutAppend DEF last
    <3>4. Moved(u) = Moved(out) /\ Started(u) = Started(out) /\ Ended(u) = Ended(out)
      <4> HIDE DEF acc
      <4> QED
        BY <1>4, <3>1, Listed DEF Nakis
    <3> HIDE DEF acc, u
    <3>5. PairOK(u[Len(u)], e)
      BY <1>10, <3>1, <3>3 DEF PairOK
    <3>6. /\ OutOK(o) /\ o # << >> /\ o[Len(o)] = e /\ Moved(o) = Append(Moved(u), e)
          /\ Started(o) = Started(u) /\ Ended(o) = Ended(u)
      BY <1>1, <1>10, <3>3, <3>5, Emitted
    <3> HIDE DEF o
    <3> QED
      BY <1>4, <1>9, <1>10, <2>2, <3>2, <3>4, <3>6
  <2>4. CASE c.reach # e.actor
    <3> DEFINE o == Append(out, e)
    <3>1. Converted(c, Entries[n]) = Written(o, c.reach, c.dropped, c.discarder, c.error)
      <4>1. out \o <<e>> = o
        BY <1>1, <1>4, Lengthened
      <4> HIDE DEF o
      <4> QED
        BY <1>4, <1>10, <2>1, <2>4, <4>1, ConvertedEvent
    <3>2. PairOK(last, e)
      BY <1>10, <2>2 DEF PairOK
    <3>3. /\ OutOK(o) /\ o # << >> /\ o[Len(o)] = e /\ Moved(o) = Append(Moved(out), e)
          /\ Started(o) = Started(out) /\ Ended(o) = Ended(out)
          /\ \A a \in Seats : Waiting(out, a, Len(out)) => Waiting(o, a, Len(o))
      BY <1>1, <1>4, <1>10, <3>2, Emitted DEF last
    <3> HIDE DEF o
    <3> QED
      BY <1>4, <1>9, <1>10, <2>2, <3>1, <3>3
  <2> QED
    BY <2>3, <2>4
<1>11. CASE e.type = "dahai" /\ p.type = "reach"
  <2>1. n > 1
    BY <1>1, <1>2, <1>11
  <2>2. /\ Entries[n] \in RecordEntries /\ Entries[n].event = e /\ e \in RecordedEvents
        /\ Entries[n].liqi = TRUE
    BY <1>11, <2>1, ReadEntry
  <2>3. last.type = "tsumo"
    BY <1>4, <1>11, <2>1 DEF LastWritten
  <2>4. p = Declares(e.actor) /\ p \in RoundEvents /\ p.actor = e.actor
    <3>1. p = Declares(e.actor)
      BY <1>3, <1>11, <2>1 DEF Follows, Declares
    <3> QED
      BY <1>1, <1>3, <2>1, <3>1, OutTypes
  <2> DEFINE u == Append(out, p)
             o == Append(u, e)
  <2>5. Converted(c, Entries[n]) = Written(o, e.actor, c.dropped, e.actor, c.error)
    <3>1. out \o <<Declares(e.actor), e>> = o
      <4>1. p \in OutEvents
        BY <2>4, OutTypes
      <4>2. out \o <<p, e>> = Append(Append(out, p), e)
        <5>1. out \in Seq(OutEvents) /\ e \in OutEvents
          BY <1>1, <1>4
        <5> HIDE DEF p, e, out
        <5> QED
          BY <4>1, <5>1, Lengthened
      <4> QED
        BY <2>4, <4>2
    <3> HIDE DEF o
    <3> QED
      BY <1>4, <1>11, <2>2, <3>1, ConvertedEvent
  <2>6. Moved(u) = B \o X
    <3>1. Owed(n - 1) = <<p>>
      BY <1>11, <2>1 DEF Owed
    <3>2. p \in OutEvents
      BY <2>4, OutTypes
    <3>3. Moved(out) \o <<p>> = Append(Moved(out), p)
      BY <1>5, <3>2, Lengthened
    <3>4. Moved(u) = Append(Moved(out), p)
      BY <1>4, <1>11, <3>2, Listed
    <3> QED
      BY <1>4, <3>1, <3>3, <3>4
  <2>7. /\ OutOK(u) /\ u # << >> /\ u[Len(u)] = p
        /\ Started(u) = Started(out) /\ Ended(u) = Ended(out)
        /\ Waiting(u, e.actor, Len(u))
    <3>1. PairOK(last, p)
      BY <1>11, <2>3 DEF PairOK
    <3> HIDE DEF p
    <3>2. p.type = "reach" /\ p \in RoundEvents /\ p.actor = e.actor /\ e.actor \in Seats
      BY <1>1, <1>11, <2>4
    <3> QED
      BY <1>4, <3>1, <3>2, Emitted DEF last
  <2> HIDE DEF u
  <2>8. /\ OutOK(o) /\ o # << >> /\ o[Len(o)] = e /\ Moved(o) = Append(Moved(u), e)
        /\ Started(o) = Started(u) /\ Ended(o) = Ended(u) /\ Waiting(o, e.actor, Len(o))
    <3>1. PairOK(u[Len(u)], e)
      BY <1>11, <2>7 DEF PairOK
    <3> QED
      BY <1>1, <1>11, <2>7, <3>1, Emitted
  <2> HIDE DEF o
  <2>9. e.type \notin {"reach", "reach_accepted"} /\ e.actor \in Seats \cup {Nobody}
    BY <1>1, <1>11
  <2> QED
    BY <1>9, <2>5, <2>6, <2>7, <2>8, <2>9
<1>12. CASE e.type = "dahai" /\ p.type # "reach"
  <2>1. n > 1
    BY <1>1, <1>2, <1>12
  <2>2. /\ Entries[n] \in RecordEntries /\ Entries[n].event = e /\ e \in RecordedEvents
        /\ Entries[n].liqi = FALSE
    BY <1>12, <2>1, ReadEntry
  <2>3. p.type \in {"tsumo", "chi", "pon"}
    BY <1>3, <1>12, <2>1 DEF Follows, RoundEvents, Nakis
  <2>4. last = p
    BY <1>4, <2>1, <2>3 DEF LastWritten
  <2> DEFINE o == Append(out, e)
  <2>5. Converted(c, Entries[n]) = Written(o, c.reach, c.dropped, e.actor, c.error)
    <3>1. out \o <<e>> = o
      BY <1>1, <1>4, Lengthened
    <3> HIDE DEF o
    <3> QED
      BY <1>4, <1>12, <2>2, <3>1, ConvertedEvent
  <2>6. PairOK(last, e)
    BY <1>12, <2>3, <2>4 DEF PairOK
  <2>7. /\ OutOK(o) /\ o # << >> /\ o[Len(o)] = e /\ Moved(o) = Append(Moved(out), e)
        /\ Started(o) = Started(out) /\ Ended(o) = Ended(out)
        /\ \A a \in Seats : Waiting(out, a, Len(out)) => Waiting(o, a, Len(o))
    BY <1>1, <1>4, <1>12, <2>6, Emitted DEF last
  <2> HIDE DEF o
  <2>8. Moved(out) = B \o X
    BY <1>7, <1>12
  <2>9. e.type \notin {"reach", "reach_accepted"} /\ e.actor \in Seats \cup {Nobody}
    BY <1>1, <1>12
  <2> QED
    BY <1>4, <1>9, <2>5, <2>7, <2>8, <2>9
<1>13. CASE e.type \in {"ankan", "kakan"} \cup Nakis
  <2>1. n > 1
    BY <1>1, <1>2, <1>13 DEF Nakis
  <2>2. /\ Entries[n] \in RecordEntries /\ Entries[n].event = e /\ e \in RecordedEvents
    BY <1>13, ReadEntry DEF Nakis
  <2>3. /\ e.type \in {"ankan", "kakan"} => p.type = "tsumo"
        /\ e.type \in Nakis => p.type \in {"dahai", "reach_accepted"}
    BY <1>3, <1>13, <2>1 DEF Follows, RoundEvents, Nakis
  <2>4. /\ p.type # "reach" /\ last.type # e.type /\ last.type # "reach_accepted"
    BY <1>4, <1>13, <2>1, <2>3 DEF LastWritten, Nakis
  <2> DEFINE o == Append(out, e)
             di == IF e.type = "kakan" THEN e.actor ELSE c.discarder
  <2>5. Converted(c, Entries[n]) = Written(o, c.reach, c.dropped, di, c.error)
    <3>1. out \o <<e>> = o
      BY <1>1, <1>4, Lengthened
    <3> HIDE DEF o
    <3>2. CASE e.type = "kakan"
      BY <1>4, <2>2, <3>1, <3>2, ConvertedEvent
    <3>3. CASE e.type # "kakan"
      <4>1. e.type \in {"ankan"} \cup Nakis
        BY <1>13, <3>3
      <4> QED
        BY <1>4, <2>2, <3>1, <3>3, <4>1, ConvertedEvent
    <3> QED
      BY <3>2, <3>3
  <2>6. PairOK(last, e)
    BY <2>4 DEF PairOK
  <2>7. /\ OutOK(o) /\ o # << >> /\ o[Len(o)] = e /\ Moved(o) = Append(Moved(out), e)
        /\ Started(o) = Started(out) /\ Ended(o) = Ended(out)
        /\ \A a \in Seats : Waiting(out, a, Len(out)) => Waiting(o, a, Len(o))
    <3>1. e.type # "reach_accepted"
      BY <1>13 DEF Nakis
    <3> QED
      BY <1>1, <1>4, <2>6, <3>1, Emitted DEF last
  <2> HIDE DEF o
  <2>8. Moved(out) = B \o X
    BY <1>7, <2>4
  <2>9. /\ e.type \notin {"reach", "reach_accepted"} /\ di \in Seats \cup {Nobody}
        /\ e.type \in {"dahai", "kakan"} => di = e.actor
    BY <1>1, <1>4, <1>13 DEF Nakis
  <2> HIDE DEF di
  <2> QED
    BY <1>4, <1>9, <2>5, <2>7, <2>8, <2>9
<1>14. CASE e.type = "reach"
  <2>1. n > 1
    BY <1>1, <1>2, <1>14
  <2>2. p.type = "tsumo"
    BY <1>3, <1>14, <2>1 DEF Follows, RoundEvents, Nakis
  <2>3. Read(n, c) = c /\ LastWritten(e, last)
    BY <1>4, <1>14, <2>1, <2>2 DEF Read, LastWritten
  <2>4. Moved(out) \o Owed(n) = B \o Moved(First(played, n))
    <3>1. Owed(n) = <<e>>
      BY <1>1, <1>14 DEF Owed
    <3>2. Moved(out) \o <<e>> = Append(Moved(out), e)
      BY <1>1, <1>5, Lengthened
    <3> QED
      BY <1>6, <1>7, <1>14, <2>2, <3>1, <3>2
  <2> QED
    BY <1>1, <1>4, <1>14, <2>3, <2>4 DEF Reading, B, last
<1>15. CASE e.type = "reach_accepted"
  <2>1. n > 1
    BY <1>1, <1>2, <1>15
  <2>2. p.type = "dahai"
    BY <1>3, <1>15, <2>1 DEF Follows, RoundEvents, Nakis
  <2>3. Read(n, c) = c /\ LastWritten(e, last)
    BY <1>4, <1>15, <2>1, <2>2 DEF Read, LastWritten
  <2>4. Moved(out) \o Owed(n) = B \o Moved(First(played, n))
    BY <1>5, <1>6, <1>7, <1>8, <1>15, <2>2, Lengthened
  <2> QED
    BY <1>1, <1>4, <1>15, <2>3, <2>4 DEF Reading, B, last
<1> QED
  BY <1>1, <1>10, <1>11, <1>12, <1>13, <1>14, <1>15

LEMMA RecordedRead ==
  ASSUME Chain(played), NEW b \in States, Reading(0, b, b)
  PROVE  /\ Recorded \in Seq(RecordEntries)
         /\ Reading(Len(played), b, ConvertedFrom(b, Recorded))
<1> DEFINE T == [event : RoundEvents, liqi : BOOLEAN, hules : Seq(Wins)]
           N == Len(played)
           S == {r \in Range(Entries) : r.event.type \notin {"reach", "reach_accepted"}}
           rec(n) == Kept(First(Entries, n), S)
<1>1. /\ N \in Nat /\ DOMAIN played = 1..N
      /\ \A n \in 1..N : played[n] \in RoundEvents
  BY LenProperties, ElementOfSeq DEF Chain
<1>2. \A n \in 1..N : Entries[n] \in T /\ Entries[n].event = played[n]
  <2> SUFFICES ASSUME NEW n \in 1..N PROVE Entries[n] \in T /\ Entries[n].event = played[n]
    OBVIOUS
  <2>1. Entries[n] = [event |-> played[n], liqi |-> IsLiqi(n), hules |-> << >>]
    BY <1>1 DEF Entries, Entry
  <2>2. IsLiqi(n) \in BOOLEAN /\ << >> \in Seq(Wins) /\ played[n] \in RoundEvents
    BY <1>1, EmptySeq DEF IsLiqi
  <2> QED
    BY <2>1, <2>2
<1>3. Entries \in Seq(T) /\ Len(Entries) = N /\ Range(Entries) = {Entries[n] : n \in 1..N}
  <2>1. Entries = [n \in 1..N |-> Entry(played[n], IsLiqi(n), << >>)]
    BY <1>1 DEF Entries
  <2>2. DOMAIN Entries = 1..N
    BY <2>1
  <2> DEFINE E == Entries
  <2>3. E \in [1..N -> T]
    <3>1. E = [n \in 1..N |-> E[n]]
      BY <2>1
    <3> HIDE DEF E, T
    <3> QED
      BY <1>2, <3>1 DEF E
  <2>4. E \in Seq(T) /\ Len(E) = N
    <3> HIDE DEF E, T
    <3> QED
      BY <1>1, <2>3
  <2> QED
    BY <2>2, <2>4 DEF Range
<1>4. ASSUME NEW n \in 1..N
      PROVE  /\ First(Entries, n) = Append(First(Entries, n - 1), Entries[n])
             /\ First(Entries, n - 1) \in Seq(T)
             /\ Entries[n] \in S <=> played[n].type \notin {"reach", "reach_accepted"}
  <2>1. n - 1 \in 0..N
    BY <1>1
  <2> HIDE DEF T
  <2>2. /\ First(Entries, n) = Append(First(Entries, n - 1), Entries[n])
        /\ First(Entries, n - 1) \in Seq(T)
    BY <1>3, <2>1, Firsts
  <2>3. Entries[n] \in S <=> played[n].type \notin {"reach", "reach_accepted"}
    BY <1>2, <1>3
  <2> QED
    BY <2>2, <2>3
<1>5. ASSUME NEW s \in Seq(T) PROVE Kept(s, S) \in Seq(RecordEntries)
  <2>1. T \cap S \subseteq RecordEntries
    BY DEF RecordEntries, RecordedEvents
  <2> HIDE DEF T, S
  <2>2. Kept(s, S) \in Seq(T \cap S)
    BY KeptElements
  <2> QED
    BY <2>1, <2>2, SeqMonotonic
<1> HIDE DEF S, T
<1>6. ASSUME NEW n \in 1..N
      PROVE  ConvertedFrom(b, rec(n)) = Read(n, ConvertedFrom(b, rec(n - 1)))
  <2>1. rec(n) = IF Entries[n] \in S THEN Append(rec(n - 1), Entries[n]) ELSE rec(n - 1)
    <3> DEFINE u == First(Entries, n - 1)
               x == Entries[n]
    <3>1. x \in T /\ u \in Seq(T) /\ First(Entries, n) = Append(u, x)
      BY <1>2, <1>4
    <3> HIDE DEF u, x
    <3>2. Kept(Append(u, x), S) = IF x \in S THEN Append(Kept(u, S), x) ELSE Kept(u, S)
      BY <3>1, KeptAppend
    <3> QED
      BY <3>1, <3>2 DEF u, x
  <2>2. rec(n - 1) \in Seq(RecordEntries)
    BY <1>4, <1>5
  <2>3. CASE played[n].type \in {"reach", "reach_accepted"}
    BY <1>4, <2>1, <2>3 DEF Read
  <2>4. CASE played[n].type \notin {"reach", "reach_accepted"}
    <3>1. Entries[n] \in RecordEntries
      BY <2>4, ReadEntry
    <3>2. rec(n) = Append(rec(n - 1), Entries[n])
      BY <1>4, <2>1, <2>4
    <3> HIDE DEF rec
    <3>3. ConvertedFrom(b, Append(rec(n - 1), Entries[n])) = Converted(ConvertedFrom(b, rec(n - 1)), Entries[n])
      BY <2>2, <3>1, LoopAppend
    <3> QED
      BY <2>4, <3>2, <3>3 DEF Read
  <2> QED
    BY <2>3, <2>4
<1>7. ConvertedFrom(b, rec(0)) = b
  <2>1. First(Entries, 0) = << >>
    BY <1>3, Firsts
  <2> QED
    BY <2>1, KeptEmpty, LoopShort
<1> DEFINE good == {n \in 0..N : Reading(n, b, ConvertedFrom(b, rec(n)))}
<1>8. 0..N \subseteq good
  <2>1. 0 \in good
    BY <1>1, <1>7
  <2>2. ASSUME NEW n \in 1..N, n - 1 \in good PROVE n \in good
    <3> HIDE DEF rec
    <3>1. Reading(n - 1, b, ConvertedFrom(b, rec(n - 1)))
      BY <2>2
    <3>2. Reading(n, b, Read(n, ConvertedFrom(b, rec(n - 1))))
      BY <3>1, ReadStep
    <3>3. n \in 0..N
      BY <1>1
    <3> QED
      BY <1>6, <3>2, <3>3
  <2> HIDE DEF good
  <2> QED
    BY <1>1, <2>1, <2>2, UpTo
<1>9. Recorded = rec(N)
  <2>1. First(Entries, N) = Entries
    BY <1>3, Firsts
  <2> QED
    BY <2>1 DEF Recorded, S
<1> QED
  <2>1. N \in 0..N
    BY <1>1
  <2>2. Recorded \in Seq(RecordEntries)
    BY <1>3, <1>5 DEF Recorded, S
  <2> HIDE DEF rec
  <2> QED
    BY <1>8, <1>9, <2>1, <2>2

-----------------------------------------------------------------------------
(***************************************************************************)
(* The begin and the end of a round.                                       *)
(***************************************************************************)

\* between two rounds
Between(c) ==
  /\ c \in States /\ ~c.error /\ OutOK(c.out)
  /\ c.out # << >> => c.out[Len(c.out)].type = "end_kyoku"

LEMMA RoundBegins ==
  ASSUME Chain(played), NEW c, Between(c), NEW hules
  PROVE  LET d == Converted(c, Mark("new_round", hules))
         IN /\ Reading(0, d, d) /\ Moved(d.out) = Moved(c.out)
            /\ Started(d.out) = Append(Started(c.out), Plain("start_kyoku"))
            /\ Ended(d.out) = Ended(c.out)
<1> DEFINE d == Converted(c, Mark("new_round", hules))
           e == Plain("start_kyoku")
           out == c.out
           o == Append(out, e)
           n == c.dropped + Num(c.reach # Nobody)
<1>1. /\ c \in States /\ OutOK(out) /\ out \in Seq(OutEvents) /\ c.error = FALSE
      /\ e \in OutEvents /\ e.type = "start_kyoku"
      /\ out # << >> => out[Len(out)].type = "end_kyoku"
  BY OutTypes DEF Between, OutOK, States
<1>2. n \in Nat /\ d = Written(o, Nobody, n, Nobody, c.error)
  <2>1. out \o <<e>> = o
    BY <1>1, Lengthened
  <2> HIDE DEF o
  <2> QED
    BY <1>1, <2>1, ConvertedMark
<1>3. OutOK(o) /\ o # << >> /\ o[Len(o)] = e
  <2>1. Paid(e) /\ (out # << >> => PairOK(out[Len(out)], e))
    BY <1>1 DEF Paid, PairOK
  <2> HIDE DEF e
  <2> QED
    BY <1>1, <2>1, OutAppend
<1>4. Moved(o) = Moved(out) /\ Started(o) = Append(Started(out), e) /\ Ended(o) = Ended(out)
  <2> HIDE DEF e
  <2> QED
    BY <1>1, Listed DEF Nakis
<1> HIDE DEF d, o, n, e
<1>5. d.out = o /\ d.reach = Nobody /\ d.error = FALSE /\ d \in States
  <2>1. d.out = o /\ d.reach = Nobody /\ d.error = c.error
    BY <1>2, WrittenFields
  <2>2. o \in Seq(OutEvents)
    BY <1>3 DEF OutOK
  <2> QED
    BY <1>1, <1>2, <2>1, <2>2, StatesWritten
<1>6. Moved(o) \o Owed(0) = Moved(o) \o Moved(First(played, 0))
  <2>1. First(played, 0) = << >>
    BY Firsts DEF Chain
  <2>2. Moved(<< >>) = << >>
    BY KeptEmpty DEF Moved
  <2>3. Owed(0) = << >>
    BY DEF Owed
  <2> QED
    BY <2>1, <2>2, <2>3
<1>7. Reading(0, d, d)
  BY <1>1, <1>3, <1>5, <1>6 DEF Reading
<1> QED
  BY <1>4, <1>5, <1>7 DEF d, e

\* What is written at the end of a round, none of it a move.
LEMMA EndsWith ==
  ASSUME NEW out, OutOK(out), out # << >>, out[Len(out)].type \notin {"end_kyoku", "hora"},
         out[Len(out)].type # "reach_accepted", out[Len(out)].type # "ryukyoku",
         NEW es \in Seq(OutEvents), es # << >>,
         \A i \in 1..Len(es) : es[i].type \in {"hora", "ryukyoku"} /\ Paid(es[i]),
         \A i \in 2..Len(es) : es[i - 1] # es[i]
  PROVE  LET o == out \o Append(es, Plain("end_kyoku"))
         IN /\ OutOK(o) /\ o # << >> /\ o[Len(o)].type = "end_kyoku"
            /\ Moved(o) = Moved(out) /\ Started(o) = Started(out)
            /\ Ended(o) = Append(Ended(out), Plain("end_kyoku"))
<1> DEFINE M == Len(es)
           u(k) == out \o First(es, k)
           last(k) == u(k)[Len(u(k))]
           good == {k \in 0..M :
                      /\ OutOK(u(k)) /\ u(k) # << >>
                      /\ k > 0 => last(k) = es[k]
                      /\ Moved(u(k)) = Moved(out) /\ Started(u(k)) = Started(out)
                      /\ Ended(u(k)) = Ended(out)}
<1>1. /\ M \in Nat /\ M > 0 /\ First(es, 0) = << >> /\ First(es, M) = es
      /\ \A k \in 1..M : es[k] \in OutEvents /\ First(es, k) = Append(First(es, k - 1), es[k])
      /\ \A k \in 0..M : First(es, k) \in Seq(OutEvents)
  BY Firsts, EmptySeq
<1>2. out \in Seq(OutEvents) /\ u(0) = out
  <2>1. out \in Seq(OutEvents)
    BY DEF OutOK
  <2> QED
    BY <1>1, <2>1, Lengthened
<1>3. 0 \in good
  <2> HIDE DEF u
  <2> QED
    BY <1>1, <1>2
<1>4. ASSUME NEW k \in 1..M, k - 1 \in good PROVE k \in good
  <2> DEFINE v == u(k - 1)
             e == es[k]
  <2>1. u(k) = Append(v, e)
    <3>1. k - 1 \in 0..M
      BY <1>1
    <3>2. First(es, k - 1) \in Seq(OutEvents) /\ First(es, k) = Append(First(es, k - 1), e)
          /\ e \in OutEvents
      BY <1>1, <3>1
    <3> HIDE DEF e
    <3>3. out \o Append(First(es, k - 1), e) = Append(out \o First(es, k - 1), e)
      BY <1>2, <3>2, AppendBehind
    <3> QED
      BY <3>2, <3>3
  <2>2. /\ OutOK(v) /\ v # << >> /\ (k - 1 > 0 => v[Len(v)] = es[k - 1])
        /\ Moved(v) = Moved(out) /\ Started(v) = Started(out) /\ Ended(v) = Ended(out)
    BY <1>4
  <2>3. e \in OutEvents /\ e.type \in {"hora", "ryukyoku"} /\ Paid(e)
    BY <1>1
  <2>4. PairOK(v[Len(v)], e)
    <3>1. CASE k = 1
      <4>1. v = out
        BY <1>2, <3>1
      <4> QED
        BY <2>3, <4>1 DEF PairOK
    <3>2. CASE k # 1
      <4>1. k \in 2..M /\ k - 1 > 0 /\ k - 1 \in 1..M
        BY <1>1, <3>2
      <4>2. v[Len(v)] = es[k - 1] /\ es[k - 1] # e
        BY <2>2, <4>1
      <4>3. es[k - 1].type \in {"hora", "ryukyoku"}
        BY <4>1
      <4> QED
        BY <4>2, <4>3 DEF PairOK
    <3> QED
      BY <3>1, <3>2
  <2> HIDE DEF u, v, e
  <2>5. OutOK(u(k)) /\ u(k) # << >> /\ last(k) = e
    BY <2>1, <2>2, <2>3, <2>4, OutAppend
  <2>6. Moved(u(k)) = Moved(out) /\ Started(u(k)) = Started(out) /\ Ended(u(k)) = Ended(out)
    <3>1. v \in Seq(OutEvents)
      BY <2>2 DEF OutOK
    <3> QED
      BY <2>1, <2>2, <2>3, <3>1, Listed DEF Nakis
  <2>7. k \in 0..M
    BY <1>1
  <2> QED
    BY <2>5, <2>6, <2>7 DEF e
<1>5. M \in good
  <2>1. 0..M \subseteq good
    <3> HIDE DEF good
    <3> QED
      BY <1>1, <1>3, <1>4, UpTo
  <2>2. M \in 0..M
    BY <1>1
  <2> QED
    BY <2>1, <2>2
<1> DEFINE w == out \o es
           e == Plain("end_kyoku")
           o == Append(w, e)
<1>6. /\ OutOK(w) /\ w # << >> /\ w[Len(w)] = es[M]
      /\ Moved(w) = Moved(out) /\ Started(w) = Started(out) /\ Ended(w) = Ended(out)
  <2>1. u(M) = w
    BY <1>1
  <2> HIDE DEF u, w
  <2> QED
    BY <1>1, <1>5, <2>1
<1>7. e \in OutEvents /\ e.type = "end_kyoku" /\ Paid(e)
  BY OutTypes DEF Paid
<1>8. PairOK(w[Len(w)], e)
  <2>1. es[M].type \in {"hora", "ryukyoku"}
    BY <1>1
  <2> QED
    BY <1>6, <1>7, <2>1 DEF PairOK
<1>9. out \o Append(es, e) = o
  <2> HIDE DEF e
  <2> QED
    BY <1>2, <1>7, AppendBehind
<1> HIDE DEF w, e
<1>10. OutOK(o) /\ o # << >> /\ o[Len(o)] = e
  BY <1>6, <1>7, <1>8, OutAppend
<1>11. Moved(o) = Moved(out) /\ Started(o) = Started(out) /\ Ended(o) = Append(Ended(out), e)
  <2>1. w \in Seq(OutEvents)
    BY <1>6 DEF OutOK
  <2> QED
    BY <1>6, <1>7, <2>1, Listed DEF Nakis
<1> HIDE DEF o
<1> QED
  BY <1>7, <1>9, <1>10, <1>11 DEF e

\* The winners in the order of their seats.
LEMMA Order ==
  ASSUME NEW S \in SUBSET Seats
  PROVE  LET order == Kept(<<0, 1, 2, 3>>, S)
         IN /\ order \in Seq(S) /\ (S # {} => order # << >>)
            /\ \A i \in 2..Len(order) : order[i - 1] # order[i]
<1> DEFINE A == Kept(<<0, 1>>, S)
           B == Kept(<<2, 3>>, S)
           order == Kept(<<0, 1, 2, 3>>, S)
<1>1. order = A \o B
  <2>1. <<0, 1>> \in Seq(Nat) /\ <<2, 3>> \in Seq(Nat)
    BY Pair
  <2>2. <<0, 1>> \o <<2, 3>> = <<0, 1, 2, 3>>
    <3>1. /\ <<0, 1>> \o <<2, 3>> \in Seq(Nat) /\ Len(<<0, 1>> \o <<2, 3>>) = 4
          /\ \A i \in 1..4 :
               (<<0, 1>> \o <<2, 3>>)[i] = IF i <= 2 THEN <<0, 1>>[i] ELSE <<2, 3>>[i - 2]
      <4>1. Len(<<0, 1>>) = 2 /\ Len(<<2, 3>>) = 2
        OBVIOUS
      <4> QED
        BY <2>1, <4>1, ConcatProperties
    <3>2. <<0, 1, 2, 3>> \in Seq(Nat) /\ Len(<<0, 1, 2, 3>>) = 4
      OBVIOUS
    <3>3. \A i \in 1..4 : (<<0, 1>> \o <<2, 3>>)[i] = <<0, 1, 2, 3>>[i]
      BY <3>1
    <3> QED
      BY <3>1, <3>2, <3>3, SeqEqual
  <2>3. Kept(<<0, 1>> \o <<2, 3>>, S) = Kept(<<0, 1>>, S) \o Kept(<<2, 3>>, S)
    <3> DEFINE a == <<0, 1>>
               b == <<2, 3>>
    <3>1. a \in Seq(Nat) /\ b \in Seq(Nat)
      BY <2>1
    <3> HIDE DEF a, b
    <3>2. Kept(a \o b, S) = Kept(a, S) \o Kept(b, S)
      BY <3>1, KeptConcat
    <3> QED
      BY <3>2 DEF a, b
  <2> QED
    BY <2>2, <2>3
<1>2. /\ A = IF 0 \in S THEN IF 1 \in S THEN <<0, 1>> ELSE <<0>> ELSE IF 1 \in S THEN <<1>> ELSE << >>
      /\ B = IF 2 \in S THEN IF 3 \in S THEN <<2, 3>> ELSE <<2>> ELSE IF 3 \in S THEN <<3>> ELSE << >>
  <2>1. ASSUME NEW x, NEW y
        PROVE  Kept(<<x, y>>, S) = IF x \in S THEN IF y \in S THEN <<x, y>> ELSE <<x>>
                                   ELSE IF y \in S THEN <<y>> ELSE << >>
    BY KeptShort
  <2> QED
    BY <2>1
<1>3. /\ A \in Seq(S \cap {0, 1}) /\ Len(A) \in Nat /\ (A = << >> <=> 0 \notin S /\ 1 \notin S)
      /\ \A i \in 2..Len(A) : A[i - 1] # A[i]
  <2>1. CASE 0 \in S /\ 1 \in S
    <3>1. A = <<0, 1>>
      BY <1>2, <2>1
    <3> HIDE DEF A
    <3> QED
      BY <2>1, <3>1
  <2>2. CASE 0 \in S /\ 1 \notin S
    <3>1. A = <<0>>
      BY <1>2, <2>2
    <3> HIDE DEF A
    <3> QED
      BY <2>2, <3>1
  <2>3. CASE 0 \notin S /\ 1 \in S
    <3>1. A = <<1>>
      BY <1>2, <2>3
    <3> HIDE DEF A
    <3> QED
      BY <2>3, <3>1
  <2>4. CASE 0 \notin S /\ 1 \notin S
    <3>1. A = << >>
      BY <1>2, <2>4
    <3> HIDE DEF A
    <3> QED
      BY <2>4, <3>1
  <2> QED
    BY <2>1, <2>2, <2>3, <2>4
<1>4. /\ B \in Seq(S \cap {2, 3}) /\ Len(B) \in Nat /\ (B = << >> <=> 2 \notin S /\ 3 \notin S)
      /\ \A i \in 2..Len(B) : B[i - 1] # B[i]
  <2>1. CASE 2 \in S /\ 3 \in S
    <3>1. B = <<2, 3>>
      BY <1>2, <2>1
    <3> HIDE DEF B
    <3> QED
      BY <2>1, <3>1
  <2>2. CASE 2 \in S /\ 3 \notin S
    <3>1. B = <<2>>
      BY <1>2, <2>2
    <3> HIDE DEF B
    <3> QED
      BY <2>2, <3>1
  <2>3. CASE 2 \notin S /\ 3 \in S
    <3>1. B = <<3>>
      BY <1>2, <2>3
    <3> HIDE DEF B
    <3> QED
      BY <2>3, <3>1
  <2>4. CASE 2 \notin S /\ 3 \notin S
    <3>1. B = << >>
      BY <1>2, <2>4
    <3> HIDE DEF B
    <3> QED
      BY <2>4, <3>1
  <2> QED
    BY <2>1, <2>2, <2>3, <2>4
<1> HIDE DEF A, B, order
<1>5. A \in Seq(S) /\ B \in Seq(S)
  <2>1. S \cap {0, 1} \subseteq S /\ S \cap {2, 3} \subseteq S
    OBVIOUS
  <2> QED
    BY <1>3, <1>4, <2>1, SeqMonotonic
<1>6. /\ order \in Seq(S) /\ Len(order) = Len(A) + Len(B)
      /\ \A i \in 1..(Len(A) + Len(B)) : order[i] = IF i <= Len(A) THEN A[i] ELSE B[i - Len(A)]
  BY <1>1, <1>5, ConcatProperties
<1>7. S # {} => order # << >>
  <2>1. S # {} => A # << >> \/ B # << >>
    <3>1. \A x \in S : x = 0 \/ x = 1 \/ x = 2 \/ x = 3
      BY DEF Seats
    <3>2. A = << >> /\ B = << >> => S = {}
      BY <1>3, <1>4, <3>1
    <3> QED
      BY <3>2
  <2>2. order = << >> <=> A = << >> /\ B = << >>
    BY <1>1, <1>5, ConcatEqualIffEmpty
  <2> QED
    BY <2>1, <2>2
<1>8. ASSUME NEW i \in 2..Len(order) PROVE order[i - 1] # order[i]
  <2>1. i \in 1..(Len(A) + Len(B)) /\ i - 1 \in 1..(Len(A) + Len(B))
    BY <1>3, <1>4, <1>6
  <2>2. CASE i <= Len(A)
    <3>1. i \in 2..Len(A) /\ i - 1 <= Len(A)
      BY <1>3, <2>2
    <3> QED
      BY <1>3, <1>6, <2>1, <2>2, <3>1
  <2>3. CASE i - 1 > Len(A)
    <3>1. i - Len(A) \in 2..Len(B) /\ ~(i <= Len(A)) /\ ~(i - 1 <= Len(A))
          /\ (i - 1) - Len(A) = (i - Len(A)) - 1
      BY <1>3, <1>4, <2>1, <2>3
    <3>2. B[(i - Len(A)) - 1] # B[i - Len(A)]
      BY <1>4, <3>1
    <3>3. order[i] = B[i - Len(A)] /\ order[i - 1] = B[(i - Len(A)) - 1]
      BY <1>6, <2>1, <3>1
    <3> QED
      BY <3>2, <3>3
  <2>4. CASE ~(i <= Len(A)) /\ i - 1 <= Len(A)
    <3>1. i - 1 \in 1..Len(A) /\ i - Len(A) \in 1..Len(B)
      BY <1>3, <1>4, <2>1, <2>4
    <3>2. order[i - 1] = A[i - 1] /\ order[i] = B[i - Len(A)]
      BY <1>6, <2>1, <2>4
    <3>3. A[i - 1] \in S \cap {0, 1} /\ B[i - Len(A)] \in S \cap {2, 3}
      BY <1>3, <1>4, <3>1, ElementOfSeq
    <3> QED
      BY <3>2, <3>3
  <2> QED
    BY <1>3, <2>1, <2>2, <2>3, <2>4
<1> QED
  BY <1>6, <1>7, <1>8 DEF order

LEMMA HulesOK ==
  ASSUME table \in Table, NEW S \in SUBSET Seats
  PROVE  /\ Hules(S) \in Seq(Wins) /\ (S # {} => Hules(S) # << >>)
         /\ \A i \in 1..Len(Hules(S)) : Hules(S)[i].seat \in S /\ Hules(S)[i].zimo = table.byDraw
         /\ \A i \in 2..Len(Hules(S)) : Hules(S)[i - 1].seat # Hules(S)[i].seat
<1> DEFINE order == Kept(<<0, 1, 2, 3>>, S)
           N == Len(order)
           win(i) == [seat |-> order[i], zimo |-> table.byDraw]
<1>1. /\ order \in Seq(S) /\ (S # {} => order # << >>)
      /\ \A i \in 2..N : order[i - 1] # order[i]
  BY Order
<1> HIDE DEF order
<1>2. N \in Nat /\ DOMAIN order = 1..N /\ \A i \in 1..N : order[i] \in S
  BY <1>1, LenProperties, ElementOfSeq
<1>3. table.byDraw \in BOOLEAN
  BY DEF Table
<1>4. \A i \in 1..N : win(i) \in Wins /\ win(i).seat = order[i] /\ win(i).zimo = table.byDraw
  BY <1>2, <1>3 DEF Wins
<1>5. Hules(S) = [i \in 1..N |-> win(i)]
  BY <1>2 DEF Hules, order
<1> DEFINE hules == [i \in 1..N |-> win(i)]
<1>6. hules \in Seq(Wins) /\ Len(hules) = N /\ \A i \in 1..N : hules[i] = win(i)
  <2> HIDE DEF win, N
  <2> QED
    BY <1>2, <1>4
<1>7. S # {} => hules # << >>
  <2>1. S # {} => N # 0
    BY <1>1, EmptySeq
  <2>2. hules = << >> => Len(hules) = 0
    OBVIOUS
  <2> HIDE DEF hules, N
  <2> QED
    BY <1>6, <2>1, <2>2
<1> HIDE DEF win, hules, N
<1>8. ASSUME NEW i \in 2..N PROVE hules[i - 1].seat # hules[i].seat
  <2>1. i - 1 \in 1..N /\ i \in 1..N
    BY <1>2
  <2> QED
    BY <1>1, <1>4, <1>6, <2>1 DEF N
<1> QED
  BY <1>2, <1>4, <1>5, <1>6, <1>7, <1>8 DEF hules

\* A whole round, read between two others.
RoundWritten(c, d) ==
  /\ Between(d) /\ d.out # << >>
  /\ Moved(d.out) = Moved(c.out) \o Moved(played)
  /\ Started(d.out) = Append(Started(c.out), Plain("start_kyoku"))
  /\ Ended(d.out) = Append(Ended(c.out), Plain("end_kyoku"))

LEMMA RoundRead ==
  ASSUME PlayedInv, Over, table \in Table, NEW c, Between(c), NEW winners \in SUBSET Seats
  PROVE  /\ RoundRecord(winners) \in Seq(RecordEntries)
         /\ RoundWritten(c, ConvertedFrom(c, RoundRecord(winners)))
<1> DEFINE N == Len(played)
           begin == Mark("new_round", << >>)
           end == Mark(IF winners = {} THEN "draw" ELSE "hule", Hules(winners))
           b == Converted(c, begin)
           m == ConvertedFrom(b, Recorded)
           last == m.out[Len(m.out)]
           d == Converted(m, end)
<1>1. /\ Chain(played) /\ played # << >> /\ N \in Nat /\ N > 0 /\ c \in States
      /\ played[N].type \in (IF table.byDraw THEN {"tsumo"} ELSE {"dahai", "kakan"})
      /\ played[N].actor = table.seat
  <2>1. /\ Chain(played)
        /\ LastIs(played, IF table.byDraw THEN {"tsumo"} ELSE {"dahai", "kakan"}, table.seat)
    BY DEF PlayedInv, LastFits, Over
  <2>2. N \in Nat /\ (played # << >> => N > 0)
    BY <2>1, EmptySeq DEF Chain
  <2> QED
    BY <2>1, <2>2 DEF LastIs, Between
<1>2. /\ begin \in RecordEntries /\ end \in RecordEntries
      /\ Hules(winners) \in Seq(Wins)
  <2>1. Hules(winners) \in Seq(Wins) /\ << >> \in Seq(Wins)
    BY HulesOK, EmptySeq
  <2>2. ASSUME NEW type \in {"new_round", "hule", "draw"}, NEW hules \in Seq(Wins)
        PROVE  Mark(type, hules) \in RecordEntries
    BY DEF Mark, Entry, RecordEntries, Marks
  <2> QED
    BY <2>1, <2>2
<1>3. /\ Reading(0, b, b) /\ b \in States /\ Moved(b.out) = Moved(c.out)
      /\ Started(b.out) = Append(Started(c.out), Plain("start_kyoku"))
      /\ Ended(b.out) = Ended(c.out)
  <2>1. /\ Reading(0, b, b) /\ Moved(b.out) = Moved(c.out)
        /\ Started(b.out) = Append(Started(c.out), Plain("start_kyoku"))
        /\ Ended(b.out) = Ended(c.out)
    BY <1>1, RoundBegins
  <2> HIDE DEF b
  <2> QED
    BY <2>1 DEF Reading
<1> HIDE DEF begin, end
<1>4. Recorded \in Seq(RecordEntries) /\ Reading(N, b, m)
  <2> HIDE DEF b
  <2> QED
    BY <1>1, <1>3, RecordedRead
<1>5. /\ RoundRecord(winners) \in Seq(RecordEntries)
      /\ ConvertedFrom(c, RoundRecord(winners)) = d
  <2>1. RoundRecord(winners) = (<<begin>> \o Recorded) \o <<end>>
    BY DEF RoundRecord, begin, end
  <2>2. <<begin>> \in Seq(RecordEntries) /\ <<end>> \in Seq(RecordEntries)
    BY <1>2, Pair
  <2>3. <<begin>> \o Recorded \in Seq(RecordEntries)
    BY <1>4, <2>2, ConcatProperties
  <2>4. (<<begin>> \o Recorded) \o <<end>> \in Seq(RecordEntries)
    BY <2>2, <2>3, ConcatProperties
  <2>5. ConvertedFrom(c, <<begin>>) = b
    BY <1>1, <1>2, LoopShort
  <2>6. ConvertedFrom(c, <<begin>> \o Recorded) = m
    <3> DEFINE s == <<begin>>
               t == Recorded
    <3>1. c \in States /\ s \in Seq(RecordEntries) /\ t \in Seq(RecordEntries)
      BY <1>1, <1>4, <2>2
    <3>2. ConvertedFrom(c, s) = b /\ ConvertedFrom(b, t) = m
      BY <2>5
    <3> HIDE DEF b, m, s, t
    <3>3. ConvertedFrom(c, s \o t) = ConvertedFrom(ConvertedFrom(c, s), t)
      BY <3>1, LoopConcat
    <3>4. ConvertedFrom(c, s \o t) = m
      BY <3>2, <3>3
    <3> QED
      BY <3>4 DEF s, t
  <2>7. ConvertedFrom(c, (<<begin>> \o Recorded) \o <<end>>) = ConvertedFrom(m, <<end>>)
    <3> DEFINE s == <<begin>> \o Recorded
               t == <<end>>
    <3> HIDE DEF b, m, s, t
    <3> QED
      BY <1>1, <2>2, <2>3, <2>6, LoopConcat DEF s, t
  <2>8. ConvertedFrom(m, <<end>>) = d
    <3>1. m \in States
      BY <1>4 DEF Reading
    <3> HIDE DEF m
    <3> QED
      BY <1>2, <3>1, LoopShort
  <2> QED
    BY <2>1, <2>4, <2>7, <2>8
<1> HIDE DEF b, m
<1>6. /\ m \in States /\ m.error = FALSE /\ OutOK(m.out) /\ m.out # << >>
      /\ last = played[N] /\ (~table.byDraw => m.discarder = table.seat)
      /\ Moved(m.out) = Moved(c.out) \o Moved(played)
      /\ Started(m.out) = Append(Started(c.out), Plain("start_kyoku"))
      /\ Ended(m.out) = Ended(c.out)
  <2>1. /\ m \in States /\ ~m.error /\ OutOK(m.out) /\ m.out # << >>
        /\ LastWritten(played[N], last)
        /\ played[N].type \in {"dahai", "kakan"} => m.discarder = played[N].actor
        /\ Moved(m.out) \o Owed(N) = Moved(b.out) \o Moved(First(played, N))
        /\ Started(m.out) = Started(b.out) /\ Ended(m.out) = Ended(b.out)
    BY <1>1, <1>4 DEF Reading
  <2>2. last = played[N]
    BY <1>1, <2>1 DEF LastWritten
  <2>3. Owed(N) = << >>
    BY <1>1 DEF Owed
  <2>4. First(played, N) = played
    BY <1>1, Firsts DEF Chain
  <2>5. Moved(m.out) \o << >> = Moved(m.out)
    <3>1. Moved(m.out) \in Seq(OutEvents)
      BY <2>1, MovedType DEF OutOK
    <3> QED
      BY <3>1, Lengthened
  <2>6. m.error = FALSE
    BY <2>1 DEF States
  <2> HIDE DEF last
  <2> QED
    BY <1>1, <1>3, <2>1, <2>2, <2>3, <2>4, <2>5, <2>6
<1>7. /\ last.type \notin {"end_kyoku", "hora"} /\ last.type # "reach_accepted"
      /\ last.type # "ryukyoku"
  BY <1>1, <1>6
<1> DEFINE es == IF winners = {} THEN <<Plain("ryukyoku")>> ELSE Horas(m, Hules(winners))
           n == m.dropped + Num(m.reach # Nobody)
           o == m.out \o Append(es, Plain("end_kyoku"))
<1>8. /\ es \in Seq(OutEvents) /\ es # << >>
      /\ \A i \in 1..Len(es) : es[i].type \in {"hora", "ryukyoku"} /\ Paid(es[i])
      /\ \A i \in 2..Len(es) : es[i - 1] # es[i]
  <2>1. CASE winners = {}
    <3> DEFINE r == Plain("ryukyoku")
    <3>1. r \in OutEvents /\ r.type = "ryukyoku"
      BY OutTypes
    <3>2. es = <<r>>
      BY <2>1
    <3> HIDE DEF r, es
    <3>3. es \in Seq(OutEvents) /\ Len(es) = 1 /\ es # << >> /\ es[1] = r
      BY <3>1, <3>2
    <3>4. Paid(r)
      BY <3>1 DEF Paid
    <3> QED
      BY <3>1, <3>3, <3>4
  <2>2. CASE winners # {}
    <3> DEFINE H == Hules(winners)
    <3>1. /\ H \in Seq(Wins) /\ H # << >>
          /\ \A i \in 1..Len(H) : H[i].zimo = table.byDraw
          /\ \A i \in 2..Len(H) : H[i - 1].seat # H[i].seat
      BY <2>2, HulesOK
    <3>2. es = Horas(m, H)
      BY <2>2
    <3> HIDE DEF H, es
    <3>3. /\ es \in Seq(OutEvents) /\ Len(es) = Len(H) /\ Len(H) \in Nat
          /\ \A i \in 1..Len(H) :
               /\ es[i].type = "hora" /\ es[i].actor = H[i].seat
               /\ es[i].target = (IF H[i].zimo THEN H[i].seat ELSE m.discarder)
      BY <1>6, <3>1, <3>2, HorasType, LenProperties
    <3>4. es # << >>
      BY <3>1, <3>3, EmptySeq
    <3>5. ASSUME NEW i \in 1..Len(es) PROVE es[i].type \in {"hora", "ryukyoku"} /\ Paid(es[i])
      BY <1>6, <3>1, <3>3 DEF Paid
    <3>6. ASSUME NEW i \in 2..Len(es) PROVE es[i - 1] # es[i]
      <4>1. i \in 1..Len(H) /\ i - 1 \in 1..Len(H) /\ i \in 2..Len(H)
        BY <3>3
      <4> QED
        BY <3>1, <3>3, <4>1
    <3> QED
      BY <3>3, <3>4, <3>5, <3>6
  <2> QED
    BY <2>1, <2>2
<1>9. n \in Nat /\ d = Written(o, Nobody, n, m.discarder, FALSE)
  <2>1. n \in Nat
    BY <1>6 DEF Num, States
  <2>2. CASE winners = {}
    <3>1. end = Mark("draw", Hules(winners))
      BY <2>2 DEF end
    <3>2. d = Written(m.out \o <<Plain("ryukyoku"), Plain("end_kyoku")>>, Nobody, n,
                      m.discarder, m.error)
      BY <1>6, <3>1, ConvertedMark
    <3>3. <<Plain("ryukyoku"), Plain("end_kyoku")>> = Append(es, Plain("end_kyoku"))
      <4> DEFINE x == Plain("ryukyoku")
                 y == Plain("end_kyoku")
      <4>1. x \in OutEvents /\ y \in OutEvents
        BY OutTypes
      <4> HIDE DEF x, y
      <4>2. <<x, y>> = Append(<<x>>, y)
        BY <4>1, Pair
      <4> QED
        BY <2>2, <4>2 DEF x, y
    <3> QED
      BY <1>6, <2>1, <3>2, <3>3
  <2>3. CASE winners # {}
    <3>1. end = Mark("hule", Hules(winners))
      BY <2>3 DEF end
    <3>2. ~(m.discarder = Nobody /\ \E i \in DOMAIN Hules(winners) : ~Hules(winners)[i].zimo)
      <4>1. DOMAIN Hules(winners) = 1..Len(Hules(winners))
        BY <1>2, LenProperties
      <4>2. \A i \in DOMAIN Hules(winners) : Hules(winners)[i].zimo = table.byDraw
        BY <4>1, HulesOK
      <4>3. table.byDraw \/ m.discarder # Nobody
        BY <1>6, NobodyAssumption DEF Table
      <4> QED
        BY <4>2, <4>3
    <3>3. d = Written(m.out \o Append(Horas(m, Hules(winners)), Plain("end_kyoku")), Nobody, n,
                      m.discarder, m.error)
      BY <1>6, <3>1, <3>2, ConvertedMark
    <3> QED
      BY <1>6, <2>1, <2>3, <3>3
  <2> QED
    BY <2>2, <2>3
<1> HIDE DEF es, n
<1>10. /\ OutOK(o) /\ o # << >> /\ o[Len(o)].type = "end_kyoku"
       /\ Moved(o) = Moved(m.out) /\ Started(o) = Started(m.out)
       /\ Ended(o) = Append(Ended(m.out), Plain("end_kyoku"))
  BY <1>6, <1>7, <1>8, EndsWith
<1> HIDE DEF d, o, last
<1>11. d.out = o /\ d.error = FALSE /\ d \in States
  <2>1. d.out = o /\ d.error = FALSE
    BY <1>9 DEF Written
  <2>2. o \in Seq(OutEvents) /\ m.discarder \in Seats \cup {Nobody}
    BY <1>6, <1>10 DEF OutOK, States
  <2> QED
    BY <1>9, <2>1, <2>2, StatesWritten
<1>12. RoundWritten(c, d)
  BY <1>6, <1>10, <1>11 DEF RoundWritten, Between
<1> QED
  BY <1>5, <1>12

\* The record of the two rounds, read from the beginning.
LEMMA TwoRounds ==
  ASSUME PlayedInv, Over, table \in Table
  PROVE  LET c == EventsToMjai
         IN /\ Between(c) /\ c.out # << >>
            /\ Moved(c.out) = Moved(played) \o Moved(played)
            /\ Started(c.out) = <<Plain("start_kyoku"), Plain("start_kyoku")>>
            /\ Ended(c.out) = <<Plain("end_kyoku"), Plain("end_kyoku")>>
<1> DEFINE c0 == Written(<< >>, Nobody, 0, Nobody, FALSE)
           c1 == ConvertedFrom(c0, RoundRecord({}))
           c2 == ConvertedFrom(c1, RoundRecord(CanWin))
<1>1. Between(c0) /\ c0.out = << >>
  <2>1. c0.out = << >> /\ c0.error = FALSE
    BY DEF Written
  <2>2. << >> \in Seq(OutEvents) /\ Len(<< >>) = 0
    BY EmptySeq
  <2>3. OutOK(<< >>)
    BY <2>2 DEF OutOK
  <2>4. c0 \in States
    BY <2>2, StatesWritten
  <2> HIDE DEF c0
  <2> QED
    BY <2>1, <2>3, <2>4 DEF Between
<1>2. {} \in SUBSET Seats /\ CanWin \in SUBSET Seats
  BY DEF CanWin, Table
<1> HIDE DEF c0
<1>3. RoundRecord({}) \in Seq(RecordEntries) /\ RoundWritten(c0, c1)
  BY <1>1, <1>2, RoundRead
<1>4. Between(c1)
  BY <1>3 DEF RoundWritten
<1>5. RoundRecord(CanWin) \in Seq(RecordEntries) /\ RoundWritten(c1, c2)
  <2> HIDE DEF c1
  <2> QED
    BY <1>2, <1>4, RoundRead
<1>6. EventsToMjai = c2
  <2>1. c0 \in States
    BY <1>1 DEF Between
  <2>2. EventsToMjai = ConvertedFrom(c0, RoundRecord({}) \o RoundRecord(CanWin))
    BY DEF EventsToMjai, Record, Written, c0
  <2> QED
    BY <1>3, <1>5, <2>1, <2>2, LoopConcat
<1> HIDE DEF c1, c2
<1>7. /\ Moved(c0.out) = << >> /\ Started(c0.out) = << >> /\ Ended(c0.out) = << >>
  BY <1>1, KeptEmpty DEF Moved, Started, Ended
<1>8. Moved(played) \in Seq(OutEvents)
  <2>1. played \in Seq(OutEvents)
    BY OutTypes, SeqMonotonic DEF PlayedInv, Chain
  <2> QED
    BY <2>1, MovedType
<1>9. /\ Moved(c1.out) = Moved(played)
      /\ Started(c1.out) = <<Plain("start_kyoku")>> /\ Ended(c1.out) = <<Plain("end_kyoku")>>
  <2>1. << >> \o Moved(played) = Moved(played)
    BY <1>8, ConcatEmptySeq
  <2>2. ASSUME NEW x PROVE Append(<< >>, x) = <<x>>
    OBVIOUS
  <2> QED
    BY <1>3, <1>7, <2>1, <2>2 DEF RoundWritten
<1>10. ASSUME NEW x PROVE Append(<<x>>, x) = <<x, x>>
  BY Pair
<1> QED
  BY <1>5, <1>6, <1>9, <1>10 DEF RoundWritten

-----------------------------------------------------------------------------
(***************************************************************************)
(* The file that is written is valid.                                      *)
(***************************************************************************)

Tally(valid, errors, lines, first, last, prev, starts, ends, stop) ==
  [valid |-> valid, errors |-> errors, lines |-> lines, first |-> first, last |-> last,
   prev |-> prev, starts |-> starts, ends |-> ends, stop |-> stop]

\* the state of the pass as long as nothing is wrong
Valid(lines, first, last, prev, starts, ends) ==
  Tally(TRUE, 0, lines, first, last, prev, starts, ends, FALSE)

LEMMA PassOn ==
  ASSUME NEW lines, NEW first, NEW last, NEW prev, NEW starts, NEW ends,
         NEW type \in VALID_EVENTS, NEW event, NEW line, line = Line(type, event),
         <<line>> # prev
  PROVE  Checked(Valid(lines, first, last, prev, starts, ends), line) =
           Valid(lines + 1, IF first = "?" THEN type ELSE first, type, <<line>>,
                IF type = "start_kyoku" THEN starts + 1 ELSE starts,
                IF type = "end_kyoku" THEN ends + 1 ELSE ends)
<1> DEFINE r == Valid(lines, first, last, prev, starts, ends)
           n == lines + 1
           f == IF first = "?" THEN type ELSE first
           s == IF type = "start_kyoku" THEN starts + 1 ELSE starts
           e == IF type = "end_kyoku" THEN ends + 1 ELSE ends
           p == <<line>>
           r1 == [r EXCEPT !.lines = @ + 1]
           r2 == Counted(r1, One(p = r.prev))
           seen == [r2 EXCEPT !.prev = p]
           r3 == [seen EXCEPT !.first = IF @ = "?" THEN line.type ELSE @,
                              !.last = line.type,
                              !.starts = IF line.type = "start_kyoku" THEN @ + 1 ELSE @,
                              !.ends = IF line.type = "end_kyoku" THEN @ + 1 ELSE @]
           known == Counted(r3, One(line.type \notin VALID_EVENTS))
           whole == Failed(known, line.bad)
           yes == TRUE
           no == FALSE
           zero == 0
<1>1. line.type = type /\ line.json = TRUE /\ line.bad = 0
  BY DEF Line
<1>0. ASSUME NEW a, NEW b, NEW c, NEW d, NEW g, NEW h
      PROVE  Valid(a, b, c, d, g, h) = Tally(yes, zero, a, b, c, d, g, h, no)
  BY DEF Valid, Tally
<1>2. ASSUME NEW a, NEW b, NEW c, NEW d, NEW g, NEW h,
             NEW q, q = Valid(a, b, c, d, g, h)
      PROVE  Counted(q, 0) = q
  <2>1. q.errors = zero
    BY <1>2 DEF Valid, Tally, Tally
  <2>2. Counted(q, 0) = [q EXCEPT !.errors = zero]
    BY <2>1 DEF Counted, MaxErrors
  <2>3. [q EXCEPT !.errors = zero] = q
    <3>1. q = Tally(yes, zero, a, b, c, d, g, h, no)
      BY <1>0, <1>2
    <3> HIDE DEF yes, zero, no
    <3> QED
      BY <3>1 DEF Tally
  <2> QED
    BY <2>2, <2>3
<1> HIDE DEF yes, zero, no
<1>3. One(p = r.prev) = 0 /\ One(line.type \notin VALID_EVENTS) = 0
  <2>1. r.prev = prev
    BY DEF Valid, Tally
  <2> HIDE DEF r, p
  <2>2. p # prev
    BY DEF p
  <2> QED
    BY <1>1, <2>1, <2>2 DEF One
<1>4. /\ r.stop = FALSE /\ r.lines = lines
  BY DEF Valid, Tally
<1>5. r1 = Valid(n, first, last, prev, starts, ends)
  <2>1. r1 = [r EXCEPT !.lines = n]
    BY <1>4
  <2> HIDE DEF n
  <2> QED
    <3>1. r = Tally(yes, zero, lines, first, last, prev, starts, ends, no)
      BY <1>0
    <3> HIDE DEF r
    <3>2. [r EXCEPT !.lines = n] = Tally(yes, zero, n, first, last, prev, starts, ends, no)
      BY <3>1 DEF Tally
    <3> QED
      BY <1>0, <2>1, <3>2
<1> HIDE DEF n, r1, r, p
<1>6. r2 = r1
  BY <1>2, <1>3, <1>5
<1>7. seen = Valid(n, first, last, p, starts, ends)
  <2> HIDE DEF r2
  <2> QED
    <3>1. r2 = Tally(yes, zero, n, first, last, prev, starts, ends, no)
      BY <1>0, <1>5, <1>6
    <3>2. seen = Tally(yes, zero, n, first, last, p, starts, ends, no)
      BY <3>1 DEF Tally
    <3> QED
      BY <1>0, <3>2
<1> HIDE DEF r2, seen
<1>8. seen.first = first /\ seen.starts = starts /\ seen.ends = ends
  BY <1>7 DEF Valid, Tally
<1>9. r3 = Valid(n, f, type, p, s, e)
  <2>1. r3 = [seen EXCEPT !.first = f, !.last = type, !.starts = s, !.ends = e]
    <3> HIDE DEF f, s, e
    <3>1. /\ (IF seen.first = "?" THEN line.type ELSE seen.first) = f
          /\ (IF line.type = "start_kyoku" THEN seen.starts + 1 ELSE seen.starts) = s
          /\ (IF line.type = "end_kyoku" THEN seen.ends + 1 ELSE seen.ends) = e
      BY <1>1, <1>8 DEF f, s, e
    <3> QED
      BY <1>1, <3>1
  <2> HIDE DEF f, s, e, r3
  <2> DEFINE s1 == [seen EXCEPT !.first = f]
             s2 == [s1 EXCEPT !.last = type]
             s3 == [s2 EXCEPT !.starts = s]
             s4 == [s3 EXCEPT !.ends = e]
  <2>2. r3 = s4
    BY <2>1
  <2>3. s1 = Tally(yes, zero, n, f, last, p, starts, ends, no)
    <3>1. seen = Tally(yes, zero, n, first, last, p, starts, ends, no)
      BY <1>0, <1>7
    <3> QED
      BY <3>1 DEF Tally
  <2> HIDE DEF s1
  <2>4. s2 = Tally(yes, zero, n, f, type, p, starts, ends, no)
    BY <2>3 DEF Tally
  <2> HIDE DEF s2
  <2>5. s3 = Tally(yes, zero, n, f, type, p, s, ends, no)
    BY <2>4 DEF Tally
  <2> HIDE DEF s3
  <2>6. s4 = Tally(yes, zero, n, f, type, p, s, e, no)
    BY <2>5 DEF Tally
  <2> QED
    BY <1>0, <2>2, <2>6
<1> HIDE DEF f, s, e, r3
<1>10. known = r3
  BY <1>2, <1>3, <1>9
<1> HIDE DEF known
<1>11. whole = r3
  <2>1. Counted(known, 0) = r3
    BY <1>2, <1>9, <1>10
  <2>2. r3.valid = TRUE
    BY <1>9 DEF Valid, Tally
  <2>3. whole = [r3 EXCEPT !.valid = yes]
    <3>1. whole = [Counted(known, 0) EXCEPT !.valid = @ /\ 0 = 0]
      BY <1>1 DEF Failed
    <3> QED
      BY <2>1, <2>2, <3>1 DEF yes
  <2>4. [r3 EXCEPT !.valid = yes] = r3
    <3>1. r3 = Tally(yes, zero, n, f, type, p, s, e, no)
      BY <1>0, <1>9
    <3> QED
      BY <3>1 DEF Tally
  <2> QED
    BY <2>3, <2>4
<1> HIDE DEF whole
<1>12. [whole EXCEPT !.stop = whole.errors >= MaxErrors] = r3
  <2>1. (whole.errors >= MaxErrors) = FALSE
    BY <1>9, <1>11 DEF Valid, Tally, MaxErrors
  <2>2. [r3 EXCEPT !.stop = no] = r3
    <3>1. r3 = Tally(yes, zero, n, f, type, p, s, e, no)
      BY <1>0, <1>9
    <3> QED
      BY <3>1 DEF Tally
  <2> QED
    BY <1>11, <2>1, <2>2 DEF no
<1>13. Checked(r, line) = [whole EXCEPT !.stop = whole.errors >= MaxErrors]
  <2>1. Checked(r, line) = CASE r.stop -> r
                             [] ~r.stop /\ ~line.json -> Failed(seen, 1)
                             [] OTHER -> [whole EXCEPT !.stop = whole.errors >= MaxErrors]
    BY DEF Checked, whole, known, r3, seen, r2, r1, p
  <2> QED
    BY <1>1, <1>4, <2>1
<1> QED
  BY <1>9, <1>12, <1>13 DEF n, f, s, e, p, r

LEMMA FileLines ==
  ASSUME NEW out, OutOK(out)
  PROVE  LET N == Len(out)
             L == MjaiFile(out)
         IN /\ N \in Nat /\ Len(L) = N + 2
            /\ L[1] = Line("start_game", << >>) /\ L[N + 2] = Line("end_game", << >>)
            /\ \A n \in 2..(N + 1) : L[n] = Line(out[n - 1].type, out[n - 1])
            /\ \A n \in 1..(N + 2) :
                 /\ L[n].type \in VALID_EVENTS
                 /\ \E event : L[n] = Line(L[n].type, event)
            /\ \A n \in 2..(N + 2) : L[n - 1] # L[n]
<1> DEFINE N == Len(out)
           L == MjaiFile(out)
           s == Line("start_game", << >>)
           e == Line("end_game", << >>)
           body == [i \in 1..N |-> Line(out[i].type, out[i])]
           T == {s, e} \cup {Line(x.type, x) : x \in OutEvents}
<1>1. N \in Nat /\ DOMAIN out = 1..N /\ \A i \in 1..N : out[i] \in OutEvents
  BY LenProperties, ElementOfSeq DEF OutOK
<1>2. /\ \A x \in OutEvents : x.type \in VALID_EVENTS /\ x.type \notin {"start_game", "end_game"}
      /\ "start_game" \in VALID_EVENTS /\ "end_game" \in VALID_EVENTS
  BY DEF OutEvents, VALID_EVENTS, Nakis
<1>3. \A type, event : Line(type, event).type = type /\ Line(type, event).event = event
  BY DEF Line
<1>4. body \in Seq(T) /\ Len(body) = N /\ \A i \in 1..N : body[i] = Line(out[i].type, out[i])
  <2>1. \A i \in 1..N : Line(out[i].type, out[i]) \in T
    BY <1>1
  <2> HIDE DEF T, N
  <2> QED
    BY <1>1, <2>1
<1>5. L = (<<s>> \o body) \o <<e>>
  BY <1>1 DEF MjaiFile
<1>6. /\ Len(L) = N + 2 /\ L[1] = s /\ L[N + 2] = e
      /\ \A n \in 2..(N + 1) : L[n] = Line(out[n - 1].type, out[n - 1])
  <2> DEFINE m == <<s>> \o body
  <2>1. s \in T /\ e \in T /\ <<s>> \in Seq(T) /\ Len(<<s>>) = 1 /\ <<s>>[1] = s
    OBVIOUS
  <2> HIDE DEF T, s, e, body, L, N
  <2>2. /\ m \in Seq(T) /\ Len(m) = 1 + N
        /\ \A i \in 1..(1 + N) : m[i] = IF i <= 1 THEN <<s>>[i] ELSE body[i - 1]
    BY <1>4, <2>1, ConcatProperties
  <2>3. L = Append(m, e)
    <3> HIDE DEF m
    <3> QED
      BY <1>5, <2>1, <2>2, Lengthened DEF m
  <2>4. /\ Len(Append(m, e)) = Len(m) + 1
        /\ \A i \in 1..Len(m) : Append(m, e)[i] = m[i]
        /\ Append(m, e)[Len(m) + 1] = e
    <3> HIDE DEF m
    <3> QED
      BY <2>1, <2>2, Appended
  <2> HIDE DEF m
  <2>5. Len(L) = N + 2 /\ L[N + 2] = e /\ \A i \in 1..(1 + N) : L[i] = m[i]
    BY <1>1, <2>2, <2>3, <2>4
  <2>6. L[1] = s
    <3>1. 1 \in 1..(1 + N)
      BY <1>1
    <3> QED
      BY <2>1, <2>2, <2>5, <3>1
  <2>7. ASSUME NEW n \in 2..(N + 1) PROVE L[n] = Line(out[n - 1].type, out[n - 1])
    <3>1. n \in 1..(1 + N) /\ n - 1 \in 1..N /\ ~(n <= 1)
      BY <1>1
    <3>2. L[n] = body[n - 1]
      BY <2>2, <2>5, <3>1
    <3> QED
      BY <1>4, <3>1, <3>2
  <2> QED
    BY <2>5, <2>6, <2>7
<1> HIDE DEF L, body, T
<1>7. ASSUME NEW n \in 1..(N + 2)
      PROVE  /\ L[n].type \in VALID_EVENTS
             /\ \E event : L[n] = Line(L[n].type, event)
             /\ n = 1 => L[n].type = "start_game"
             /\ n = N + 2 => L[n].type = "end_game"
             /\ n \in 2..(N + 1) => L[n].type \notin {"start_game", "end_game"}
                                    /\ L[n].event = out[n - 1]
  <2>1. CASE n = 1
    BY <1>1, <1>2, <1>3, <1>6, <2>1
  <2>2. CASE n = N + 2
    BY <1>1, <1>2, <1>3, <1>6, <2>2
  <2>3. CASE n \in 2..(N + 1)
    <3>1. n - 1 \in 1..N
      BY <1>1, <2>3
    <3>2. out[n - 1] \in OutEvents /\ L[n] = Line(out[n - 1].type, out[n - 1])
      BY <1>1, <1>6, <2>3, <3>1
    <3>3. n # 1 /\ n # N + 2
      BY <1>1, <2>3
    <3> HIDE DEF N
    <3> QED
      BY <1>2, <1>3, <3>2, <3>3
  <2>4. n = 1 \/ n = N + 2 \/ n \in 2..(N + 1)
    BY <1>1
  <2> QED
    BY <2>1, <2>2, <2>3, <2>4
<1>8. ASSUME NEW n \in 2..(N + 2) PROVE L[n - 1] # L[n]
  <2>1. n \in 1..(N + 2) /\ n - 1 \in 1..(N + 2)
    BY <1>1
  <2>2. CASE n = N + 2
    <3>1. n - 1 # N + 2 /\ (n - 1 = 1 \/ n - 1 \in 2..(N + 1))
      BY <1>1, <2>2
    <3> QED
      BY <1>7, <2>1, <2>2, <3>1
  <2>3. CASE n # N + 2 /\ n = 2
    <3>1. n - 1 = 1 /\ n \in 2..(N + 1)
      BY <1>1, <2>3
    <3> QED
      BY <1>7, <2>1, <3>1
  <2>4. CASE n # N + 2 /\ n # 2
    <3>1. n \in 2..(N + 1) /\ n - 1 \in 2..(N + 1) /\ n - 1 \in 2..N /\ (n - 1) - 1 = n - 2
      BY <1>1, <2>4
    <3>2. L[n].event = out[n - 1] /\ L[n - 1].event = out[n - 2]
      BY <1>7, <2>1, <3>1
    <3>3. PairOK(out[(n - 1) - 1], out[n - 1])
      BY <3>1 DEF OutOK
    <3> QED
      BY <3>1, <3>2, <3>3 DEF PairOK
  <2> QED
    BY <2>2, <2>3, <2>4
<1> HIDE DEF s, e
<1> QED
  BY <1>1, <1>6, <1>7, <1>8 DEF L, N, s, e

LEMMA FileValid ==
  ASSUME NEW out, OutOK(out), Len(Started(out)) = Len(Ended(out)), Len(Started(out)) > 0
  PROVE  ValidFile(MjaiFile(out))
<1> DEFINE N == Len(out)
           L == MjaiFile(out)
           k(n) == IF n <= 1 THEN 0 ELSE IF n = N + 2 THEN N ELSE n - 1
           S(i) == Len(Started(First(out, i)))
           E(i) == Len(Ended(First(out, i)))
           g(n) == IF n = 0 THEN Fresh
                   ELSE Valid(n, "start_game", L[n].type, <<L[n]>>, S(k(n)), E(k(n)))
           Is(f) == f = [n \in 0..Len(L) |-> IF n = 0 THEN Fresh ELSE Checked(f[n - 1], L[n])]
<1>1. /\ N \in Nat /\ Len(L) = N + 2
      /\ L[1] = Line("start_game", << >>) /\ L[N + 2] = Line("end_game", << >>)
      /\ \A n \in 2..(N + 1) : L[n] = Line(out[n - 1].type, out[n - 1])
      /\ \A n \in 1..(N + 2) :
           L[n].type \in VALID_EVENTS /\ \E event : L[n] = Line(L[n].type, event)
      /\ \A n \in 2..(N + 2) : L[n - 1] # L[n]
  BY FileLines
<1> HIDE DEF L
<1>2. \A type, event : Line(type, event).type = type
  BY DEF Line
<1>3. S(0) = 0 /\ E(0) = 0
  <2>1. First(out, 0) = << >>
    BY Firsts DEF OutOK
  <2>2. Started(<< >>) = << >> /\ Ended(<< >>) = << >> /\ Len(<< >>) = 0
    BY KeptEmpty DEF Started, Ended
  <2> QED
    BY <2>1, <2>2
<1>4. ASSUME NEW i \in 1..N
      PROVE  /\ S(i) = IF out[i].type = "start_kyoku" THEN S(i - 1) + 1 ELSE S(i - 1)
             /\ E(i) = IF out[i].type = "end_kyoku" THEN E(i - 1) + 1 ELSE E(i - 1)
  <2> DEFINE u == First(out, i - 1)
             x == out[i]
  <2>1. x \in OutEvents /\ u \in Seq(OutEvents) /\ First(out, i) = Append(u, x)
    <3>1. i - 1 \in 0..N
      BY <1>1
    <3> QED
      BY <3>1, Firsts DEF OutOK
  <2> HIDE DEF u, x
  <2>2. /\ Started(Append(u, x)) =
             IF x.type = "start_kyoku" THEN Append(Started(u), x) ELSE Started(u)
        /\ Ended(Append(u, x)) = IF x.type = "end_kyoku" THEN Append(Ended(u), x) ELSE Ended(u)
    BY <2>1, Listed
  <2>3. Len(Append(Started(u), x)) = Len(Started(u)) + 1 /\ Len(Append(Ended(u), x)) = Len(Ended(u)) + 1
    BY <2>1, MovedType, Appended
  <2> QED
    BY <2>1, <2>2, <2>3 DEF u, x
<1> HIDE DEF S, E, N
<1>5. ASSUME NEW n \in 1..(N + 2) PROVE g(n) = Checked(g(n - 1), L[n])
  <2> DEFINE line == L[n]
             type == L[n].type
  <2>1. type \in VALID_EVENTS /\ \E event : line = Line(type, event)
    BY <1>1
  <2>2. ASSUME NEW lines, NEW first, NEW last, NEW prev, NEW starts, NEW ends, <<line>> # prev
        PROVE  Checked(Valid(lines, first, last, prev, starts, ends), line) =
                 Valid(lines + 1, IF first = "?" THEN type ELSE first, type, <<line>>,
                       IF type = "start_kyoku" THEN starts + 1 ELSE starts,
                       IF type = "end_kyoku" THEN ends + 1 ELSE ends)
    <3>1. PICK event : line = Line(type, event)
      BY <2>1
    <3> HIDE DEF line, type
    <3> QED
      BY <2>1, <2>2, <3>1, PassOn
  <2>3. CASE n = 1
    <3>1. type = "start_game"
      BY <1>1, <1>2, <2>3
    <3>2. g(n - 1) = Valid(0, "?", "?", << >>, 0, 0)
      BY <2>3 DEF Fresh, Valid, Tally
    <3>3. <<line>> # << >>
      OBVIOUS
    <3>4. Checked(g(n - 1), line) = Valid(0 + 1, type, type, <<line>>, 0, 0)
      <4> HIDE DEF line, type, g
      <4> QED
        BY <2>2, <3>1, <3>2, <3>3
    <3>5. g(n) = Valid(1, "start_game", type, <<line>>, S(0), E(0))
      BY <2>3
    <3> QED
      BY <1>3, <3>1, <3>4, <3>5
  <2>4. CASE n # 1
    <3>1. n \in 2..(N + 2) /\ n - 1 # 0 /\ (n - 1) + 1 = n
      BY <1>1, <2>4
    <3>2. L[n - 1] # L[n]
      BY <1>1, <3>1
    <3>3. <<line>> # <<L[n - 1]>>
      BY <3>2
    <3>4. g(n - 1) = Valid(n - 1, "start_game", L[n - 1].type, <<L[n - 1]>>,
                           S(k(n - 1)), E(k(n - 1)))
      BY <3>1
    <3>5. Checked(g(n - 1), line) =
            Valid(n, "start_game", type, <<line>>,
                  IF type = "start_kyoku" THEN S(k(n - 1)) + 1 ELSE S(k(n - 1)),
                  IF type = "end_kyoku" THEN E(k(n - 1)) + 1 ELSE E(k(n - 1)))
      <4> HIDE DEF line, type, g, k
      <4> QED
        BY <2>2, <3>1, <3>3, <3>4
    <3>6. g(n) = Valid(n, "start_game", type, <<line>>, S(k(n)), E(k(n)))
      BY <1>1, <3>1
    <3>7. /\ S(k(n)) = IF type = "start_kyoku" THEN S(k(n - 1)) + 1 ELSE S(k(n - 1))
          /\ E(k(n)) = IF type = "end_kyoku" THEN E(k(n - 1)) + 1 ELSE E(k(n - 1))
      <4>1. CASE n = N + 2
        <5>1. k(n) = N /\ k(n - 1) = N
          BY <1>1, <4>1
        <5>2. type = "end_game"
          BY <1>1, <1>2, <4>1
        <5> QED
          BY <5>1, <5>2
      <4>2. CASE n # N + 2
        <5>1. n \in 2..(N + 1) /\ n - 1 \in 1..N /\ k(n) = n - 1 /\ k(n - 1) = (n - 1) - 1
          BY <1>1, <3>1, <4>2
        <5>2. type = out[n - 1].type
          BY <1>1, <1>2, <5>1
        <5> HIDE DEF k, type
        <5> QED
          BY <1>4, <5>1, <5>2
      <4> QED
        BY <4>1, <4>2
    <3> HIDE DEF g, k, type
    <3> QED
      BY <3>5, <3>6, <3>7
  <2> QED
    BY <2>3, <2>4
<1> DEFINE h == CHOOSE f : Is(f)
<1>6. Is(h)
  <2> DEFINE f == [n \in 0..Len(L) |-> g(n)]
  <2>1. ASSUME NEW n \in 0..Len(L)
        PROVE  f[n] = IF n = 0 THEN Fresh ELSE Checked(f[n - 1], L[n])
    <3>1. CASE n = 0
      BY <3>1
    <3>2. CASE n # 0
      <4>1. n \in 1..(N + 2) /\ n - 1 \in 0..Len(L)
        BY <1>1, <3>2
      <4>2. f[n] = g(n) /\ f[n - 1] = g(n - 1)
        BY <4>1
      <4> HIDE DEF f, g
      <4> QED
        BY <1>5, <3>2, <4>1, <4>2
    <3> QED
      BY <3>1, <3>2
  <2>2. Is(f)
    <3>1. f = [n \in 0..Len(L) |-> f[n]]
      OBVIOUS
    <3> HIDE DEF f
    <3> QED
      BY <2>1, <3>1
  <2> HIDE DEF Is
  <2> QED
    BY <2>2
<1>7. ValidFile(L) <=>
        LET r == h[Len(L)]
        IN /\ r.valid /\ r.lines > 0
           /\ r.first = "start_game" /\ r.last = "end_game"
           /\ r.starts > 0 /\ r.starts = r.ends
  BY DEF ValidFile
<1> HIDE DEF h
<1>8. h[0] = Fresh /\ \A n \in 1..(N + 2) : h[n] = Checked(h[n - 1], L[n])
  <2>1. 0 \in 0..Len(L) /\ \A n \in 1..(N + 2) : n \in 0..Len(L) /\ n # 0
    BY <1>1
  <2> QED
    BY <1>6, <2>1
<1> DEFINE same == {n \in 0..(N + 2) : h[n] = g(n)}
<1>9. N + 2 \in same
  <2>1. 0 \in same
    BY <1>1, <1>8
  <2>2. ASSUME NEW n \in 1..(N + 2), n - 1 \in same PROVE n \in same
    <3>1. n \in 0..(N + 2) /\ h[n - 1] = g(n - 1)
      BY <1>1, <2>2
    <3> HIDE DEF g
    <3> QED
      BY <1>5, <1>8, <3>1
  <2>3. N + 2 \in Nat
    BY <1>1
  <2>4. 0..(N + 2) \subseteq same
    <3> HIDE DEF same
    <3> QED
      BY <2>1, <2>2, <2>3, UpTo
  <2> QED
    BY <2>3, <2>4
<1>10. h[N + 2] = Valid(N + 2, "start_game", "end_game", <<L[N + 2]>>, S(N), E(N))
  <2>1. N + 2 # 0 /\ ~(N + 2 <= 1)
    BY <1>1
  <2>2. L[N + 2].type = "end_game"
    BY <1>1, <1>2
  <2> QED
    BY <1>9, <2>1, <2>2
<1>11. S(N) = Len(Started(out)) /\ E(N) = Len(Ended(out))
  BY Firsts DEF OutOK, S, E, N
<1> DEFINE r == h[N + 2]
<1>12. /\ r.valid = TRUE /\ r.lines = N + 2 /\ r.first = "start_game" /\ r.last = "end_game"
       /\ r.starts = S(N) /\ r.ends = E(N)
  BY <1>10 DEF Valid, Tally
<1>13. N + 2 > 0
  BY <1>1
<1> HIDE DEF r
<1> QED
  BY <1>1, <1>7, <1>11, <1>12, <1>13 DEF L, r

-----------------------------------------------------------------------------
(***************************************************************************)
(* What is recovered from a record.                                        *)
(***************************************************************************)

LEMMA TypesOf ==
  ASSUME NEW s \in Seq(OutEvents), NEW types
  PROVE  OfType(s, types) = Kept(s, Of(types))
<1> DEFINE T == {s[i] : i \in DOMAIN s}
           S == {e \in T : e.type \in types}
<1>1. Len(s) \in Nat /\ DOMAIN s = 1..Len(s) /\ \A i \in 1..Len(s) : s[i] \in OutEvents
  BY LenProperties, ElementOfSeq
<1>2. s \in Seq(T)
  <2>1. s = [i \in 1..Len(s) |-> s[i]]
    BY <1>1
  <2>2. \A i \in 1..Len(s) : s[i] \in T
    BY <1>1
  <2> HIDE DEF T
  <2> QED
    BY <1>1, <2>1, <2>2
<1>3. \A x \in T : x \in S <=> x \in Of(types)
  BY <1>1 DEF Of
<1>4. OfType(s, types) = Kept(s, S)
  BY DEF OfType
<1> HIDE DEF T, S
<1> QED
  BY <1>2, <1>3, <1>4, KeptSame

LEMMA Recovered == RoundInv /\ PlayedInv => MajsoulRecovered
<1> SUFFICES ASSUME RoundInv, PlayedInv, phase = "play", Over
             PROVE  LET c == EventsToMjai
                        out == c.out
                    IN /\ ~c.error
                       /\ ValidFile(MjaiFile(out))
                       /\ Moves(out) = Moves(played) \o Moves(played)
                       /\ \A e \in Range(OfType(out, {"hora"})) :
                            e.target = (IF table.byDraw THEN e.actor ELSE table.seat)
                       /\ \A i \in DOMAIN out : out[i].type = "reach_accepted" =>
                            /\ out[i + 1].type = "tsumo" /\ out[i + 1].actor = out[i].actor
                            /\ \E j \in 1..(i - 1) :
                                 /\ out[j].type = "reach" /\ out[j].actor = out[i].actor
                                 /\ \A k \in (j + 1)..(i - 1) :
                                      /\ out[k].type # "start_kyoku"
                                      /\ ~(/\ out[k].type = "reach_accepted"
                                           /\ out[k].actor = out[i].actor)
  BY DEF MajsoulRecovered
<1> DEFINE c == EventsToMjai
           out == c.out
           N == Len(out)
<1>1. table \in Table
  BY DEF RoundInv
<1>2. /\ Between(c) /\ out # << >> /\ Moved(out) = Moved(played) \o Moved(played)
      /\ Started(out) = <<Plain("start_kyoku"), Plain("start_kyoku")>>
      /\ Ended(out) = <<Plain("end_kyoku"), Plain("end_kyoku")>>
  BY <1>1, TwoRounds
<1> HIDE DEF c
<1>3. /\ ~c.error /\ OutOK(out) /\ out[N].type = "end_kyoku" /\ out \in Seq(OutEvents)
      /\ N \in Nat /\ DOMAIN out = 1..N /\ \A i \in 1..N : out[i] \in OutEvents
  <2>1. ~c.error /\ OutOK(out) /\ out[N].type = "end_kyoku"
    BY <1>2 DEF Between
  <2>2. out \in Seq(OutEvents)
    BY <2>1 DEF OutOK
  <2> QED
    BY <2>1, <2>2, LenProperties, ElementOfSeq
<1>4. ValidFile(MjaiFile(out))
  <2>1. Len(Started(out)) = 2 /\ Len(Ended(out)) = 2
    BY <1>2
  <2>2. Len(Started(out)) = Len(Ended(out)) /\ Len(Started(out)) > 0
    BY <2>1
  <2>3. OutOK(out)
    BY <1>3
  <2> HIDE DEF out
  <2> QED
    BY <2>2, <2>3, FileValid
<1>5. Moves(out) = Moves(played) \o Moves(played)
  <2>1. played \in Seq(OutEvents)
    BY OutTypes, SeqMonotonic DEF PlayedInv, Chain
  <2>2. ASSUME NEW s \in Seq(OutEvents) PROVE Moves(s) = Moved(s)
    BY TypesOf DEF Moves, Moved
  <2> QED
    BY <1>2, <1>3, <2>1, <2>2
<1>6. ASSUME NEW e \in Range(OfType(out, {"hora"}))
      PROVE  e.target = (IF table.byDraw THEN e.actor ELSE table.seat)
  <2> DEFINE X == {out[i] : i \in 1..N}
             H == Kept(out, Of({"hora"}))
  <2>1. out \in Seq(X)
    <3>1. out = [i \in 1..N |-> out[i]] /\ \A i \in 1..N : out[i] \in X
      BY <1>3
    <3> HIDE DEF X
    <3> QED
      BY <1>3, <3>1
  <2>2. OfType(out, {"hora"}) = H
    BY <1>3, TypesOf
  <2>3. H \in Seq(X \cap Of({"hora"}))
    <3> HIDE DEF X
    <3> QED
      BY <2>1, KeptElements
  <2>4. e \in X \cap Of({"hora"})
    <3>1. PICK i \in DOMAIN H : e = H[i]
      BY <2>2 DEF Range
    <3> HIDE DEF X, H
    <3> QED
      BY <2>3, <3>1, ElementOfSeq, LenProperties
  <2>5. e.type = "hora" /\ Paid(e)
    BY <1>3, <2>4 DEF Of, OutOK
  <2> QED
    BY <2>5 DEF Paid
<1>7. ASSUME NEW i \in DOMAIN out, out[i].type = "reach_accepted"
      PROVE  /\ out[i + 1].type = "tsumo" /\ out[i + 1].actor = out[i].actor
             /\ \E j \in 1..(i - 1) :
                  /\ out[j].type = "reach" /\ out[j].actor = out[i].actor
                  /\ \A k \in (j + 1)..(i - 1) :
                       /\ out[k].type # "start_kyoku"
                       /\ ~(/\ out[k].type = "reach_accepted"
                            /\ out[k].actor = out[i].actor)
  <2>1. i \in 1..N /\ i # N
    BY <1>3, <1>7
  <2>2. i + 1 \in 2..N /\ (i + 1) - 1 = i
    BY <1>3, <2>1
  <2>3. PairOK(out[i], out[i + 1])
    <3>1. \A k \in 2..N : PairOK(out[k - 1], out[k])
      BY <1>3 DEF OutOK
    <3> QED
      BY <2>2, <3>1
  <2>4. Waiting(out, out[i].actor, i - 1)
    BY <1>3, <1>7, <2>1 DEF OutOK
  <2> QED
    BY <1>7, <2>3, <2>4 DEF PairOK, Waiting
<1> HIDE DEF out
<1> QED
  BY <1>3, <1>4, <1>5, <1>6, <1>7 DEF out, c

\* Of every round that can be played, in whichever order calls, kans and reaches
\* come and however long it is: its Majsoul record, read twice in a row, is
\* converted to the moves that were played, every ron is paid by the seat whose
\* tile was taken (also that of a robbed kan), each acceptance is that of an
\* open reach right before the draw of its seat, and the file is valid for the
\* validator (majsoul/convert.rs:107-360, mjai-validator validate_file).
THEOREM RecordIsRecovered == Spec => []MajsoulRecovered
<1>1. PlayInv => MajsoulRecovered
  BY Recovered DEF PlayInv
<1> QED
  BY <1>1, PlayBegins, PlayGoesOn, PTL DEF Spec

-----------------------------------------------------------------------------
(***************************************************************************)
(* The placeholder at the end of a seat's discards is taken off by the     *)
(* replay and put back by nobody: finalize_discards drops it in any case.  *)
(***************************************************************************)

\* Two placeholders never follow each other, so at most one is at the end.
LEMMA LastZero ==
  ASSUME NEW L, NEW D, LegalLists(L, D)
  PROVE  /\ Len(D) \in Nat
         /\ D = << >> \/ D[Len(D)].kind # "zero" => WithoutLastZeros(D) = D
         /\ D # << >> /\ D[Len(D)].kind = "zero" =>
              /\ WithoutLastZeros(D) = First(D, Len(D) - 1)
              /\ Len(D) > 1 => D[Len(D) - 1].kind # "zero"
<1> DEFINE N == Len(D)
           I == {i \in 1..N : D[i].kind # "zero"}
<1>1. /\ D \in Seq(DiscardItems) /\ L \in Seq(TakeItems) /\ N \in Nat /\ (D = << >> <=> N = 0)
      /\ N <= Len(L)
      /\ \A i \in 1..N :
           /\ Fits(L[i], D[i])
           /\ D[i].kind \in {"ankan", "kakan", "zero"} /\ i < Len(L) => L[i + 1].kind = "tile"
  BY EmptySeq, LenProperties DEF LegalLists
<1>2. WithoutLastZeros(D) = First(D, IF I # {} THEN Max(I) ELSE 0)
  BY DEF WithoutLastZeros, SelectLastInSeq, First
<1>3. ASSUME NEW m \in I, \A i \in I : m >= i PROVE Max(I) = m
  <2> DEFINE x == Max(I)
  <2>1. x \in I /\ \A i \in I : x >= i
    BY <1>3 DEF Max
  <2>2. x \in Nat /\ m \in Nat
    BY <1>1, <1>3, <2>1
  <2> HIDE DEF I, x
  <2>3. x = m
    BY <1>3, <2>1, <2>2
  <2> QED
    BY <2>3 DEF x
<1>4. First(D, N) = D /\ First(D, 0) = << >>
  BY <1>1, Firsts
<1>5. CASE D = << >>
  <2>1. I = {}
    BY <1>1, <1>5
  <2> HIDE DEF I
  <2> QED
    BY <1>1, <1>2, <1>4, <1>5, <2>1
<1>6. CASE D # << >> /\ D[N].kind # "zero"
  <2>1. N \in I /\ \A i \in I : N >= i
    BY <1>1, <1>6
  <2> HIDE DEF I
  <2>2. Max(I) = N /\ I # {}
    BY <1>3, <2>1
  <2> QED
    BY <1>1, <1>2, <1>4, <1>6, <2>2
<1>7. CASE D # << >> /\ D[N].kind = "zero"
  <2>1. N \in 1..N /\ N - 1 \in Nat
    BY <1>1, <1>7
  <2>2. L[N].kind = "daiminkan"
    BY <1>1, <1>7, <2>1 DEF Fits
  <2>3. N > 1 => D[N - 1].kind # "zero"
    <3> SUFFICES ASSUME N > 1, D[N - 1].kind = "zero" PROVE FALSE
      OBVIOUS
    <3>1. N - 1 \in 1..N /\ N - 1 < Len(L) /\ (N - 1) + 1 = N
      BY <1>1, LenProperties
    <3> QED
      BY <1>1, <2>2, <3>1
  <2>4. CASE N = 1
    <3>1. I = {}
      BY <1>7, <2>4
    <3> HIDE DEF I
    <3> QED
      BY <1>1, <1>2, <1>7, <2>3, <2>4, <3>1
  <2>5. CASE N # 1
    <3>0. N - 1 \in I
      <4>1. N > 1 /\ N - 1 \in 1..N
        <5>1. N \in Nat
          BY <1>1
        <5> HIDE DEF N
        <5> QED
          BY <2>1, <2>5, <5>1
      <4> QED
        BY <2>3, <4>1
    <3>1. N - 1 \in I /\ \A i \in I : N - 1 >= i
      <4> SUFFICES ASSUME NEW i \in I PROVE N - 1 >= i
        BY <3>0
      <4>1. i \in 1..N /\ i # N
        BY <1>7
      <4> QED
        BY <1>1, <4>1
    <3> HIDE DEF I
    <3>2. Max(I) = N - 1 /\ I # {}
      BY <1>3, <3>1
    <3> QED
      BY <1>1, <1>2, <1>7, <2>3, <3>2
  <2> QED
    BY <2>4, <2>5
<1> QED
  BY <1>5, <1>6, <1>7

\* The placeholder of the last discard can as well be left out.
LEMMA ZeroDropped ==
  ASSUME NEW a \in Seats, NEW L, NEW D, LegalLists(L, D), D # << >>, D[Len(D)].kind = "zero"
  PROVE  Finals(a, L, First(D, Len(D) - 1))[Len(L)].ds = Finals(a, L, D)[Len(L)].ds
<1> DEFINE N == Len(D)
           M == N - 1
           E == First(D, M)
           K == First(L, M)
           h == Finals(a, L, D)
           g == Finals(a, L, E)
           k == Finals(a, K, E)
           u == DiscardEvents(a, D)
           v == DiscardEvents(a, E)
           z == Event("dahai", a, a, Other)
           S == [di : Nat \ {0}, ds : Seq(MoveEvents)]
<1>1. /\ L \in Seq(TakeItems) /\ D \in Seq(DiscardItems) /\ Len(L) \in Nat /\ N \in Nat
      /\ N <= Len(L) /\ Len(L) <= N + 1 /\ N # 0 /\ M \in Nat /\ M + 1 = N
  BY EmptySeq, LenProperties DEF LegalLists
<1>2. /\ E \in Seq(DiscardItems) /\ Len(E) = M
      /\ K \in Seq(TakeItems) /\ Len(K) = M
  <2>1. M \in 0..N /\ M \in 0..Len(L)
    BY <1>1
  <2> HIDE DEF M
  <2> QED
    BY <1>1, <2>1, Firsts
<1>3. ASSUME NEW n \in 1..M PROVE E[n] = D[n] /\ K[n] = L[n]
  BY <1>1, <1>3 DEF First
<1> HIDE DEF E, K
<1>4. LegalLists(K, E)
  <2> DEFINE Legal(i) ==
               /\ Fits(K[i], E[i])
               /\ E[i].kind \in {"ankan", "kakan", "zero"} /\ i < Len(K) => K[i + 1].kind = "tile"
               /\ E[i].kind = "reach" => \A j \in 1..i : K[j].kind = "tile"
               /\ E[i].kind = "kakan" => \E j \in 1..(i - 1) : K[j].kind # "tile"
  <2>6. Len(E) <= Len(K) /\ Len(K) <= Len(E) + 1 /\ ~(Len(K) > Len(E))
    BY <1>1, <1>2
  <2>7. SUFFICES ASSUME NEW i \in 1..M PROVE Legal(i)
    <3>1. SUFFICES \A i \in 1..Len(E) : Legal(i)
      BY <1>2, <2>6, Zenon DEF LegalLists
    <3> QED
      BY <1>2, Zenon
  <2>1. i \in 1..N /\ (i < M => i + 1 \in 1..M /\ i < Len(L))
    BY <1>1
  <2>2. \A j \in 1..i : j \in 1..M
    BY <1>1
  <2>3. /\ Fits(L[i], D[i])
        /\ D[i].kind \in {"ankan", "kakan", "zero"} /\ i < Len(L) => L[i + 1].kind = "tile"
        /\ D[i].kind = "reach" => \A j \in 1..i : L[j].kind = "tile"
        /\ D[i].kind = "kakan" => \E j \in 1..(i - 1) : L[j].kind # "tile"
    BY <2>1 DEF LegalLists
  <2>4. E[i] = D[i] /\ K[i] = L[i] /\ (i < M => K[i + 1] = L[i + 1])
        /\ \A j \in 1..i : K[j] = L[j]
    BY <1>3, <2>1, <2>2
  <2>5. \A j \in 1..(i - 1) : K[j] = L[j]
    BY <1>1, <2>4
  <2>8. i < Len(K) => i < M
    BY <1>2
  <2> QED
    BY <2>1, <2>3, <2>4, <2>5, <2>8
<1>5. /\ h[0] = [di |-> 1, ds |-> u[N]] /\ \A n \in 0..Len(L) : h[n] \in S
      /\ \A n \in 1..Len(L) : h[n] = Finalize(h[n - 1], TakeEvent(a, L[n]))
  BY <1>1, FinalsRecursion
<1>6. /\ g[0] = [di |-> 1, ds |-> v[M]] /\ \A n \in 0..Len(L) : g[n] \in S
      /\ \A n \in 1..Len(L) : g[n] = Finalize(g[n - 1], TakeEvent(a, L[n]))
  BY <1>1, <1>2, FinalsRecursion
<1>7. /\ k[0] = [di |-> 1, ds |-> v[M]] /\ \A n \in 0..M : k[n] \in S
      /\ \A n \in 1..M : k[n] = Finalize(k[n - 1], TakeEvent(a, L[n]))
  <2>1. /\ k[0] = [di |-> 1, ds |-> v[Len(E)]] /\ \A n \in 0..Len(K) : k[n] \in S
        /\ \A n \in 1..Len(K) : k[n] = Finalize(k[n - 1], TakeEvent(a, K[n]))
    BY <1>2, FinalsRecursion
  <2> QED
    BY <1>2, <1>3, <2>1
<1>8. /\ u[0] = << >> /\ \A n \in 0..N : u[n] \in Seq(MoveEvents)
      /\ \A n \in 1..N : u[n] = u[n - 1] \o DiscardEvent(a, D[n])
  BY <1>1, DiscardEventsOK
<1>9. /\ v[0] = << >> /\ \A n \in 0..M : v[n] \in Seq(MoveEvents)
      /\ \A n \in 1..M : v[n] = v[n - 1] \o DiscardEvent(a, D[n])
  <2>1. /\ v[0] = << >> /\ \A n \in 0..Len(E) : v[n] \in Seq(MoveEvents)
        /\ \A n \in 1..Len(E) : v[n] = v[n - 1] \o DiscardEvent(a, E[n])
    BY <1>2, DiscardEventsOK
  <2> QED
    BY <1>2, <1>3, <2>1
<1>10. \A n \in 1..Len(L) : TakeEvent(a, L[n]) \in MoveEvents
  BY <1>1, ElementOfSeq, TakeEventType
<1>11. /\ k[M].di = Len(k[M].ds) + 1
       /\ \A n \in 1..M : /\ k[n - 1].di \in 1..Len(k[n - 1].ds)
                          /\ k[n - 1].ds[k[n - 1].di].type = "reach" => k[n - 1].di < Len(k[n - 1].ds)
  <2>1. k[Len(E)].di = Len(k[Len(E)].ds) + 1
    BY <1>4, FinalsSteps
  <2>2. ASSUME NEW n \in 1..Len(E)
        PROVE  /\ k[n - 1].di \in 1..Len(k[n - 1].ds)
               /\ k[n - 1].ds[k[n - 1].di].type = "reach" => k[n - 1].di < Len(k[n - 1].ds)
    BY <1>4, DiscardInPlace
  <2> QED
    BY <1>2, <2>1, <2>2
<1> HIDE DEF h, g, k, u, v, M
<1>12. z \in MoveEvents /\ DiscardEvent(a, D[N]) = <<z>> /\ TakeEvent(a, L[N]).type = "daiminkan"
  <2>1. N \in 1..N /\ N \in 1..Len(L) /\ D[N] \in DiscardItems /\ L[N] \in TakeItems
    BY <1>1, ElementOfSeq
  <2>2. D[N].pai = Other /\ L[N].kind = "daiminkan"
    BY <2>1 DEF DiscardItems, LegalLists, Fits
  <2> QED
    BY <2>1, <2>2, TakeEventType DEF DiscardEvent, Event, MoveEvents
<1>13. \A n \in 0..M : u[n] = v[n]
  <2> DEFINE T == {n \in 0..M : u[n] = v[n]}
  <2>1. 0 \in T
    BY <1>1, <1>8, <1>9
  <2>2. ASSUME NEW n \in 1..M, n - 1 \in T PROVE n \in T
    <3>1. n \in 1..N /\ n \in 0..M /\ u[n - 1] = v[n - 1]
      BY <1>1, <2>2
    <3>2. u[n] = v[n - 1] \o DiscardEvent(a, D[n])
      BY <1>8, <3>1
    <3>3. v[n] = v[n - 1] \o DiscardEvent(a, D[n])
      BY <1>9
    <3> QED
      BY <3>1, <3>2, <3>3
  <2> HIDE DEF T
  <2>3. 0..M \subseteq T
    BY <1>1, <2>1, <2>2, UpTo
  <2> QED
    BY <2>3 DEF T
<1>14. u[N] = Append(v[M], z) /\ v[M] \in Seq(MoveEvents)
  <2>1. N \in 1..N /\ N - 1 = M /\ M \in 0..M
    BY <1>1
  <2>2. u[N] = v[M] \o <<z>> /\ v[M] \in Seq(MoveEvents)
    BY <1>8, <1>9, <1>12, <1>13, <2>1
  <2> HIDE DEF z
  <2> QED
    BY <1>12, <2>2, AppendIsConcat
<1> HIDE DEF z, S
<1>15. \A n \in 0..M : h[n] = [di |-> k[n].di, ds |-> Append(k[n].ds, z)] /\ g[n] = k[n]
  <2> DEFINE Q(n) == h[n] = [di |-> k[n].di, ds |-> Append(k[n].ds, z)] /\ g[n] = k[n]
             T == {n \in 0..M : Q(n)}
  <2>1. 0 \in T
    <3>1. k[0].di = 1 /\ k[0].ds = v[M] /\ 0 \in 0..M
      BY <1>1, <1>7
    <3>2. h[0] = [di |-> 1, ds |-> Append(v[M], z)] /\ g[0] = k[0]
      BY <1>5, <1>6, <1>7, <1>14
    <3> QED
      BY <3>1, <3>2
  <2>2. ASSUME NEW n \in 1..M, n - 1 \in T PROVE n \in T
    <3> DEFINE f == k[n - 1]
               take == TakeEvent(a, L[n])
    <3>1. n \in 1..Len(L) /\ n - 1 \in 0..M /\ n \in 0..M
      BY <1>1
    <3>2. Q(n - 1)
      BY <2>2
    <3>3. /\ k[n] = Finalize(f, take) /\ g[n] = Finalize(f, take)
          /\ h[n] = Finalize([di |-> f.di, ds |-> Append(f.ds, z)], take)
      BY <1>5, <1>6, <1>7, <3>1, <3>2
    <3>4. f = [di |-> f.di, ds |-> f.ds] /\ f.ds \in Seq(MoveEvents) /\ take \in MoveEvents
      BY <1>7, <1>10, <3>1 DEF S
    <3>5. /\ f.di \in 1..Len(f.ds)
          /\ f.ds[f.di].type = "reach" => f.di < Len(f.ds)
      BY <1>11
    <3> HIDE DEF f, take
    <3>6. Finalize([di |-> f.di, ds |-> Append(f.ds, z)], take)
            = [di |-> Finalize([di |-> f.di, ds |-> f.ds], take).di,
               ds |-> Append(Finalize([di |-> f.di, ds |-> f.ds], take).ds, z)]
      BY <1>12, <3>4, <3>5, FinalizeBefore
    <3>7. Q(n)
      BY <3>3, <3>4, <3>6
    <3> HIDE DEF Q
    <3> QED
      BY <3>1, <3>7
  <2> HIDE DEF T
  <2>3. 0..M \subseteq T
    BY <1>1, <2>1, <2>2, UpTo
  <2> QED
    BY <2>3 DEF T
<1>16. h[N] = k[M]
  <2> DEFINE f == k[M]
             take == TakeEvent(a, L[N])
             es == Append(f.ds, z)
             i == Len(f.ds) + 1
  <2>1. M \in 0..M /\ N \in 1..Len(L) /\ N - 1 = M
    BY <1>1
  <2>2. h[N] = Finalize([di |-> i, ds |-> es], take)
    BY <1>5, <1>11, <1>15, <2>1
  <2>3. f.ds \in Seq(MoveEvents) /\ f = [di |-> i, ds |-> f.ds]
    BY <1>7, <1>11, <2>1 DEF S
  <2>4. Len(f.ds) \in Nat /\ Len(es) = i /\ es[i] = z
    BY <1>12, <2>3, Appended
  <2>5. RemoveAt(es, i) = f.ds
    BY <1>12, <2>3, LastRemoved
  <2>6. z.type = "dahai" /\ z.pai = Other /\ take.type = "daiminkan"
    BY <1>12 DEF z, Event
  <2> HIDE DEF es, f, take
  <2>7. IF es[i].type = "reach" THEN i = i + 1 ELSE i = i
    BY <2>4, <2>6
  <2>8. i \in Nat /\ i <= Len(es) /\ Len(es) \in Nat
    BY <2>4
  <2> HIDE DEF i
  <2>9. Finalize([di |-> i, ds |-> es], take) = FilledAt(es, i, take)
    BY <2>7, <2>8, FinalizeFills
  <2>10. FilledAt(es, i, take) = [di |-> i, ds |-> f.ds]
    BY <2>4, <2>5, <2>6 DEF FilledAt
  <2> QED
    BY <2>2, <2>3, <2>9, <2>10 DEF f
<1>17. h[Len(L)] = h[N]
  BY FinalsSteps DEF h
<1>18. ASSUME NEW n \in 1..Len(L), g[n - 1] = k[M] PROVE g[n] = k[M]
  <2> DEFINE f == k[M]
             take == TakeEvent(a, L[n])
  <2>1. M \in 0..M
    BY <1>1
  <2>2. f \in [di : Nat \ {0}, ds : Seq(MoveEvents)] /\ f.di = Len(f.ds) + 1
    BY <1>7, <1>11, <2>1 DEF S
  <2>3. g[n] = Finalize(f, take)
    BY <1>6, <1>18
  <2> HIDE DEF f, take
  <2>4. ~(f.di <= Len(f.ds)) /\ f.di > Len(f.ds) /\ [f EXCEPT !.di = f.di] = f
    BY <2>2
  <2> QED
    BY <2>3, <2>4 DEF Finalize, f
<1>19. g[Len(L)] = k[M]
  <2>1. M \in 0..M /\ N \in 1..Len(L) /\ N - 1 = M
    BY <1>1
  <2>0. g[M] = k[M]
    BY <1>15, <2>1
  <2>2. g[N] = k[M]
    BY <1>18, <2>0, <2>1
  <2>3. CASE Len(L) = N
    BY <2>2, <2>3
  <2>4. CASE Len(L) = N + 1
    <3>1. N + 1 \in 1..Len(L) /\ (N + 1) - 1 = N
      BY <1>1, <2>4
    <3>2. g[N + 1] = k[M]
      BY <1>18, <2>2, <3>1
    <3> QED
      BY <2>4, <3>2
  <2> QED
    BY <1>1, <2>3, <2>4
<1> QED
  BY <1>16, <1>17, <1>19 DEF g, h, E, M

-----------------------------------------------------------------------------
(***************************************************************************)
(* The loop of replay_actions over the actions of a seat.                  *)
(***************************************************************************)

ReplayItems ==
  [kind : {"tile", "giri", "reach", "zero", "ankan", "kakan"} \cup Nakis, from : Seats,
   pai : Tiles \cup {Other}]
Replaying(incoming, outgoing, reach, lastDraw) ==
  [incoming |-> incoming, outgoing |-> outgoing, reach |-> reach, lastDraw |-> lastDraw]
\* the two values of a flag, as names
Off == FALSE
On == TRUE
Flags == {Off, On}
Replays ==
  [incoming : Seq(ReplayItems), outgoing : Seq(ReplayItems), reach : Flags,
   lastDraw : Tiles \cup {Other, Nobody}]
ActionTypes == {"tsumo", "dahai", "reach", "ankan", "kakan"} \cup Nakis
Actions == {e \in RoundEvents : e.type \in ActionTypes}

\* One action, in closed form.
ReplayedAs(s, p, q, reach, last, e) ==
  LET r == Replaying(p, q, reach, last)
      item == Item(e.type, (e.target - e.actor) % 4, e.pai)
  IN /\ e.type = "tsumo" => s = Replaying(Append(p, Item("tile", 0, e.pai)), q, reach, e.pai)
     /\ e.type = "dahai" => s = Replaying(p, Append(q, Discarded(r, e.pai)), Off, Nobody)
     /\ e.type = "reach" => s = Replaying(p, q, On, last)
     /\ e.type \in {"ankan", "kakan"} => s = Replaying(p, Append(q, item), reach, last)
     /\ e.type \in Nakis =>
          s = Replaying(Append(p, item),
                        IF e.type = "daiminkan" THEN Append(q, Item("zero", 0, Other)) ELSE q,
                        reach, last)

LEMMA ReachAs ==
  ASSUME NEW p, NEW q, NEW reach, NEW last, NEW b
  PROVE  [Replaying(p, q, reach, last) EXCEPT !.reach = b] = Replaying(p, q, b, last)
BY DEF Replaying

LEMMA ReplayedOne ==
  ASSUME NEW p, NEW q, NEW reach, NEW last, NEW e \in Actions
  PROVE  ReplayedAs(ReplayOne(Replaying(p, q, reach, last), e), p, q, reach, last, e)
<1> DEFINE r == Replaying(p, q, reach, last)
           item == Item(e.type, (e.target - e.actor) % 4, e.pai)
<1>1. CASE e.type = "tsumo"
  <2> DEFINE x == Append(p, Item("tile", 0, e.pai))
  <2>1. ReplayOne(r, e) = [[r EXCEPT !.incoming = x] EXCEPT !.lastDraw = e.pai]
    <3>1. r.incoming = p
      BY DEF Replaying
    <3> QED
      BY <1>1, <3>1 DEF ReplayOne
  <2>2. [[r EXCEPT !.incoming = x] EXCEPT !.lastDraw = e.pai] = Replaying(x, q, reach, e.pai)
    <3> DEFINE s == Replaying(x, q, reach, last)
               t == e.pai
    <3> HIDE DEF x, t
    <3>1. [r EXCEPT !.incoming = x] = s
      BY DEF Replaying
    <3>2. [s EXCEPT !.lastDraw = t] = Replaying(x, q, reach, t)
      BY DEF Replaying
    <3> QED
      BY <3>1, <3>2 DEF t
  <2> QED
    BY <1>1, <2>1, <2>2 DEF Nakis, ReplayedAs
<1>2. CASE e.type = "dahai"
  <2> DEFINE x == Append(q, Discarded(r, e.pai))
  <2>1. ReplayOne(r, e) = [[[r EXCEPT !.outgoing = x] EXCEPT !.reach = Off] EXCEPT !.lastDraw = Nobody]
    <3>1. r.outgoing = q
      BY DEF Replaying
    <3> HIDE DEF r
    <3>2. ReplayOne(r, e) = AfterDiscard(r, e.pai)
      BY <1>2 DEF ReplayOne
    <3> QED
      BY <3>1, <3>2 DEF AfterDiscard, Off
  <2>2. [[[r EXCEPT !.outgoing = x] EXCEPT !.reach = Off] EXCEPT !.lastDraw = Nobody]
          = Replaying(p, x, Off, Nobody)
    <3> DEFINE s == Replaying(p, x, reach, last)
               t == Replaying(p, x, Off, last)
    <3> HIDE DEF x
    <3>1. [r EXCEPT !.outgoing = x] = s
      BY DEF Replaying
    <3>2. [s EXCEPT !.reach = Off] = t
      BY DEF Replaying
    <3>3. [t EXCEPT !.lastDraw = Nobody] = Replaying(p, x, Off, Nobody)
      BY DEF Replaying
    <3> QED
      BY <3>1, <3>2, <3>3
  <2> QED
    BY <1>2, <2>1, <2>2 DEF Nakis, ReplayedAs
<1>3. CASE e.type = "reach"
  <2>1. ReplayOne(r, e) = [r EXCEPT !.reach = On]
    <3> HIDE DEF r
    <3> QED
      BY <1>3 DEF ReplayOne, On
  <2>2. [r EXCEPT !.reach = On] = Replaying(p, q, On, last)
    BY ReachAs
  <2> QED
    BY <1>3, <2>1, <2>2 DEF Nakis, ReplayedAs
<1>4. CASE e.type \in {"ankan", "kakan"}
  <2> DEFINE x == Append(q, item)
  <2>1. ReplayOne(r, e) = [r EXCEPT !.outgoing = x]
    <3>1. r.outgoing = q
      BY DEF Replaying
    <3> HIDE DEF r
    <3>2. ReplayOne(r, e) = AfterMeld(r, e)
      BY <1>4 DEF ReplayOne
    <3> QED
      BY <1>4, <3>1, <3>2 DEF AfterMeld, Nakis
  <2> HIDE DEF x
  <2>2. [r EXCEPT !.outgoing = x] = Replaying(p, x, reach, last)
    BY DEF Replaying
  <2> QED
    BY <1>4, <2>1, <2>2 DEF Nakis, x, ReplayedAs
<1>5. CASE e.type \in Nakis
  <2> DEFINE x == Append(p, item)
             y == IF e.type = "daiminkan" THEN Append(q, Item("zero", 0, Other)) ELSE q
  <2>1. ReplayOne(r, e) = [[r EXCEPT !.incoming = x] EXCEPT !.outgoing = y]
    <3>1. r.outgoing = q /\ r.incoming = p
      BY DEF Replaying
    <3> HIDE DEF r
    <3>2. ReplayOne(r, e) = AfterMeld(r, e)
      BY <1>5 DEF ReplayOne, Nakis
    <3> QED
      BY <1>5, <3>1, <3>2 DEF AfterMeld
  <2>2. [[r EXCEPT !.incoming = x] EXCEPT !.outgoing = y] = Replaying(x, y, reach, last)
    <3> DEFINE s == Replaying(x, q, reach, last)
    <3> HIDE DEF x, y
    <3>1. [r EXCEPT !.incoming = x] = s
      BY DEF Replaying
    <3>2. [s EXCEPT !.outgoing = y] = Replaying(x, y, reach, last)
      BY DEF Replaying
    <3> QED
      BY <3>1, <3>2
  <2> QED
    BY <1>5, <2>1, <2>2 DEF Nakis, ReplayedAs
<1> QED
  BY <1>1, <1>2, <1>3, <1>4, <1>5 DEF Actions, ActionTypes, ReplayedAs

LEMMA ReplayedType ==
  ASSUME NEW p \in Seq(ReplayItems), NEW q \in Seq(ReplayItems), NEW reach \in Flags,
         NEW last \in Tiles \cup {Other, Nobody}, NEW e \in Actions
  PROVE  ReplayOne(Replaying(p, q, reach, last), e) \in Replays
<1> DEFINE r == Replaying(p, q, reach, last)
           item == Item(e.type, (e.target - e.actor) % 4, e.pai)
           drawn == Item("tile", 0, e.pai)
           zero == Item("zero", 0, Other)
           down == Discarded(r, e.pai)
           v == e.pai
           one == ReplayOne(r, e)
<1>1. /\ e.type = "tsumo" => one = Replaying(Append(p, drawn), q, reach, v)
      /\ e.type = "dahai" => one = Replaying(p, Append(q, down), Off, Nobody)
      /\ e.type = "reach" => one = Replaying(p, q, On, last)
      /\ e.type \in {"ankan", "kakan"} => one = Replaying(p, Append(q, item), reach, last)
      /\ e.type \in Nakis =>
           one = Replaying(Append(p, item),
                           IF e.type = "daiminkan" THEN Append(q, zero) ELSE q, reach, last)
  <2>1. ReplayedAs(one, p, q, reach, last, e)
    BY ReplayedOne
  <2> QED
    BY <2>1 DEF ReplayedAs
<1>2. /\ e.type \in ActionTypes /\ e.actor \in Seats /\ e.target \in Seats
      /\ v \in Tiles \cup {Other}
  BY DEF Actions, RoundEvents
<1>3. (e.target - e.actor) % 4 \in Seats
  BY <1>2 DEF Seats
<1>4. drawn \in ReplayItems /\ zero \in ReplayItems
  BY <1>2 DEF Item, ReplayItems, Seats
<1>5. down \in ReplayItems
  BY <1>2 DEF Discarded, Item, ReplayItems, Seats
<1>6. e.type \in {"ankan", "kakan"} \cup Nakis => item \in ReplayItems
  BY <1>2, <1>3 DEF Item, ReplayItems
<1>7. \A s, t \in Seq(ReplayItems), b \in Flags, d \in Tiles \cup {Other, Nobody} :
        Replaying(s, t, b, d) \in Replays
  BY DEF Replays, Replaying
<1>8. \A s \in Seq(ReplayItems), x \in ReplayItems : Append(s, x) \in Seq(ReplayItems)
  BY AppendProperties
<1>9. Off \in Flags /\ On \in Flags /\ v \in Tiles \cup {Other, Nobody}
  BY <1>2 DEF Flags
<1> SUFFICES one \in Replays
  OBVIOUS
<1> HIDE DEF item, drawn, zero, down, v, one
<1>10. CASE e.type = "tsumo"
  <2> DEFINE x == Append(p, drawn)
  <2>1. x \in Seq(ReplayItems)
    BY <1>4, <1>8
  <2>2. one = Replaying(x, q, reach, v)
    BY <1>1, <1>10
  <2> HIDE DEF x
  <2> QED
    BY <1>7, <1>9, <2>1, <2>2
<1>11. CASE e.type = "dahai"
  BY <1>1, <1>5, <1>7, <1>8, <1>9, <1>11
<1>12. CASE e.type = "reach"
  BY <1>1, <1>7, <1>9, <1>12
<1>13. CASE e.type \in {"ankan", "kakan"}
  <2>1. Append(q, item) \in Seq(ReplayItems)
    BY <1>6, <1>8, <1>13
  <2> QED
    BY <1>1, <1>7, <1>13, <2>1
<1>14. CASE e.type \in Nakis
  <2> DEFINE x == Append(p, item)
             y == IF e.type = "daiminkan" THEN Append(q, zero) ELSE q
  <2>1. x \in Seq(ReplayItems)
    BY <1>6, <1>8, <1>14
  <2>2. y \in Seq(ReplayItems)
    BY <1>4, <1>8
  <2>3. one = Replaying(x, y, reach, last)
    BY <1>1, <1>14
  <2> HIDE DEF x, y
  <2> QED
    BY <1>7, <2>1, <2>2, <2>3
<1> QED
  BY <1>2, <1>10, <1>11, <1>12, <1>13, <1>14 DEF ActionTypes

LEMMA ReplayType ==
  ASSUME NEW r \in Replays, NEW e \in Actions
  PROVE  ReplayOne(r, e) \in Replays
<1> DEFINE p == r.incoming
           q == r.outgoing
           reach == r.reach
           last == r.lastDraw
<1>1. /\ r = Replaying(p, q, reach, last) /\ p \in Seq(ReplayItems) /\ q \in Seq(ReplayItems)
      /\ reach \in Flags /\ last \in Tiles \cup {Other, Nobody}
  BY DEF Replays, Replaying
<1> HIDE DEF p, q, reach, last
<1>2. ReplayOne(Replaying(p, q, reach, last), e) \in Replays
  BY <1>1, ReplayedType
<1> QED
  BY <1>1, <1>2

\* The loop is the recursion it is written as.
Nothing == Replaying(<< >>, << >>, Off, Nobody)
Plays(f, s) ==
  /\ f[0] = Nothing /\ Replay(s) = f[Len(s)]
  /\ \A n \in 1..Len(s) : f[n] = ReplayOne(f[n - 1], s[n])

LEMMA ReplayRecursion ==
  ASSUME NEW s \in Seq(Actions)
  PROVE  \E f : Plays(f, s) /\ \A n \in 0..Len(s) : f[n] \in Replays
<1> DEFINE N == Len(s)
           step == [p \in (1..N) \X Replays |-> ReplayOne(p[2], s[p[1]])]
           Is(f) == f = [n \in 0..N |-> IF n = 0 THEN Nothing ELSE ReplayOne(f[n - 1], s[n])]
<1>1. N \in Nat /\ \A n \in 1..N : s[n] \in Actions
  BY LenProperties, ElementOfSeq
<1>0. Nothing \in Replays
  BY EmptySeq DEF Nothing, Replaying, Replays, Flags
<1>2. step \in [(1..N) \X Replays -> Replays]
  <2>1. ASSUME NEW n \in 1..N, NEW d \in Replays PROVE ReplayOne(d, s[n]) \in Replays
    BY <1>1, ReplayType
  <2> HIDE DEF N
  <2> QED
    BY <2>1
<1>3. PICK f \in [0..N -> Replays] : Repeats(f, Nothing, step, N)
  <2> HIDE DEF N, step
  <2> QED
    BY <1>0, <1>1, <1>2, Repeat
<1>4. ASSUME NEW n \in 1..N PROVE f[n] = ReplayOne(f[n - 1], s[n])
  <2>1. n - 1 \in 0..N /\ f[n - 1] \in Replays
    BY <1>1
  <2>2. <<n, f[n - 1]>> \in (1..N) \X Replays
    BY <2>1
  <2>3. step[<<n, f[n - 1]>>] = ReplayOne(f[n - 1], s[n])
    <3> HIDE DEF N
    <3> QED
      BY <2>2
  <2>4. f[n] = step[<<n, f[n - 1]>>]
    <3> HIDE DEF step
    <3> QED
      BY <1>3 DEF Repeats
  <2> QED
    BY <2>3, <2>4
<1>5. f[0] = Nothing
  BY <1>3 DEF Repeats
<1>6. Is(f)
  <2>1. \A n \in 0..N : n # 0 => n \in 1..N
    BY <1>1
  <2>2. \A n \in 0..N : f[n] = IF n = 0 THEN Nothing ELSE ReplayOne(f[n - 1], s[n])
    BY <1>4, <1>5, <2>1
  <2> HIDE DEF N
  <2> QED
    BY <2>2
<1> DEFINE h == CHOOSE g : Is(g)
<1>7. Is(h)
  <2> HIDE DEF Is
  <2> QED
    BY <1>6
<1>8. Replay(s) = h[N]
  BY DEF Replay, Nothing, Replaying, Off
<1> HIDE DEF h
<1>9. h[0] = Nothing /\ \A n \in 1..N : h[n] = ReplayOne(h[n - 1], s[n])
  <2>1. 0 \in 0..N /\ \A n \in 1..N : n \in 0..N /\ n # 0
    BY <1>1
  <2> HIDE DEF N
  <2> QED
    BY <1>7, <2>1
<1>10. \A n \in 0..N : h[n] = f[n]
  <2> DEFINE same == {n \in 0..N : h[n] = f[n]}
  <2>1. 0 \in same
    BY <1>1, <1>5, <1>9
  <2>2. ASSUME NEW n \in 1..N, n - 1 \in same PROVE n \in same
    BY <1>4, <1>9, <2>2
  <2>3. 0..N \subseteq same
    <3> HIDE DEF same
    <3> QED
      BY <1>1, <2>1, <2>2, UpTo
  <2> QED
    BY <2>3
<1>11. \A n \in 0..N : h[n] \in Replays
  BY <1>10
<1>12. Plays(h, s)
  BY <1>8, <1>9 DEF Plays
<1> QED
  BY <1>11, <1>12

LEMMA ReplayAppend ==
  ASSUME NEW s \in Seq(Actions), NEW e \in Actions
  PROVE  Replay(Append(s, e)) = ReplayOne(Replay(s), e) /\ Replay(s) \in Replays
<1> DEFINE t == Append(s, e)
           N == Len(s)
<1>1. /\ t \in Seq(Actions) /\ Len(t) = N + 1 /\ N \in Nat /\ t[N + 1] = e
      /\ \A i \in 1..N : t[i] = s[i]
  BY Appended
<1>2. PICK f : Plays(f, s) /\ \A n \in 0..N : f[n] \in Replays
  BY ReplayRecursion
<1>3. PICK g : Plays(g, t)
  <2> HIDE DEF t
  <2> QED
    BY <1>1, ReplayRecursion
<1>4. /\ f[0] = Nothing /\ Replay(s) = f[N]
      /\ \A n \in 1..N : f[n] = ReplayOne(f[n - 1], s[n])
  BY <1>2 DEF Plays
<1>5. /\ g[0] = Nothing /\ Replay(t) = g[N + 1]
      /\ \A n \in 1..(N + 1) : g[n] = ReplayOne(g[n - 1], t[n])
  <2> HIDE DEF t, N
  <2> QED
    BY <1>1, <1>3 DEF Plays
<1> HIDE DEF t, N
<1>6. \A n \in 0..N : f[n] = g[n]
  <2> DEFINE same == {n \in 0..N : f[n] = g[n]}
  <2>1. 0 \in same
    BY <1>1, <1>4, <1>5
  <2>2. ASSUME NEW n \in 1..N, n - 1 \in same PROVE n \in same
    <3>1. f[n - 1] = g[n - 1] /\ s[n] = t[n] /\ n \in 1..(N + 1) /\ n \in 0..N
      BY <1>1, <2>2
    <3>2. f[n] = g[n]
      BY <1>4, <1>5, <3>1
    <3> QED
      BY <3>1, <3>2
  <2>3. 0..N \subseteq same
    <3> HIDE DEF same
    <3> QED
      BY <1>1, <2>1, <2>2, UpTo
  <2> QED
    BY <2>3
<1>7. N \in 0..N /\ N + 1 \in 1..(N + 1) /\ (N + 1) - 1 = N
  BY <1>1
<1>8. g[N + 1] = ReplayOne(f[N], e)
  BY <1>1, <1>5, <1>6, <1>7
<1> QED
  BY <1>2, <1>4, <1>5, <1>7, <1>8 DEF t

LEMMA ReplayEmpty == Replay(<< >>) = Nothing
<1>1. << >> \in Seq(Actions) /\ Len(<< >>) = 0
  BY EmptySeq
<1>2. PICK f : Plays(f, << >>)
  BY <1>1, ReplayRecursion
<1> QED
  BY <1>1, <1>2 DEF Plays

-----------------------------------------------------------------------------
(***************************************************************************)
(* The actions of a seat, and what replay_actions makes of those that were *)
(* played so far: the lists of that seat.                                  *)
(***************************************************************************)

ActsOf(a) == {e \in Actions : e.actor = a}

\* The acceptance of a reach is no action of a seat.
LEMMA AcceptedNoAct ==
  ASSUME PlayedInv
  PROVE  Accepted \in Seq(RoundEvents) /\ \A a \in Seats : Kept(Accepted, ActsOf(a)) = << >>
<1> DEFINE r == Event("reach_accepted", table.accept, table.accept, Other)
<1>1. CASE table.accept = Nobody
  BY <1>1, EmptySeq, KeptEmpty DEF Accepted
<1>2. CASE table.accept # Nobody
  <2>1. table.accept \in Seats
    BY <1>2 DEF PlayedInv, LastFits
  <2>2. r \in RoundEvents /\ r.type = "reach_accepted"
    BY <2>1 DEF RoundEvents, Event
  <2> HIDE DEF r
  <2>3. \A a \in Seats : r \notin ActsOf(a)
    BY <2>2 DEF ActsOf, Actions, ActionTypes, Nakis
  <2>4. Accepted = <<r>>
    BY <1>2 DEF Accepted, r
  <2> QED
    BY <2>2, <2>3, <2>4, KeptShort, Pair
<1> QED
  BY <1>1, <1>2

\* What a seat does is added to its own actions and to nobody else's.
LEMMA ActedBy ==
  ASSUME PlayedInv, NEW b \in Seats, NEW more \in Seq(ActsOf(b)), Played(more)
  PROVE  \A a \in Seats :
           /\ Kept(played, ActsOf(a)) \in Seq(Actions)
           /\ Kept(played', ActsOf(a)) =
                IF a = b THEN Kept(played, ActsOf(a)) \o more ELSE Kept(played, ActsOf(a))
<1> SUFFICES ASSUME NEW a \in Seats
             PROVE  /\ Kept(played, ActsOf(a)) \in Seq(Actions)
                    /\ Kept(played', ActsOf(a)) =
                         IF a = b THEN Kept(played, ActsOf(a)) \o more ELSE Kept(played, ActsOf(a))
  OBVIOUS
<1> DEFINE S == ActsOf(a)
           T == RoundEvents
<1>1. played \in Seq(T) /\ Accepted \in Seq(T) /\ Kept(Accepted, S) = << >>
  BY AcceptedNoAct DEF PlayedInv, Chain
<1>2. more \in Seq(T)
  <2>1. ActsOf(b) \subseteq T
    BY DEF ActsOf, Actions
  <2> QED
    BY <2>1, SeqMonotonic
<1>3. Kept(played, S) \in Seq(T \cap S) /\ T \cap S \subseteq Actions
  <2>1. T \cap S \subseteq Actions
    BY DEF ActsOf
  <2> HIDE DEF S, T
  <2> QED
    BY <1>1, <2>1, KeptElements
<1>4. Kept(played, S) \in Seq(Actions)
  BY <1>3, SeqMonotonic
<1>5. played' = (played \o Accepted) \o more
  BY DEF Played
<1>6. Kept(played', S) = (Kept(played, S) \o << >>) \o Kept(more, S)
  <2> HIDE DEF S, T
  <2>1. played \o Accepted \in Seq(T)
    BY <1>1, ConcatProperties
  <2>2. Kept(played \o Accepted, S) = Kept(played, S) \o Kept(Accepted, S)
    <3> DEFINE p == played
               q == Accepted
    <3>1. p \in Seq(T) /\ q \in Seq(T)
      BY <1>1
    <3> HIDE DEF p, q
    <3>2. Kept(p \o q, S) = Kept(p, S) \o Kept(q, S)
      BY <3>1, KeptConcat
    <3> QED
      BY <3>2 DEF p, q
  <2> DEFINE s == played \o Accepted
  <2> HIDE DEF s
  <2>3. Kept(s \o more, S) = Kept(s, S) \o Kept(more, S)
    <3>1. s \in Seq(T)
      BY <2>1 DEF s
    <3> QED
      BY <1>2, <3>1, KeptConcat
  <2> QED
    BY <1>1, <1>5, <2>2, <2>3 DEF s
<1>7. Kept(played, S) \o << >> = Kept(played, S)
  <2> HIDE DEF S
  <2> QED
    BY <1>4, ConcatEmptySeq
<1>8. CASE a = b
  <2>1. Kept(more, S) = more
    BY <1>8, KeptAll
  <2> QED
    BY <1>4, <1>6, <1>7, <1>8, <2>1
<1>9. CASE a # b
  <2>1. \A x \in ActsOf(b) : x \notin S
    BY <1>9 DEF ActsOf
  <2>2. Kept(more, S) = << >>
    <3> HIDE DEF S
    <3> QED
      BY <2>1, KeptNone
  <2> QED
    BY <1>4, <1>6, <1>7, <1>9, <2>2
<1> QED
  BY <1>8, <1>9

\* The replay after up to three more actions.
LEMMA ReplayMore ==
  ASSUME NEW s \in Seq(Actions)
  PROVE  /\ Replay(s) \in Replays
         /\ \A x \in Actions : Replay(s \o <<x>>) = ReplayOne(Replay(s), x)
         /\ \A x, y \in Actions : Replay(s \o <<x, y>>) = ReplayOne(ReplayOne(Replay(s), x), y)
         /\ \A x, y, z \in Actions :
              Replay(s \o <<x, y, z>>) = ReplayOne(ReplayOne(ReplayOne(Replay(s), x), y), z)
<1>1. ASSUME NEW x \in Actions
      PROVE  Append(s, x) \in Seq(Actions) /\ Replay(Append(s, x)) = ReplayOne(Replay(s), x)
  BY Appended, ReplayAppend
<1>2. ASSUME NEW x \in Actions, NEW y \in Actions
      PROVE  /\ Append(Append(s, x), y) \in Seq(Actions)
             /\ Replay(Append(Append(s, x), y)) = ReplayOne(ReplayOne(Replay(s), x), y)
  <2> DEFINE t == Append(s, x)
  <2>1. t \in Seq(Actions) /\ Replay(t) = ReplayOne(Replay(s), x)
    BY <1>1
  <2> HIDE DEF t
  <2>2. Append(t, y) \in Seq(Actions) /\ Replay(Append(t, y)) = ReplayOne(Replay(t), y)
    BY <2>1, Appended, ReplayAppend
  <2> QED
    BY <2>1, <2>2 DEF t
<1>3. ASSUME NEW x \in Actions, NEW y \in Actions, NEW z \in Actions
      PROVE  Replay(Append(Append(Append(s, x), y), z)) =
               ReplayOne(ReplayOne(ReplayOne(Replay(s), x), y), z)
  <2> DEFINE t == Append(Append(s, x), y)
  <2>1. t \in Seq(Actions) /\ Replay(t) = ReplayOne(ReplayOne(Replay(s), x), y)
    BY <1>2
  <2> HIDE DEF t
  <2>2. Replay(Append(t, z)) = ReplayOne(Replay(t), z)
    BY <2>1, ReplayAppend
  <2> QED
    BY <2>1, <2>2 DEF t
<1>4. /\ \A x \in Actions : s \o <<x>> = Append(s, x)
      /\ \A x, y \in Actions : s \o <<x, y>> = Append(Append(s, x), y)
      /\ \A x, y, z \in Actions : s \o <<x, y, z>> = Append(Append(Append(s, x), y), z)
  BY Lengthened
<1>5. Replay(s) \in Replays
  <2>1. PICK f : Plays(f, s) /\ \A n \in 0..Len(s) : f[n] \in Replays
    BY ReplayRecursion
  <2>2. Len(s) \in 0..Len(s)
    BY LenProperties
  <2> QED
    BY <2>1, <2>2 DEF Plays
<1>6. \A x \in Actions : Replay(s \o <<x>>) = ReplayOne(Replay(s), x)
  BY <1>1, <1>4
<1>7. \A x, y \in Actions : Replay(s \o <<x, y>>) = ReplayOne(ReplayOne(Replay(s), x), y)
  BY <1>2, <1>4
<1>8. \A x, y, z \in Actions :
        Replay(s \o <<x, y, z>>) = ReplayOne(ReplayOne(ReplayOne(Replay(s), x), y), z)
  <2> SUFFICES ASSUME NEW x \in Actions, NEW y \in Actions, NEW z \in Actions
               PROVE  Replay(s \o <<x, y, z>>) = ReplayOne(ReplayOne(ReplayOne(Replay(s), x), y), z)
    OBVIOUS
  <2>1. s \o <<x, y, z>> = Append(Append(Append(s, x), y), z)
    BY <1>4
  <2>2. Replay(Append(Append(Append(s, x), y), z)) =
          ReplayOne(ReplayOne(ReplayOne(Replay(s), x), y), z)
    BY <1>3
  <2> DEFINE t == s \o <<x, y, z>>
             u == Append(Append(Append(s, x), y), z)
  <2> HIDE DEF t, u
  <2>3. Replay(t) = Replay(u)
    BY <2>1 DEF t, u
  <2> QED
    BY <2>2, <2>3 DEF t, u
<1> QED
  BY <1>5, <1>6, <1>7, <1>8

Idle(a, t) == a # t.seat \/ t.stage \in {"open", "hold"}
ReplayInv ==
  \A a \in Seats :
    LET r == Replay(Kept(played, ActsOf(a)))
    IN /\ r = Replaying(takes[a], discards[a], Off, r.lastDraw)
       /\ Idle(a, table) => r.lastDraw = Nobody

\* The turns of a seat in closed form.
LEMMA DrawReplayed ==
  ASSUME NEW L, NEW D, NEW w, NEW reach, NEW x \in Actions, x.type = "tsumo"
  PROVE  ReplayOne(Replaying(L, D, reach, w), x) =
           Replaying(Append(L, Item("tile", 0, x.pai)), D, reach, x.pai)
<1>1. ReplayedAs(ReplayOne(Replaying(L, D, reach, w), x), L, D, reach, w, x)
  BY ReplayedOne
<1> QED
  BY <1>1 DEF ReplayedAs

LEMMA DahaiReplayed ==
  ASSUME NEW L, NEW D, NEW w, NEW y \in Actions, y.type = "dahai"
  PROVE  /\ ReplayOne(Replaying(L, D, Off, w), y) =
              Replaying(L, Append(D, IF y.pai = w THEN Item("giri", 0, Other)
                                     ELSE Item("tile", 0, y.pai)), Off, Nobody)
         /\ ReplayOne(Replaying(L, D, On, w), y) =
              Replaying(L, Append(D, Item("reach", 0, IF y.pai = w THEN Other ELSE y.pai)),
                        Off, Nobody)
<1>1. ASSUME NEW reach
      PROVE  ReplayOne(Replaying(L, D, reach, w), y) =
               Replaying(L, Append(D, Discarded(Replaying(L, D, reach, w), y.pai)), Off, Nobody)
  <2>1. ReplayedAs(ReplayOne(Replaying(L, D, reach, w), y), L, D, reach, w, y)
    BY ReplayedOne
  <2> QED
    BY <2>1 DEF ReplayedAs
<1>2. Discarded(Replaying(L, D, Off, w), y.pai) =
        IF y.pai = w THEN Item("giri", 0, Other) ELSE Item("tile", 0, y.pai)
  BY DEF Discarded, Replaying, Off
<1>3. Discarded(Replaying(L, D, On, w), y.pai) = Item("reach", 0, IF y.pai = w THEN Other ELSE y.pai)
  BY DEF Discarded, Replaying, On
<1> QED
  BY <1>1, <1>2, <1>3

LEMMA ReachReplayed ==
  ASSUME NEW L, NEW D, NEW w, NEW reach, NEW y \in Actions, y.type = "reach"
  PROVE  ReplayOne(Replaying(L, D, reach, w), y) = Replaying(L, D, On, w)
<1>1. ReplayedAs(ReplayOne(Replaying(L, D, reach, w), y), L, D, reach, w, y)
  BY ReplayedOne
<1> QED
  BY <1>1 DEF ReplayedAs

LEMMA MeldReplayed ==
  ASSUME NEW L, NEW D, NEW w, NEW reach, NEW y \in Actions
  PROVE  LET item == Item(y.type, (y.target - y.actor) % 4, y.pai)
         IN /\ y.type \in {"ankan", "kakan"} =>
                 ReplayOne(Replaying(L, D, reach, w), y) = Replaying(L, Append(D, item), reach, w)
            /\ y.type \in Nakis =>
                 ReplayOne(Replaying(L, D, reach, w), y) =
                   Replaying(Append(L, item),
                             IF y.type = "daiminkan" THEN Append(D, Item("zero", 0, Other)) ELSE D,
                             reach, w)
<1>1. ReplayedAs(ReplayOne(Replaying(L, D, reach, w), y), L, D, reach, w, y)
  BY ReplayedOne
<1> QED
  BY <1>1 DEF ReplayedAs

\* One seat acts while the others are idle.
LEMMA Acting ==
  ASSUME RoundInv, PlayedInv, ReplayInv, NEW b \in Seats, NEW more \in Seq(ActsOf(b)), Played(more),
         NEW L, NEW D, NEW w,
         takes' = [takes EXCEPT ![b] = L], discards' = [discards EXCEPT ![b] = D],
         Replay(Kept(played, ActsOf(b)) \o more) = Replaying(L, D, Off, w),
         Idle(b, table') => w = Nobody,
         \A a \in Seats : a # b => Idle(a, table)
  PROVE  ReplayInv'
<1> SUFFICES ASSUME NEW a \in Seats
             PROVE  LET r == Replay(Kept(played', ActsOf(a)))
                    IN /\ r = Replaying(takes'[a], discards'[a], Off, r.lastDraw)
                       /\ Idle(a, table') => r.lastDraw = Nobody
  BY DEF ReplayInv
<1> DEFINE s == Kept(played, ActsOf(a))
           t == Kept(played', ActsOf(a))
<1>1. t = IF a = b THEN s \o more ELSE s
  BY ActedBy
<1>2. /\ Replay(s) = Replaying(takes[a], discards[a], Off, Replay(s).lastDraw)
      /\ Idle(a, table) => Replay(s).lastDraw = Nobody
  BY DEF ReplayInv
<1>3. DOMAIN takes = Seats /\ DOMAIN discards = Seats
  BY DEF RoundInv
<1>4. CASE a = b
  <2>1. takes'[a] = L /\ discards'[a] = D
    BY <1>3, <1>4
  <2>2. Replay(t) = Replaying(L, D, Off, w)
    BY <1>1, <1>4
  <2>3. Replay(t).lastDraw = w
    BY <2>2 DEF Replaying
  <2> HIDE DEF t
  <2>4. Replay(t) = Replaying(takes'[a], discards'[a], Off, Replay(t).lastDraw)
    BY <2>1, <2>2, <2>3
  <2> QED
    BY <1>4, <2>3, <2>4 DEF t
<1>5. CASE a # b
  <2>1. takes'[a] = takes[a] /\ discards'[a] = discards[a] /\ t = s /\ Idle(a, table)
    BY <1>1, <1>3, <1>5
  <2> HIDE DEF s, t
  <2> QED
    BY <1>2, <2>1 DEF t
<1> QED
  BY <1>4, <1>5

LEMMA ReplayInit == Init => ReplayInv
<1> SUFFICES ASSUME Init, NEW a \in Seats
             PROVE  LET r == Replay(Kept(played, ActsOf(a)))
                    IN /\ r = Replaying(takes[a], discards[a], Off, r.lastDraw)
                       /\ Idle(a, table) => r.lastDraw = Nobody
  BY DEF ReplayInv
<1>1. takes[a] = << >> /\ discards[a] = << >> /\ played = << >>
  BY DEF Init
<1>2. Replay(Kept(played, ActsOf(a))) = Nothing
  BY <1>1, KeptEmpty, ReplayEmpty
<1>3. Nothing.lastDraw = Nobody
  BY DEF Nothing, Replaying
<1> QED
  BY <1>1, <1>2, <1>3 DEF Nothing

\* What the seat does whose turn it is, or that calls.
LEMMA Acts ==
  ASSUME RoundInv, PlayedInv, NEW a \in Seats, NEW type \in ActionTypes, NEW b \in Seats,
         NEW p \in Tiles \cup {Other}, type = "ankan" => a = b
  PROVE  /\ Event(type, a, b, p) \in ActsOf(a) /\ Event(type, a, b, p) \in Actions
         /\ Event(type, a, b, p).type = type /\ Event(type, a, b, p).pai = p
         /\ Event(type, a, b, p).actor = a /\ Event(type, a, b, p).target = b
BY DEF Event, ActsOf, Actions, RoundEvents, ActionTypes

\* What replay_actions makes of what a seat has played.
LEMMA SeatReplayed ==
  ASSUME RoundInv, PlayedInv, ReplayInv, NEW a \in Seats, NEW b \in Seats,
         NEW more \in Seq(ActsOf(b)), Played(more)
  PROVE  LET s == Kept(played, ActsOf(a))
         IN /\ s \in Seq(Actions)
            /\ Replay(s) = Replaying(takes[a], discards[a], Off, Replay(s).lastDraw)
            /\ Idle(a, table) => Replay(s).lastDraw = Nobody
BY ActedBy DEF ReplayInv

LEMMA ReplayStep == RoundInv /\ PlayedInv /\ ReplayInv /\ Play => ReplayInv'
<1> SUFFICES ASSUME RoundInv, PlayedInv, ReplayInv, Play PROVE ReplayInv'
  OBVIOUS
<1>1. table \in Table /\ (table.stage = "open" => table.last \in Tiles) /\ table.seat \in Seats
  BY DEF RoundInv, Table
<1> DEFINE b == table.seat
           s == Kept(played, ActsOf(b))
           w == Replay(s).lastDraw
           L == takes[b]
           D == discards[b]
<1>2. \A a \in Seats : a # b => Idle(a, table)
  BY DEF Idle
<1>3. Replay(s) = Replaying(L, D, Off, w) /\ (Idle(b, table) => w = Nobody)
  BY <1>1 DEF ReplayInv
<1>4. ASSUME NEW t \in Tiles, NEW giri \in BOOLEAN, DrawAndDiscard(t, giri) PROVE ReplayInv'
  <2> DEFINE p == IF giri THEN t ELSE Other
             x == Event("tsumo", b, b, p)
             y == Event("dahai", b, b, t)
             K == Append(L, Item("tile", 0, p))
             d == IF giri THEN Item("giri", 0, Other) ELSE Item("tile", 0, t)
  <2>1. Played(<<x, y>>) /\ Took(b, Item("tile", 0, p)) /\ PutDown(b, <<d>>)
    BY <1>4 DEF DrawAndDiscard, Drew, Did
  <2>2. /\ p \in Tiles \cup {Other} /\ (t = p <=> giri)
        /\ d = IF t = p THEN Item("giri", 0, Other) ELSE Item("tile", 0, t)
    BY NoneIsTile
  <2> HIDE DEF p, d
  <2>3. /\ x \in ActsOf(b) /\ x \in Actions /\ x.type = "tsumo" /\ x.pai = p
        /\ y \in ActsOf(b) /\ y \in Actions /\ y.type = "dahai" /\ y.pai = t
    BY <1>1, <2>2, Acts DEF ActionTypes
  <2> HIDE DEF x, y
  <2>4. <<x, y>> \in Seq(ActsOf(b))
    BY <2>3, Pair
  <2>5. s \in Seq(Actions)
    BY <1>1, <2>1, <2>4, ActedBy
  <2> HIDE DEF s, w, L, D
  <2>6. Replay(s \o <<x, y>>) = ReplayOne(ReplayOne(Replaying(L, D, Off, w), x), y)
    BY <1>3, <2>3, <2>5, ReplayMore
  <2>7. ReplayOne(Replaying(L, D, Off, w), x) = Replaying(K, D, Off, p)
    BY <2>3, DrawReplayed
  <2>8. ReplayOne(Replaying(K, D, Off, p), y) = Replaying(K, Append(D, d), Off, Nobody)
    <3> HIDE DEF K
    <3> QED
      BY <2>2, <2>3, DahaiReplayed
  <2>9. takes' = [takes EXCEPT ![b] = K]
    BY <2>1 DEF Took, L
  <2>10. discards' = [discards EXCEPT ![b] = Append(D, d)]
    BY <1>1, <2>1, PutDownAs DEF D
  <2> DEFINE more == <<x, y>>
             E == Append(D, d)
             n == Nobody
  <2> HIDE DEF more, E, K, b
  <2>11. b \in Seats /\ more \in Seq(ActsOf(b)) /\ Played(more)
    BY <1>1, <2>1, <2>4 DEF more, b
  <2>12. Replay(s \o more) = Replaying(K, E, Off, n)
    BY <2>6, <2>7, <2>8 DEF more, E
  <2>13. takes' = [takes EXCEPT ![b] = K] /\ discards' = [discards EXCEPT ![b] = E]
    BY <2>9, <2>10 DEF E
  <2>14. Replay(Kept(played, ActsOf(b)) \o more) = Replaying(K, E, Off, n)
    BY <2>12 DEF s
  <2>15. Idle(b, table') => n = Nobody
    OBVIOUS
  <2> HIDE DEF n
  <2> QED
    BY <1>2, <2>11, <2>13, <2>14, <2>15, Acting
<1>5. ASSUME NEW t \in Tiles, NEW giri \in BOOLEAN, DrawAndReach(t, giri) PROVE ReplayInv'
  <2> DEFINE p == IF giri THEN t ELSE Other
             x == Event("tsumo", b, b, p)
             z == Event("reach", b, b, Other)
             y == Event("dahai", b, b, t)
             K == Append(L, Item("tile", 0, p))
             d == Item("reach", 0, IF giri THEN Other ELSE t)
  <2>1. Played(<<x, z, y>>) /\ Took(b, Item("tile", 0, p)) /\ PutDown(b, <<d>>)
    BY <1>5 DEF DrawAndReach, Drew, Did
  <2>2. /\ p \in Tiles \cup {Other} /\ (t = p <=> giri)
        /\ d = Item("reach", 0, IF t = p THEN Other ELSE t)
    BY NoneIsTile
  <2> HIDE DEF p, d
  <2>3. /\ x \in ActsOf(b) /\ x \in Actions /\ x.type = "tsumo" /\ x.pai = p
        /\ z \in ActsOf(b) /\ z \in Actions /\ z.type = "reach"
        /\ y \in ActsOf(b) /\ y \in Actions /\ y.type = "dahai" /\ y.pai = t
    BY <1>1, <2>2, Acts DEF ActionTypes
  <2> HIDE DEF x, y, z
  <2>4. <<x, z, y>> \in Seq(ActsOf(b))
    BY <2>3, Pair
  <2>5. s \in Seq(Actions)
    BY <1>1, <2>1, <2>4, ActedBy
  <2> HIDE DEF s, w, L, D
  <2>6. Replay(s \o <<x, z, y>>) =
          ReplayOne(ReplayOne(ReplayOne(Replaying(L, D, Off, w), x), z), y)
    BY <1>3, <2>3, <2>5, ReplayMore
  <2>7. ReplayOne(ReplayOne(Replaying(L, D, Off, w), x), z) = Replaying(K, D, On, p)
    <3>1. ReplayOne(Replaying(L, D, Off, w), x) = Replaying(K, D, Off, p)
      BY <2>3, DrawReplayed
    <3> HIDE DEF K
    <3> QED
      BY <2>3, <3>1, ReachReplayed
  <2>8. ReplayOne(Replaying(K, D, On, p), y) = Replaying(K, Append(D, d), Off, Nobody)
    <3> HIDE DEF K
    <3> QED
      BY <2>2, <2>3, DahaiReplayed
  <2>9. takes' = [takes EXCEPT ![b] = K]
    BY <2>1 DEF Took, L
  <2>10. discards' = [discards EXCEPT ![b] = Append(D, d)]
    BY <1>1, <2>1, PutDownAs DEF D
  <2> DEFINE more == <<x, z, y>>
             E == Append(D, d)
             n == Nobody
  <2> HIDE DEF more, E, K, b
  <2>11. b \in Seats /\ more \in Seq(ActsOf(b)) /\ Played(more)
    BY <1>1, <2>1, <2>4 DEF more, b
  <2>12. Replay(s \o more) = Replaying(K, E, Off, n)
    BY <2>6, <2>7, <2>8 DEF more, E, n
  <2>13. takes' = [takes EXCEPT ![b] = K] /\ discards' = [discards EXCEPT ![b] = E]
    BY <2>9, <2>10 DEF E
  <2>14. Replay(Kept(played, ActsOf(b)) \o more) = Replaying(K, E, Off, n)
    BY <2>12 DEF s
  <2>15. Idle(b, table') => n = Nobody
    BY DEF n
  <2> HIDE DEF n
  <2> QED
    BY <1>2, <2>11, <2>13, <2>14, <2>15, Acting
<1>6. ASSUME NEW t \in Tiles, DrawAndAnkan(t) \/ DrawAndKakan(t) PROVE ReplayInv'
  <2> DEFINE kind == IF DrawAndAnkan(t) THEN "ankan" ELSE "kakan"
             p == IF DrawAndAnkan(t) THEN Other ELSE t
             x == Event("tsumo", b, b, p)
             y == Event(kind, b, b, t)
             K == Append(L, Item("tile", 0, p))
             d == Item(kind, 0, t)
  <2>1. Played(<<x, y>>) /\ Took(b, Item("tile", 0, p)) /\ PutDown(b, <<d>>)
    BY <1>6 DEF DrawAndAnkan, DrawAndKakan, Drew, Did
  <2>2. /\ p \in Tiles \cup {Other} /\ kind \in {"ankan", "kakan"}
        /\ table'.stage \in {"draw", "kakan"} /\ table'.seat = b
    <3>1. p \in Tiles \cup {Other} /\ kind \in {"ankan", "kakan"}
      OBVIOUS
    <3> HIDE DEF p, kind
    <3> QED
      BY <1>1, <1>6, <3>1 DEF DrawAndAnkan, DrawAndKakan, Table
  <2> HIDE DEF p, kind
  <2>3. /\ x \in ActsOf(b) /\ x \in Actions /\ x.type = "tsumo" /\ x.pai = p
        /\ y \in ActsOf(b) /\ y \in Actions /\ y.type = kind
        /\ Item(y.type, (y.target - y.actor) % 4, y.pai) = d
    <3>1. (b - b) % 4 = 0
      BY <1>1 DEF Seats
    <3>2. kind \in ActionTypes /\ "tsumo" \in ActionTypes
      BY <2>2 DEF ActionTypes
    <3> HIDE DEF b
    <3>3. b \in Seats
      BY <1>1 DEF b
    <3>4. /\ x \in ActsOf(b) /\ x \in Actions /\ x.type = "tsumo" /\ x.pai = p
      BY <2>2, <3>2, <3>3, Acts
    <3>5. /\ y \in ActsOf(b) /\ y \in Actions /\ y.type = kind /\ y.pai = t
          /\ y.target = b /\ y.actor = b
      BY <3>2, <3>3, Acts
    <3> HIDE DEF x, y
    <3> QED
      BY <3>1, <3>4, <3>5
  <2> HIDE DEF x, y, d
  <2>4. <<x, y>> \in Seq(ActsOf(b))
    BY <2>3, Pair
  <2>5. s \in Seq(Actions)
    BY <1>1, <2>1, <2>4, ActedBy
  <2> HIDE DEF s, w, L, D
  <2>6. Replay(s \o <<x, y>>) = ReplayOne(ReplayOne(Replaying(L, D, Off, w), x), y)
    BY <1>3, <2>3, <2>5, ReplayMore
  <2>7. ReplayOne(Replaying(L, D, Off, w), x) = Replaying(K, D, Off, p)
    BY <2>3, DrawReplayed
  <2>8. ReplayOne(Replaying(K, D, Off, p), y) = Replaying(K, Append(D, d), Off, p)
    <3> HIDE DEF K
    <3> QED
      BY <2>2, <2>3, MeldReplayed
  <2>9. takes' = [takes EXCEPT ![b] = K]
    BY <2>1 DEF Took, L
  <2>10. discards' = [discards EXCEPT ![b] = Append(D, d)]
    BY <1>1, <2>1, PutDownAs DEF D
  <2> DEFINE more == <<x, y>>
             E == Append(D, d)
             n == p
  <2> HIDE DEF more, E, K, b
  <2>11. b \in Seats /\ more \in Seq(ActsOf(b)) /\ Played(more)
    BY <1>1, <2>1, <2>4 DEF more, b
  <2>12. Replay(s \o more) = Replaying(K, E, Off, n)
    BY <2>6, <2>7, <2>8 DEF more, E, n
  <2>13. takes' = [takes EXCEPT ![b] = K] /\ discards' = [discards EXCEPT ![b] = E]
    BY <2>9, <2>10 DEF E
  <2>14. Replay(Kept(played, ActsOf(b)) \o more) = Replaying(K, E, Off, n)
    BY <2>12 DEF s
  <2>15. Idle(b, table') => n = Nobody
    BY <2>2 DEF Idle
  <2> HIDE DEF n
  <2> QED
    BY <1>2, <2>11, <2>13, <2>14, <2>15, Acting
<1>7. ASSUME NEW a \in Seats, NEW kind \in {"chi", "pon", "daiminkan"}, Call(a, kind) PROVE ReplayInv'
  <2> DEFINE u == Kept(played, ActsOf(a))
             v == Replay(u).lastDraw
             M == takes[a]
             G == discards[a]
             y == Event(kind, a, table.seat, table.last)
             d == Item(kind, (table.seat - a) % 4, table.last)
             K == Append(M, d)
             zero == Item("zero", 0, Other)
             E == IF kind = "daiminkan" THEN Append(G, zero) ELSE G
  <2>1. /\ Played(<<y>>) /\ Took(a, d) /\ table.stage = "open"
        /\ PutDown(a, IF kind = "daiminkan" THEN <<zero>> ELSE << >>)
    BY <1>7 DEF Call
  <2>2. Replay(u) = Replaying(M, G, Off, v) /\ v = Nobody
    BY <2>1 DEF ReplayInv, Idle
  <2>3. /\ y \in ActsOf(a) /\ y \in Actions /\ y.type = kind /\ kind \in Nakis
        /\ Item(y.type, (y.target - y.actor) % 4, y.pai) = d
    <3>1. kind \in ActionTypes /\ kind \in Nakis /\ kind # "ankan"
      BY DEF ActionTypes, Nakis
    <3>2. table.last \in Tiles \cup {Other}
      BY <1>1, <2>1
    <3>3. /\ y \in ActsOf(a) /\ y \in Actions /\ y.type = kind /\ y.pai = table.last
          /\ y.target = table.seat /\ y.actor = a
      BY <1>1, <3>1, <3>2, Acts
    <3> HIDE DEF y
    <3> QED
      BY <3>1, <3>3
  <2> HIDE DEF y, d
  <2>4. <<y>> \in Seq(ActsOf(a))
    BY <2>3, Pair
  <2>5. u \in Seq(Actions)
    BY <2>1, <2>4, ActedBy
  <2>9. takes' = [takes EXCEPT ![a] = K]
    BY <2>1 DEF Took
  <2>10. discards' = [discards EXCEPT ![a] = E]
    <3>1. CASE kind = "daiminkan"
      BY <2>1, <3>1, PutDownAs
    <3>2. CASE kind # "daiminkan"
      <4>1. G \in Seq(DiscardItems)
        BY DEF RoundInv
      <4>2. G \o << >> = G
        BY <4>1, ConcatEmptySeq
      <4> QED
        BY <2>1, <3>2, <4>2 DEF PutDown
    <3> QED
      BY <3>1, <3>2
  <2> HIDE DEF u, v, M, G
  <2>6. Replay(u \o <<y>>) = ReplayOne(Replaying(M, G, Off, v), y)
    BY <2>2, <2>3, <2>5, ReplayMore
  <2>7. ReplayOne(Replaying(M, G, Off, v), y) = Replaying(K, E, Off, v)
    <3>1. y.type = "daiminkan" <=> kind = "daiminkan"
      BY <2>3
    <3>2. ReplayOne(Replaying(M, G, Off, v), y) =
            Replaying(Append(M, Item(y.type, (y.target - y.actor) % 4, y.pai)),
                      IF y.type = "daiminkan" THEN Append(G, zero) ELSE G, Off, v)
      BY <2>3, MeldReplayed
    <3> QED
      BY <2>3, <3>1, <3>2
  <2> DEFINE more == <<y>>
  <2> HIDE DEF more, E, K
  <2>11. more \in Seq(ActsOf(a)) /\ Played(more)
    BY <2>1, <2>4 DEF more
  <2>12. Replay(Kept(played, ActsOf(a)) \o more) = Replaying(K, E, Off, v)
    BY <2>6, <2>7 DEF more, u
  <2>13. \A c \in Seats : c # a => Idle(c, table)
    BY <2>1 DEF Idle
  <2>14. Idle(a, table') => v = Nobody
    BY <2>2
  <2> QED
    BY <2>9, <2>10, <2>11, <2>12, <2>13, <2>14, Acting
<1>8. ASSUME NEW t \in Tiles, Discard(t) PROVE ReplayInv'
  <2> DEFINE y == Event("dahai", b, b, t)
             K == L
             d == Item("tile", 0, t)
  <2>1. Played(<<y>>) /\ PutDown(b, <<d>>) /\ table.stage = "hold" /\ takes' = takes
    BY <1>8 DEF Discard, Did
  <2>2. w = Nobody /\ t # w
    BY <1>3, <2>1, NoneIsTile DEF Idle
  <2>3. y \in ActsOf(b) /\ y \in Actions /\ y.type = "dahai" /\ y.pai = t
    BY <1>1, Acts DEF ActionTypes
  <2> HIDE DEF y
  <2>4. <<y>> \in Seq(ActsOf(b))
    BY <2>3, Pair
  <2>5. s \in Seq(Actions)
    BY <1>1, <2>1, <2>4, ActedBy
  <2>9. takes' = [takes EXCEPT ![b] = K]
    BY <1>1, <2>1 DEF RoundInv
  <2>10. discards' = [discards EXCEPT ![b] = Append(D, d)]
    BY <1>1, <2>1, PutDownAs
  <2> HIDE DEF s, w, L, D
  <2>6. Replay(s \o <<y>>) = ReplayOne(Replaying(L, D, Off, w), y)
    BY <1>3, <2>3, <2>5, ReplayMore
  <2>7. ReplayOne(Replaying(L, D, Off, w), y) = Replaying(K, Append(D, d), Off, Nobody)
    BY <2>2, <2>3, DahaiReplayed
  <2> DEFINE more == <<y>>
             E == Append(D, d)
             n == Nobody
  <2> HIDE DEF more, E, K, b
  <2>11. b \in Seats /\ more \in Seq(ActsOf(b)) /\ Played(more)
    BY <1>1, <2>1, <2>4 DEF more, b
  <2>12. Replay(s \o more) = Replaying(K, E, Off, n)
    BY <2>6, <2>7 DEF more, E, n
  <2>13. takes' = [takes EXCEPT ![b] = K] /\ discards' = [discards EXCEPT ![b] = E]
    BY <2>9, <2>10 DEF E
  <2>14. Replay(Kept(played, ActsOf(b)) \o more) = Replaying(K, E, Off, n)
    BY <2>12 DEF s
  <2>15. Idle(b, table') => n = Nobody
    BY DEF n
  <2> HIDE DEF n
  <2> QED
    BY <1>2, <2>11, <2>13, <2>14, <2>15, Acting
<1>9. CASE EndOnDraw
  <2> DEFINE x == Event("tsumo", b, b, Other)
             K == Append(L, Item("tile", 0, Other))
  <2>1. Played(<<x>>) /\ Took(b, Item("tile", 0, Other)) /\ discards' = discards
    BY <1>9 DEF EndOnDraw, Drew
  <2>2. table'.stage = "over" /\ table'.seat = b
    BY <1>1, <1>9 DEF EndOnDraw, Table
  <2>3. x \in ActsOf(b) /\ x \in Actions /\ x.type = "tsumo" /\ x.pai = Other
    BY <1>1, Acts DEF ActionTypes
  <2> HIDE DEF x
  <2>4. <<x>> \in Seq(ActsOf(b))
    BY <2>3, Pair
  <2>5. s \in Seq(Actions)
    BY <1>1, <2>1, <2>4, ActedBy
  <2>9. takes' = [takes EXCEPT ![b] = K]
    BY <2>1 DEF Took
  <2>10. discards' = [discards EXCEPT ![b] = D]
    BY <1>1, <2>1 DEF RoundInv
  <2> HIDE DEF s, w, L, D
  <2>6. Replay(s \o <<x>>) = ReplayOne(Replaying(L, D, Off, w), x)
    BY <1>3, <2>3, <2>5, ReplayMore
  <2>7. ReplayOne(Replaying(L, D, Off, w), x) = Replaying(K, D, Off, Other)
    BY <2>3, DrawReplayed
  <2> DEFINE more == <<x>>
             E == D
             n == Other
  <2> HIDE DEF more, E, K, b
  <2>11. b \in Seats /\ more \in Seq(ActsOf(b)) /\ Played(more)
    BY <1>1, <2>1, <2>4 DEF more, b
  <2>12. Replay(s \o more) = Replaying(K, E, Off, n)
    BY <2>6, <2>7 DEF more, E, n
  <2>13. takes' = [takes EXCEPT ![b] = K] /\ discards' = [discards EXCEPT ![b] = E]
    BY <2>9, <2>10 DEF E
  <2>14. Replay(Kept(played, ActsOf(b)) \o more) = Replaying(K, E, Off, n)
    BY <2>12 DEF s
  <2>15. Idle(b, table') => n = Nobody
    BY <2>2 DEF Idle
  <2> HIDE DEF n
  <2> QED
    BY <1>2, <2>11, <2>13, <2>14, <2>15, Acting
<1>10. ASSUME Pass \/ EndOnDiscard PROVE ReplayInv'
  <2>1. /\ takes' = takes /\ discards' = discards /\ played' = played
        /\ table.stage \in {"open", "kakan"} /\ table'.stage \in {"draw", "over"}
        /\ table.stage = "kakan" => table'.seat = b
    BY <1>1, <1>10 DEF Pass, EndOnDiscard, Table
  <2>2. \A a \in Seats : Idle(a, table') => Idle(a, table)
    BY <2>1 DEF Idle
  <2> QED
    BY <2>1, <2>2 DEF ReplayInv
<1> QED
  BY <1>4, <1>5, <1>6, <1>7, <1>8, <1>9, <1>10 DEF Play

-----------------------------------------------------------------------------
(***************************************************************************)
(* An mjlog is cut at its INIT tags.                                       *)
(***************************************************************************)

\* The places of a list whose elements are in S.
Places(s, S) == Kept([i \in DOMAIN s |-> i], {i \in DOMAIN s : s[i] \in S})

LEMMA PlacesAppend ==
  ASSUME NEW T, NEW s \in Seq(T), NEW x \in T, NEW S
  PROVE  Places(Append(s, x), S) = IF x \in S THEN Append(Places(s, S), Len(s) + 1) ELSE Places(s, S)
<1> DEFINE N == Len(s)
           t == Append(s, x)
           p == [i \in 1..N |-> i]
           I == {i \in 1..N : s[i] \in S}
           q == [i \in 1..(N + 1) |-> i]
           J == {i \in 1..(N + 1) : t[i] \in S}
<1>1. /\ N \in Nat /\ DOMAIN s = 1..N /\ Len(t) = N + 1 /\ DOMAIN t = 1..(N + 1)
      /\ t[N + 1] = x /\ \A i \in 1..N : t[i] = s[i]
  <2>1. /\ t \in Seq(T) /\ Len(t) = N + 1 /\ N \in Nat /\ t[N + 1] = x
        /\ \A i \in 1..N : t[i] = s[i]
    BY Appended
  <2>2. DOMAIN s = 1..N /\ DOMAIN t = 1..Len(t)
    <3> HIDE DEF t
    <3> QED
      BY <2>1, LenProperties
  <2> HIDE DEF t, N
  <2> QED
    BY <2>1, <2>2
<1>2. Places(s, S) = Kept(p, I) /\ Places(t, S) = Kept(q, J)
  <2> HIDE DEF t, N
  <2> QED
    BY <1>1 DEF Places
<1> HIDE DEF t, N
<1>3. p \in Seq(1..N) /\ Len(p) = N /\ \A i \in 1..N : p[i] = i
  BY <1>1
<1>4. q = Append(p, N + 1)
  <2>1. q \in Seq(Nat) /\ Len(q) = N + 1 /\ \A i \in 1..(N + 1) : q[i] = i
    BY <1>1
  <2>2. p \in Seq(Nat) /\ N + 1 \in Nat
    BY <1>1, <1>3, SeqMonotonic
  <2> HIDE DEF p, q
  <2>3. /\ Append(p, N + 1) \in Seq(Nat) /\ Len(Append(p, N + 1)) = N + 1
        /\ Append(p, N + 1)[N + 1] = N + 1
        /\ \A i \in 1..N : Append(p, N + 1)[i] = p[i]
    BY <1>3, <2>2, Appended
  <2>4. \A i \in 1..(N + 1) : q[i] = Append(p, N + 1)[i]
    <3> SUFFICES ASSUME NEW i \in 1..(N + 1) PROVE q[i] = Append(p, N + 1)[i]
      OBVIOUS
    <3>1. i \in 1..N \/ i = N + 1
      BY <1>1
    <3>2. Append(p, N + 1)[i] = i
      BY <1>3, <2>3, <3>1
    <3> QED
      BY <2>1, <3>2
  <2> DEFINE u == Append(p, N + 1)
  <2> HIDE DEF u
  <2>5. u \in Seq(Nat) /\ Len(u) = Len(q) /\ \A i \in 1..Len(q) : q[i] = u[i]
    BY <2>1, <2>3, <2>4 DEF u
  <2>6. q = u
    BY <2>1, <2>5, SeqEqual
  <2> QED
    BY <2>6 DEF u
<1>5. Kept(q, J) = IF N + 1 \in J THEN Append(Kept(p, J), N + 1) ELSE Kept(p, J)
  <2>1. p \in Seq(Nat) /\ N + 1 \in Nat
    BY <1>1, <1>3, SeqMonotonic
  <2> DEFINE n == N + 1
  <2> HIDE DEF p, q, J, n
  <2>2. p \in Seq(Nat) /\ n \in Nat
    BY <2>1 DEF n
  <2>3. Kept(Append(p, n), J) = IF n \in J THEN Append(Kept(p, J), n) ELSE Kept(p, J)
    BY <2>2, KeptAppend
  <2> QED
    BY <1>4, <2>3 DEF n
<1>6. Kept(p, J) = Kept(p, I)
  <2>1. \A i \in 1..N : i \in J <=> i \in I
    BY <1>1
  <2> HIDE DEF p, I, J
  <2> QED
    BY <1>3, <2>1, KeptSame
<1>7. N + 1 \in J <=> x \in S
  BY <1>1
<1> HIDE DEF p, q, I, J
<1> QED
  BY <1>2, <1>5, <1>6, <1>7 DEF t, N

LEMMA PlacesEmpty == \A S : Places(<< >>, S) = << >>
<1>1. [i \in DOMAIN << >> |-> i] = << >>
  OBVIOUS
<1> QED
  BY <1>1, KeptEmpty DEF Places

\* What is behind the list has no place if none of it is in S.
LEMMA PlacesBehind ==
  ASSUME NEW T, NEW s \in Seq(T), NEW U, U \subseteq T, NEW S, \A x \in U : x \notin S
  PROVE  \A t \in Seq(U) : Places(s \o t, S) = Places(s, S)
<1> DEFINE P == {t \in Seq(U) : Places(s \o t, S) = Places(s, S)}
<1>1. << >> \in P
  BY EmptySeq, ConcatEmptySeq
<1>2. ASSUME NEW t \in P, NEW x \in U PROVE Append(t, x) \in P
  <2>1. t \in Seq(U) /\ Append(t, x) \in Seq(U) /\ t \in Seq(T) /\ x \in T
    BY Appended, SeqMonotonic
  <2>2. s \o Append(t, x) = Append(s \o t, x) /\ s \o t \in Seq(T)
    BY <2>1, AppendBehind
  <2> DEFINE u == s \o t
  <2>3. Places(u, S) = Places(s, S)
    BY <1>2
  <2> HIDE DEF u, P
  <2>4. Places(Append(u, x), S) = Places(u, S)
    BY <2>1, <2>2, PlacesAppend DEF u
  <2> QED
    BY <2>1, <2>2, <2>3, <2>4 DEF u, P
<1>3. Seq(U) \subseteq P
  <2> HIDE DEF P
  <2>1. P \in SUBSET Seq(U)
    BY DEF P
  <2> QED
    BY <1>1, <1>2, <2>1, ListInduction
<1> QED
  BY <1>3

\* The middle and the end of a list of three.
LEMMA CutOut ==
  ASSUME NEW T, NEW s \in Seq(T), NEW t \in Seq(T), NEW u \in Seq(T)
  PROVE  LET w == (s \o t) \o u
         IN /\ w \in Seq(T) /\ Len(w) = Len(s) + Len(t) + Len(u)
            /\ SubSeq(w, Len(s) + 1, Len(s) + Len(t)) = t
            /\ SubSeq(w, Len(s) + Len(t) + 1, Len(s) + Len(t) + Len(u)) = u
<1> DEFINE v == s \o t
           w == v \o u
           a == Len(s)
           b == Len(t)
           c == Len(u)
<1>1. /\ v \in Seq(T) /\ Len(v) = a + b
      /\ \A i \in 1..(a + b) : v[i] = IF i <= a THEN s[i] ELSE t[i - a]
  BY ConcatProperties
<1>2. a \in Nat /\ b \in Nat /\ c \in Nat
  BY LenProperties
<1>3. /\ w \in Seq(T) /\ Len(w) = (a + b) + c
      /\ \A i \in 1..((a + b) + c) : w[i] = IF i <= a + b THEN v[i] ELSE u[i - (a + b)]
  <2>1. v \in Seq(T) /\ Len(v) = a + b
    BY <1>1
  <2> HIDE DEF v, a, b, c
  <2>3. v \in Seq(T) /\ u \in Seq(T)
    BY <2>1
  <2>2. /\ v \o u \in Seq(T) /\ Len(v \o u) = Len(v) + Len(u)
        /\ \A i \in 1..(Len(v) + Len(u)) :
             (v \o u)[i] = IF i <= Len(v) THEN v[i] ELSE u[i - Len(v)]
    BY <2>3, ConcatProperties
  <2> QED
    BY <2>1, <2>2 DEF c
<1> HIDE DEF v, w
<1>4. \A i \in 1..((a + b) + c) : w[i] \in T
  BY <1>3, ElementOfSeq
<1>5. SubSeq(w, a + 1, a + b) = t
  <2> DEFINE x == SubSeq(w, a + 1, a + b)
  <2>1. /\ x \in Seq(T) /\ Len(x) = (IF a + 1 <= a + b THEN (a + b) - (a + 1) + 1 ELSE 0)
        /\ \A i \in 1..((a + b) - (a + 1) + 1) : x[i] = w[(a + 1) + i - 1]
    <3>1. \A i \in (a + 1)..(a + b) : w[i] \in T
      BY <1>2, <1>4
    <3>2. a + 1 \in Int /\ a + b \in Int
      BY <1>2
    <3> HIDE DEF a, b
    <3> QED
      BY <3>1, <3>2, SubSeqProperties
  <2> HIDE DEF a, b, c, x
  <2>2. Len(x) = b
    BY <1>2, <2>1
  <2>3. ASSUME NEW i \in 1..b PROVE x[i] = t[i]
    <3>1. /\ i \in 1..((a + b) - (a + 1) + 1) /\ (a + 1) + i - 1 = a + i
          /\ a + i \in 1..((a + b) + c) /\ a + i <= a + b /\ a + i \in 1..(a + b)
          /\ ~(a + i <= a) /\ (a + i) - a = i
      BY <1>2
    <3> QED
      BY <1>1, <1>3, <2>1, <3>1
  <2>4. x = t
    BY <2>1, <2>2, <2>3, SeqEqual DEF b
  <2> QED
    BY <2>4 DEF x
<1>6. SubSeq(w, a + b + 1, a + b + c) = u
  <2> DEFINE d == a + b
             x == SubSeq(w, d + 1, d + c)
  <2>1. /\ x \in Seq(T) /\ Len(x) = (IF d + 1 <= d + c THEN (d + c) - (d + 1) + 1 ELSE 0)
        /\ \A i \in 1..((d + c) - (d + 1) + 1) : x[i] = w[(d + 1) + i - 1]
    <3>1. \A i \in (d + 1)..(d + c) : w[i] \in T
      BY <1>2, <1>4
    <3>2. d + 1 \in Int /\ d + c \in Int
      BY <1>2
    <3> HIDE DEF d, c
    <3> QED
      BY <3>1, <3>2, SubSeqProperties
  <2>5. d \in Nat
    BY <1>2
  <2>6. \A i \in 1..(d + c) : w[i] = IF i <= d THEN v[i] ELSE u[i - d]
    BY <1>3
  <2> HIDE DEF a, b, c, d, x
  <2>2. Len(x) = c
    BY <1>2, <2>1, <2>5
  <2>3. ASSUME NEW i \in 1..c PROVE x[i] = u[i]
    <3>1. /\ i \in 1..((d + c) - (d + 1) + 1) /\ (d + 1) + i - 1 = d + i
          /\ d + i \in 1..(d + c) /\ ~(d + i <= d) /\ (d + i) - d = i
      BY <1>2, <2>5
    <3> QED
      BY <2>1, <2>6, <3>1
  <2>4. x = u
    BY <2>1, <2>2, <2>3, SeqEqual DEF c
  <2> QED
    BY <2>4 DEF x, d
<1> QED
  BY <1>3, <1>5, <1>6 DEF v, w

-----------------------------------------------------------------------------
(***************************************************************************)
(* The tags of a round and what is found in them.                          *)
(***************************************************************************)

Agari == {Event("agari", a, b, Other) : a \in Seats, b \in Seats}
Tags == {Tag(type) : type \in {"go", "taikyoku", "init", "dora", "ryuukyoku"}} \cup Agari
MjlogEvents == RoundEvents \cup Tags
Doras == [i \in 1..(indicators - 1) |-> Tag("dora")]
EndTags(winners) == IF winners = {} THEN {Tag("ryuukyoku")} ELSE Agari

LEMMA TagTypes ==
  /\ \A type : Tag(type).type = type /\ Tag(type).actor = Nobody
  /\ \A x \in Agari : x.type = "agari"
  /\ \A x \in RoundEvents : x.type \in {"tsumo", "dahai", "reach", "reach_accepted", "ankan",
                                        "kakan", "chi", "pon", "daiminkan"}
  /\ Agari \subseteq MjlogEvents /\ RoundEvents \subseteq MjlogEvents
  /\ \A type \in {"go", "taikyoku", "init", "dora", "ryuukyoku"} : Tag(type) \in MjlogEvents
BY DEF Tag, Event, Agari, Tags, MjlogEvents, RoundEvents, Nakis

LEMMA EndsOK ==
  ASSUME RoundInv, NEW winners \in SUBSET Seats
  PROVE  /\ Ends(winners) \in Seq(EndTags(winners)) /\ Ends(winners) # << >>
         /\ winners = {} => Len(Ends(winners)) = 1
<1> DEFINE order == Kept(<<0, 1, 2, 3>>, winners)
<1>1. CASE winners = {}
  <2>1. Ends(winners) = <<Tag("ryuukyoku")>> /\ EndTags(winners) = {Tag("ryuukyoku")}
    BY <1>1 DEF Ends, EndTags
  <2> DEFINE x == Tag("ryuukyoku")
  <2> HIDE DEF x
  <2>2. <<x>> \in Seq({x}) /\ <<x>> # << >> /\ Len(<<x>>) = 1
    OBVIOUS
  <2> QED
    BY <2>1, <2>2 DEF x
<1>2. CASE winners # {}
  <2>1. order \in Seq(winners) /\ order # << >>
    BY <1>2, Order
  <2> HIDE DEF order
  <2>2. Len(order) \in Nat \ {0} /\ DOMAIN order = 1..Len(order)
        /\ \A i \in 1..Len(order) : order[i] \in Seats
    BY <2>1, EmptySeq, LenProperties, ElementOfSeq
  <2> DEFINE e == [i \in 1..Len(order) |-> Event("agari", order[i], table.seat, Other)]
  <2>3. Ends(winners) = e /\ EndTags(winners) = Agari
    BY <1>2, <2>2 DEF Ends, EndTags, order
  <2>4. table.seat \in Seats
    BY DEF RoundInv, Table
  <2>5. \A i \in 1..Len(order) : Event("agari", order[i], table.seat, Other) \in Agari
    BY <2>2, <2>4 DEF Agari
  <2>6. e \in Seq(Agari) /\ Len(e) = Len(order)
    <3> HIDE DEF Agari
    <3> QED
      BY <2>2, <2>5
  <2> HIDE DEF e
  <2>7. e # << >>
    BY <2>2, <2>6, EmptySeq
  <2> QED
    BY <1>2, <2>3, <2>6, <2>7
<1> QED
  BY <1>1, <1>2

\* The tags of a round are its INIT tag and what follows it.
Behind(winners) == (played \o Doras) \o Ends(winners)
NotInit == {x \in MjlogEvents : x.type # "init"}

LEMMA RoundTagsOK ==
  ASSUME RoundInv, PlayedInv, NEW winners \in SUBSET Seats
  PROVE  /\ RoundTags(winners) = <<Tag("init")>> \o Behind(winners)
         /\ Behind(winners) \in Seq(NotInit)
         /\ RoundTags(winners) \in Seq(MjlogEvents)
         /\ Doras \in Seq({Tag("dora")}) /\ Len(Doras) = indicators - 1
         /\ played \in Seq(MjlogEvents) /\ Ends(winners) \in Seq(MjlogEvents)
         /\ Doras \in Seq(MjlogEvents)
         /\ played \in Seq(RoundEvents)
<1> DEFINE e == Ends(winners)
           g == Doras
           init == <<Tag("init")>>
<1>1. played \in Seq(RoundEvents) /\ indicators \in Nat \ {0}
  BY DEF RoundInv, PlayedInv, Chain
<1>2. g \in Seq({Tag("dora")}) /\ Len(g) = indicators - 1
  <2> DEFINE x == Tag("dora")
  <2> HIDE DEF x
  <2>1. g = [i \in 1..(indicators - 1) |-> x]
    BY DEF Doras, x
  <2> HIDE DEF g
  <2> QED
    BY <1>1, <2>1 DEF x
<1>3. e \in Seq(EndTags(winners))
  BY EndsOK
<1>4. RoundEvents \subseteq NotInit /\ {Tag("dora")} \subseteq NotInit /\ EndTags(winners) \subseteq NotInit
      /\ NotInit \subseteq MjlogEvents
  BY TagTypes DEF NotInit, EndTags
<1>5. played \in Seq(NotInit) /\ g \in Seq(NotInit) /\ e \in Seq(NotInit)
  <2> HIDE DEF e, g
  <2> QED
    BY <1>1, <1>2, <1>3, <1>4, SeqMonotonic
<1>6. Behind(winners) \in Seq(NotInit) /\ played \o g \in Seq(NotInit)
  <2> HIDE DEF e, g
  <2>1. played \o g \in Seq(NotInit)
    BY <1>5, ConcatProperties
  <2> DEFINE pg == played \o g
  <2> HIDE DEF pg
  <2>2. pg \in Seq(NotInit)
    BY <2>1 DEF pg
  <2>3. pg \o e \in Seq(NotInit)
    BY <1>5, <2>2, ConcatProperties
  <2> QED
    BY <2>2, <2>3 DEF pg, Behind, e, g
<1>7. init \in Seq(MjlogEvents)
  BY TagTypes, Pair
<1>8. /\ played \in Seq(MjlogEvents) /\ g \in Seq(MjlogEvents) /\ e \in Seq(MjlogEvents)
      /\ played \o g \in Seq(MjlogEvents) /\ Behind(winners) \in Seq(MjlogEvents)
  <2> HIDE DEF e, g
  <2> QED
    BY <1>4, <1>5, <1>6, SeqMonotonic
<1>9. RoundTags(winners) = init \o Behind(winners)
  <2>1. RoundTags(winners) = ((init \o played) \o g) \o e
    BY DEF RoundTags, Doras
  <2> HIDE DEF init, g, e
  <2>2. (init \o played) \o g = init \o (played \o g)
    BY <1>7, <1>8, ConcatAssociative, SMTT(30)
  <2> DEFINE pg == played \o g
  <2> HIDE DEF pg
  <2>3. pg \in Seq(MjlogEvents)
    BY <1>8 DEF pg
  <2>4. (init \o pg) \o e = init \o (pg \o e)
    BY <1>7, <1>8, <2>3, ConcatAssociative, SMTT(30)
  <2> QED
    BY <2>1, <2>2, <2>4 DEF pg, Behind, g, e
<1>10. init \o Behind(winners) \in Seq(MjlogEvents)
  <2> HIDE DEF init
  <2> QED
    BY <1>7, <1>8, ConcatProperties
<1> QED
  BY <1>1, <1>2, <1>6, <1>8, <1>9, <1>10

\* What is kept of the tags of a round.
LEMMA KeptRound ==
  ASSUME RoundInv, PlayedInv, NEW winners \in SUBSET Seats, NEW S, Tag("init") \notin S,
         Tag("dora") \notin S
  PROVE  Kept(RoundTags(winners), S) = Kept(played, S) \o Kept(Ends(winners), S)
<1> DEFINE e == Ends(winners)
           g == Doras
           b == Behind(winners)
           init == <<Tag("init")>>
           T == MjlogEvents
<1>1. /\ RoundTags(winners) = init \o b /\ g \in Seq({Tag("dora")})
      /\ played \in Seq(T) /\ e \in Seq(T) /\ g \in Seq(T) /\ b = (played \o g) \o e
      /\ init \in Seq(T)
  <2>1. init \in Seq(T)
    BY TagTypes, Pair
  <2> QED
    BY <2>1, RoundTagsOK DEF Behind
<1>2. Kept(init, S) = << >>
  BY KeptShort
<1>3. Kept(g, S) = << >>
  <2> HIDE DEF g
  <2> QED
    BY <1>1, KeptNone
<1> HIDE DEF e, g, b, init, T
<1> DEFINE pg == played \o g
<1>4. pg \in Seq(T) /\ Kept(pg, S) = Kept(played, S) \o << >>
  <2> DEFINE p == played
  <2>0. p \in Seq(T)
    BY <1>1
  <2> HIDE DEF p
  <2>1. p \o g \in Seq(T)
    BY <1>1, <2>0, ConcatProperties
  <2>2. Kept(p \o g, S) = Kept(p, S) \o Kept(g, S)
    <3>1. p \in Seq(T) /\ g \in Seq(T)
      BY <1>1, <2>0
    <3> QED
      BY <3>1, KeptConcat
  <2> QED
    BY <1>3, <2>1, <2>2 DEF p
<1> HIDE DEF pg
<1>5. b \in Seq(T) /\ Kept(b, S) = Kept(pg, S) \o Kept(e, S)
  <2>1. pg \o e \in Seq(T)
    BY <1>1, <1>4, ConcatProperties
  <2>2. Kept(pg \o e, S) = Kept(pg, S) \o Kept(e, S)
    <3>1. pg \in Seq(T) /\ e \in Seq(T)
      BY <1>1, <1>4
    <3> QED
      BY <3>1, KeptConcat
  <2> QED
    BY <1>1, <2>1, <2>2 DEF pg
<1>6. Kept(init \o b, S) = << >> \o Kept(b, S)
  <2>1. Kept(init \o b, S) = Kept(init, S) \o Kept(b, S)
    <3>1. init \in Seq(T) /\ b \in Seq(T)
      BY <1>1, <1>5
    <3> QED
      BY <3>1, KeptConcat
  <2> QED
    BY <1>2, <2>1
<1>7. /\ << >> \o Kept(b, S) = Kept(b, S) /\ Kept(played, S) \o << >> = Kept(played, S)
  <2>1. Kept(b, S) \in Seq(T \cap S) /\ Kept(played, S) \in Seq(T \cap S)
    BY <1>1, <1>5, KeptElements
  <2> QED
    BY <2>1, ConcatEmptySeq
<1> QED
  BY <1>1, <1>4, <1>5, <1>6, <1>7 DEF e

LEMMA RoundOfType ==
  ASSUME RoundInv, PlayedInv, NEW winners \in SUBSET Seats, NEW type \in {"ryuukyoku", "agari"}
  PROVE  OfType(RoundTags(winners), {type}) = Kept(Ends(winners), {x \in MjlogEvents : x.type = type})
<1> DEFINE R == RoundTags(winners)
           S == {x \in MjlogEvents : x.type = type}
           A == {e \in {R[i] : i \in DOMAIN R} : e.type \in {type}}
<1>1. R \in Seq(MjlogEvents) /\ played \in Seq(RoundEvents) /\ Ends(winners) \in Seq(MjlogEvents)
  BY RoundTagsOK
<1>2. OfType(R, {type}) = Kept(R, A)
  BY DEF OfType
<1>3. \A i \in DOMAIN R : R[i] \in MjlogEvents
  <2> HIDE DEF R
  <2> QED
    BY <1>1, LenProperties, ElementOfSeq
<1>4. \A x \in {R[i] : i \in DOMAIN R} : x \in A <=> x \in S
  BY <1>3
<1>5. Tag("init") \notin S /\ Tag("dora") \notin S /\ \A x \in RoundEvents : x \notin S
  BY TagTypes
<1> HIDE DEF R, S, A
<1>6. Kept(R, A) = Kept(R, S)
  BY <1>1, <1>4, KeptRange
<1>7. Kept(R, S) = Kept(played, S) \o Kept(Ends(winners), S)
  BY <1>5, KeptRound DEF R
<1>8. Kept(played, S) = << >>
  BY <1>1, <1>5, KeptNone
<1>9. << >> \o Kept(Ends(winners), S) = Kept(Ends(winners), S)
  <2>1. Kept(Ends(winners), S) \in Seq(MjlogEvents \cap S)
    BY <1>1, KeptElements
  <2> QED
    BY <2>1, ConcatEmptySeq
<1> QED
  BY <1>2, <1>6, <1>7, <1>8, <1>9 DEF R, S

\* conv_round_result finds the draw or the wins.
LEMMA RoundResult ==
  ASSUME RoundInv, PlayedInv, NEW winners \in SUBSET Seats
  PROVE  ResultOf(RoundTags(winners)) = Ends(winners)
<1> DEFINE draws == OfType(RoundTags(winners), {"ryuukyoku"})
           wins == OfType(RoundTags(winners), {"agari"})
           S(type) == {x \in MjlogEvents : x.type = type}
           e == Ends(winners)
<1>1. /\ draws = Kept(e, S("ryuukyoku")) /\ wins = Kept(e, S("agari"))
      /\ e \in Seq(EndTags(winners)) /\ e # << >> /\ (winners = {} => Len(e) = 1)
  BY RoundOfType, EndsOK
<1>2. ResultOf(RoundTags(winners)) =
        CASE Len(draws) = 1 -> draws
          [] Len(draws) # 1 /\ wins # << >> -> wins
          [] OTHER -> <<"error">>
  BY DEF ResultOf
<1>3. CASE winners = {}
  <2>1. EndTags(winners) \subseteq S("ryuukyoku")
    BY <1>3, TagTypes DEF EndTags
  <2> HIDE DEF S, e, draws, wins
  <2>2. e \in Seq(S("ryuukyoku"))
    BY <1>1, <2>1, SeqMonotonic
  <2>3. draws = e
    BY <1>1, <2>2, KeptAll
  <2> QED
    BY <1>1, <1>2, <1>3, <2>3 DEF e
<1>4. CASE winners # {}
  <2>1. EndTags(winners) \subseteq S("agari") /\ \A x \in EndTags(winners) : x \notin S("ryuukyoku")
    BY <1>4, TagTypes DEF EndTags
  <2> HIDE DEF S, e, draws, wins
  <2>2. e \in Seq(S("agari"))
    BY <1>1, <2>1, SeqMonotonic
  <2>3. wins = e
    BY <1>1, <2>2, KeptAll
  <2>4. draws = << >>
    BY <1>1, <2>1, KeptNone
  <2>5. Len(draws) # 1
    BY <2>4
  <2> QED
    BY <1>1, <1>2, <2>3, <2>5 DEF e
<1> QED
  BY <1>3, <1>4

\* The actions of a seat in a round are those that were played.
LEMMA RoundActions ==
  ASSUME RoundInv, PlayedInv, NEW winners \in SUBSET Seats, NEW a \in Seats
  PROVE  ActionsOf(a, RoundTags(winners)) = Kept(played, ActsOf(a))
<1> DEFINE R == RoundTags(winners)
           S == ActsOf(a)
           A == {e \in {R[i] : i \in DOMAIN R} : e.actor = a /\ e.type \in ActionTypes}
<1>1. R \in Seq(MjlogEvents) /\ played \in Seq(RoundEvents) /\ Ends(winners) \in Seq(EndTags(winners))
  BY RoundTagsOK, EndsOK
<1>2. ActionsOf(a, R) = Kept(R, A)
  BY DEF ActionsOf, Range, ActionTypes
<1>3. \A i \in DOMAIN R : R[i] \in MjlogEvents
  <2> HIDE DEF R
  <2> QED
    BY <1>1, LenProperties, ElementOfSeq
<1>4. \A x \in Tags : x.type \in {"go", "taikyoku", "init", "dora", "ryuukyoku", "agari"}
  BY TagTypes DEF Tags
<1>5. \A x \in Tags : x.type \notin ActionTypes
  BY <1>4 DEF ActionTypes, Nakis
<1>6. \A x \in Tags : x \notin S
  BY <1>5 DEF ActsOf, Actions
<1>7. \A x \in {R[i] : i \in DOMAIN R} : x \in A <=> x \in S
  BY <1>3, <1>5 DEF ActsOf, Actions, MjlogEvents
<1>8. Tag("init") \notin S /\ Tag("dora") \notin S /\ \A x \in EndTags(winners) : x \notin S
  BY <1>6 DEF Tags, EndTags
<1> HIDE DEF R, S, A
<1>9. Kept(R, A) = Kept(R, S)
  BY <1>1, <1>7, KeptRange
<1>10. Kept(R, S) = Kept(played, S) \o Kept(Ends(winners), S)
  BY <1>8, KeptRound DEF R
<1>11. Kept(Ends(winners), S) = << >>
  BY <1>1, <1>8, KeptNone
<1>12. Kept(played, S) \o << >> = Kept(played, S)
  <2>1. Kept(played, S) \in Seq(RoundEvents \cap S)
    BY <1>1, KeptElements
  <2> QED
    BY <2>1, ConcatEmptySeq
<1> QED
  BY <1>2, <1>9, <1>10, <1>11, <1>12 DEF R, S

\* Each indicator but the first has a tag.
LEMMA RoundDoras ==
  ASSUME RoundInv, PlayedInv, NEW winners \in SUBSET Seats
  PROVE  Cardinality({i \in DOMAIN RoundTags(winners) : RoundTags(winners)[i].type = "dora"})
           = indicators - 1
<1> DEFINE R == RoundTags(winners)
           T == MjlogEvents
           e == Ends(winners)
           g == Doras
           pg == played \o g
           b == Behind(winners)
           init == <<Tag("init")>>
           P == Len(played)
           n == indicators - 1
           M == Len(e)
<1>1. /\ R = init \o b /\ g \in Seq({Tag("dora")}) /\ Len(g) = n
      /\ played \in Seq(T) /\ e \in Seq(T) /\ g \in Seq(T) /\ b = pg \o e /\ R \in Seq(T)
      /\ played \in Seq(RoundEvents) /\ init \in Seq(T) /\ e \in Seq(EndTags(winners))
  <2>1. init \in Seq(T)
    BY TagTypes, Pair
  <2> QED
    BY <2>1, RoundTagsOK, EndsOK DEF Behind
<1>2. n \in Nat /\ P \in Nat /\ M \in Nat
  <2>1. P \in Nat /\ M \in Nat
    <3> HIDE DEF e
    <3> QED
      BY <1>1, LenProperties
  <2> QED
    BY <2>1 DEF RoundInv
<1>3. /\ \A i \in 1..P : played[i].type # "dora"
      /\ \A i \in 1..n : g[i].type = "dora"
      /\ \A i \in 1..M : e[i].type # "dora"
  <2>1. \A i \in 1..P : played[i].type # "dora"
    BY <1>1, ElementOfSeq, TagTypes
  <2>2. \A i \in 1..n : g[i].type = "dora"
    <3> HIDE DEF g, n
    <3>1. \A i \in 1..n : g[i] \in {Tag("dora")}
      BY <1>1, ElementOfSeq
    <3> QED
      BY <3>1, TagTypes
  <2>3. \A x \in EndTags(winners) : x.type # "dora"
    BY TagTypes DEF EndTags
  <2>4. \A i \in 1..M : e[i] \in EndTags(winners)
    <3> HIDE DEF e
    <3> QED
      BY <1>1, ElementOfSeq
  <2> QED
    BY <2>1, <2>2, <2>3, <2>4
<1> HIDE DEF e, g, n
<1>4. /\ pg \in Seq(T) /\ Len(pg) = P + n
      /\ \A i \in 1..(P + n) : pg[i] = IF i <= P THEN played[i] ELSE g[i - P]
  BY <1>1, ConcatProperties
<1> HIDE DEF pg, b
<1>5. /\ b \in Seq(T) /\ Len(b) = (P + n) + M
      /\ \A i \in 1..((P + n) + M) : b[i] = IF i <= P + n THEN pg[i] ELSE e[i - (P + n)]
  <2>1. pg \in Seq(T) /\ e \in Seq(T)
    BY <1>1, <1>4
  <2>2. /\ pg \o e \in Seq(T) /\ Len(pg \o e) = Len(pg) + Len(e)
        /\ \A i \in 1..(Len(pg) + Len(e)) :
             (pg \o e)[i] = IF i <= Len(pg) THEN pg[i] ELSE e[i - Len(pg)]
    BY <2>1, ConcatProperties
  <2> HIDE DEF P
  <2> QED
    BY <1>1, <1>4, <2>2
<1>6. init[1].type = "init" /\ Len(init) = 1
  BY TagTypes
<1> HIDE DEF init, R
<1>7. /\ Len(R) = 1 + ((P + n) + M)
      /\ \A i \in 1..(1 + ((P + n) + M)) : R[i] = IF i <= 1 THEN init[i] ELSE b[i - 1]
  <2>1. init \in Seq(T) /\ b \in Seq(T)
    BY <1>1, <1>5
  <2>2. /\ init \o b \in Seq(T) /\ Len(init \o b) = Len(init) + Len(b)
        /\ \A i \in 1..(Len(init) + Len(b)) :
             (init \o b)[i] = IF i <= Len(init) THEN init[i] ELSE b[i - Len(init)]
    BY <2>1, ConcatProperties
  <2> HIDE DEF P, M
  <2> QED
    BY <1>1, <1>5, <1>6, <2>2
<1> HIDE DEF P, M
<1>8. ASSUME NEW i \in 1..(1 + ((P + n) + M))
      PROVE  R[i].type = "dora" <=> i \in (P + 2)..(P + n + 1)
  <2>1. CASE i = 1
    BY <1>2, <1>6, <1>7, <2>1
  <2>2. CASE i > 1 /\ i <= P + 1
    <3>1. i - 1 \in 1..P /\ i - 1 <= P /\ i - 1 <= P + n /\ i - 1 \in 1..(P + n)
          /\ i - 1 \in 1..((P + n) + M) /\ ~(i <= 1) /\ i \notin (P + 2)..(P + n + 1)
      BY <1>2, <2>2
    <3>2. R[i] = played[i - 1]
      BY <1>4, <1>5, <1>7, <3>1
    <3> QED
      BY <1>3, <3>1, <3>2
  <2>3. CASE i > P + 1 /\ i <= P + n + 1
    <3>1. (i - 1) - P \in 1..n /\ ~(i - 1 <= P) /\ i - 1 <= P + n /\ i - 1 \in 1..(P + n)
          /\ i - 1 \in 1..((P + n) + M) /\ ~(i <= 1) /\ i \in (P + 2)..(P + n + 1)
      BY <1>2, <2>3
    <3>2. R[i] = g[(i - 1) - P]
      BY <1>4, <1>5, <1>7, <3>1
    <3> QED
      BY <1>3, <3>1, <3>2
  <2>4. CASE i > P + n + 1
    <3>1. (i - 1) - (P + n) \in 1..M /\ ~(i - 1 <= P + n)
          /\ i - 1 \in 1..((P + n) + M) /\ ~(i <= 1) /\ i \notin (P + 2)..(P + n + 1)
      BY <1>2, <2>4
    <3>2. R[i] = e[(i - 1) - (P + n)]
      BY <1>5, <1>7, <3>1
    <3> QED
      BY <1>3, <3>1, <3>2
  <2> QED
    BY <1>2, <2>1, <2>2, <2>3, <2>4
<1>9. {i \in DOMAIN R : R[i].type = "dora"} = (P + 2)..(P + n + 1)
  <2>1. DOMAIN R = 1..Len(R)
    BY <1>1, LenProperties
  <2>2. (P + 2)..(P + n + 1) \subseteq 1..(1 + ((P + n) + M))
    BY <1>2
  <2> QED
    BY <1>7, <1>8, <2>1, <2>2
<1>10. Cardinality((P + 2)..(P + n + 1)) = n
  <2>1. P + 2 \in Int /\ P + n + 1 \in Int
    BY <1>2
  <2>2. Cardinality((P + 2)..(P + n + 1)) =
          IF P + 2 > P + n + 1 THEN 0 ELSE (P + n + 1) - (P + 2) + 1
    BY <2>1, FS_Interval
  <2> QED
    BY <1>2, <2>2
<1> QED
  BY <1>9, <1>10 DEF R, n

\* extract_round_indices finds the two rounds.
LEMMA RoundsCut ==
  ASSUME RoundInv, PlayedInv, CanWin \in SUBSET Seats
  PROVE  /\ Len(Rounds(Mjlog)) = 2
         /\ Rounds(Mjlog)[1] = RoundTags({}) /\ Rounds(Mjlog)[2] = RoundTags(CanWin)
<1> DEFINE T == MjlogEvents
           S == {x \in T : x.type = "init"}
           head == <<Tag("go"), Tag("taikyoku")>>
           init == Tag("init")
           B == Behind({})
           C == Behind(CanWin)
           R == RoundTags({})
           Q == RoundTags(CanWin)
           M == Mjlog
           u == Append(head, init)
           v == u \o B
           z == Append(v, init)
           n == Len(R)
           m == Len(Q)
<1>1. /\ R = <<init>> \o B /\ Q = <<init>> \o C /\ B \in Seq(NotInit) /\ C \in Seq(NotInit)
      /\ R \in Seq(T) /\ Q \in Seq(T)
  BY RoundTagsOK
<1>2. /\ head \in Seq(T) /\ Len(head) = 2 /\ init \in S /\ init \in T /\ <<init>> \in Seq(T)
      /\ NotInit \subseteq T /\ \A x \in NotInit : x \notin S
      /\ Tag("go") \in T /\ Tag("taikyoku") \in T /\ Tag("go") \notin S /\ Tag("taikyoku") \notin S
  <2>1. /\ init \in S /\ init \in T /\ NotInit \subseteq T /\ \A x \in NotInit : x \notin S
        /\ Tag("go") \in T /\ Tag("taikyoku") \in T /\ Tag("go") \notin S /\ Tag("taikyoku") \notin S
    BY TagTypes DEF NotInit
  <2>2. head \in Seq(T) /\ Len(head) = 2 /\ <<init>> \in Seq(T)
    BY <2>1, Pair
  <2> QED
    BY <2>1, <2>2
<1>3. M = (head \o R) \o Q
  BY DEF Mjlog
<1>4. Places(head, S) = << >>
  <2> DEFINE x == Tag("go")
             y == Tag("taikyoku")
  <2>1. x \in T /\ y \in T /\ x \notin S /\ y \notin S
    BY <1>2
  <2>2. head = <<x, y>>
    OBVIOUS
  <2> HIDE DEF x, y, S, T, head
  <2>3. << >> \in Seq(T) /\ Append(<< >>, x) \in Seq(T)
    BY <2>1, EmptySeq, Appended
  <2>4. Append(<< >>, x) = <<x>> /\ <<x, y>> = Append(<<x>>, y)
    BY <2>1, Pair
  <2>5. Places(Append(<< >>, x), S) = << >>
    BY <2>1, <2>3, PlacesAppend, PlacesEmpty
  <2> DEFINE w == Append(<< >>, x)
  <2> HIDE DEF w
  <2>6. w \in Seq(T) /\ Places(w, S) = << >>
    BY <2>3, <2>5 DEF w
  <2>7. Places(Append(w, y), S) = << >>
    BY <2>1, <2>6, PlacesAppend
  <2> QED
    BY <2>2, <2>4, <2>7 DEF w
<1>5. DOMAIN M = 1..Len(M) /\ M \in Seq(T) /\ Len(M) = (2 + n) + m
      /\ SubSeq(M, 3, 2 + n) = R /\ SubSeq(M, (2 + n) + 1, (2 + n) + m) = Q
      /\ n \in Nat /\ m \in Nat
  <2> HIDE DEF T, head, R, Q, M
  <2> DEFINE w == (head \o R) \o Q
  <2>1. /\ w \in Seq(T) /\ Len(w) = Len(head) + Len(R) + Len(Q)
        /\ SubSeq(w, Len(head) + 1, Len(head) + Len(R)) = R
        /\ SubSeq(w, Len(head) + Len(R) + 1, Len(head) + Len(R) + Len(Q)) = Q
    <3>1. head \in Seq(T) /\ R \in Seq(T) /\ Q \in Seq(T)
      BY <1>1, <1>2
    <3> QED
      BY <3>1, CutOut
  <2>2. n \in Nat /\ m \in Nat
    BY <1>1, LenProperties
  <2> HIDE DEF w, n, m
  <2>3. w = M
    BY <1>3 DEF w
  <2>4. DOMAIN M = 1..Len(M)
    BY <2>1, <2>3, LenProperties
  <2> QED
    BY <1>2, <2>1, <2>2, <2>3, <2>4 DEF n, m
<1> HIDE DEF S, T, head, init, B, C, R, Q, M
<1>6. u \in Seq(T) /\ Len(u) = 3 /\ Places(u, S) = <<3>> /\ u = head \o <<init>>
  <2>1. u \in Seq(T) /\ Len(u) = 3
    <3>1. head \in Seq(T) /\ init \in T /\ Len(head) = 2
      BY <1>2
    <3>2. Append(head, init) \in Seq(T) /\ Len(Append(head, init)) = Len(head) + 1
      BY <3>1, Appended
    <3> QED
      BY <3>1, <3>2
  <2>2. Places(u, S) = Append(<< >>, 2 + 1)
    BY <1>2, <1>4, PlacesAppend
  <2>3. Append(<< >>, 2 + 1) = <<3>>
    OBVIOUS
  <2>4. u = head \o <<init>>
    BY <1>2, Lengthened
  <2> QED
    BY <2>1, <2>2, <2>3, <2>4
<1> HIDE DEF u
<1>7. B \in Seq(T) /\ C \in Seq(T)
  BY <1>1, <1>2, SeqMonotonic
<1>8. v \in Seq(T) /\ Places(v, S) = <<3>> /\ v = head \o R /\ Len(v) = 2 + n
  <2>1. v \in Seq(T)
    BY <1>6, <1>7, ConcatProperties
  <2>2. Places(u \o B, S) = Places(u, S)
    <3>1. u \in Seq(T) /\ B \in Seq(NotInit) /\ NotInit \subseteq T /\ \A x \in NotInit : x \notin S
      BY <1>1, <1>2, <1>6
    <3> QED
      BY <3>1, PlacesBehind
  <2>3. (head \o <<init>>) \o B = head \o (<<init>> \o B)
    BY <1>2, <1>7, ConcatAssociative
  <2>4. v = head \o R
    BY <1>1, <1>6, <2>3
  <2>5. Len(head \o R) = Len(head) + Len(R)
    BY <1>1, <1>2, ConcatProperties
  <2> QED
    BY <1>2, <1>6, <2>1, <2>2, <2>4, <2>5
<1> HIDE DEF v, n
<1>9. z \in Seq(T) /\ Places(z, S) = <<3, (2 + n) + 1>> /\ z = v \o <<init>>
  <2>1. z \in Seq(T)
    BY <1>2, <1>8, Appended
  <2>2. Places(z, S) = Append(<<3>>, (2 + n) + 1)
    <3>1. v \in Seq(T) /\ init \in T /\ init \in S
      BY <1>2, <1>8
    <3>2. Places(Append(v, init), S) = Append(Places(v, S), Len(v) + 1)
      BY <3>1, PlacesAppend
    <3> QED
      BY <1>8, <3>2
  <2>3. Append(<<3>>, (2 + n) + 1) = <<3, (2 + n) + 1>>
    <3>1. 3 \in Nat /\ (2 + n) + 1 \in Nat
      BY <1>5
    <3> QED
      BY <3>1, Pair
  <2>4. z = v \o <<init>>
    BY <1>2, <1>8, Lengthened
  <2> QED
    BY <2>1, <2>2, <2>3, <2>4
<1> HIDE DEF z
<1>10. Places(M, S) = <<3, (2 + n) + 1>>
  <2>1. Places(z \o C, S) = Places(z, S)
    <3>1. z \in Seq(T) /\ C \in Seq(NotInit) /\ NotInit \subseteq T /\ \A x \in NotInit : x \notin S
      BY <1>1, <1>2, <1>9
    <3> QED
      BY <3>1, PlacesBehind
  <2>2. (v \o <<init>>) \o C = v \o (<<init>> \o C)
    BY <1>2, <1>7, <1>8, ConcatAssociative
  <2>3. M = z \o C
    BY <1>1, <1>3, <1>8, <1>9, <2>2
  <2> QED
    BY <1>9, <2>1, <2>3
<1> DEFINE inits == Kept([i \in DOMAIN M |-> i], {i \in DOMAIN M : M[i].type = "init"})
<1>11. inits = <<3, (2 + n) + 1>>
  <2>1. \A i \in DOMAIN M : M[i] \in T
    BY <1>5, ElementOfSeq
  <2>2. {i \in DOMAIN M : M[i].type = "init"} = {i \in DOMAIN M : M[i] \in S}
    BY <2>1 DEF S
  <2> DEFINE I == {i \in DOMAIN M : M[i].type = "init"}
             J == {i \in DOMAIN M : M[i] \in S}
             p == [i \in DOMAIN M |-> i]
  <2>3. inits = Kept(p, I) /\ Places(M, S) = Kept(p, J)
    BY DEF Places
  <2>4. I = J
    BY <2>2
  <2> HIDE DEF I, J, p, inits
  <2> QED
    BY <1>10, <2>3, <2>4
<1>12. Rounds(M) =
         [k \in DOMAIN inits |->
            SubSeq(M, inits[k], IF k < Len(inits) THEN inits[k + 1] - 1 ELSE Len(M))]
  BY DEF Rounds
<1> HIDE DEF inits, m
<1> DEFINE q == (2 + n) + 1
           f == [k \in 1..2 |-> SubSeq(M, inits[k], IF k < 2 THEN inits[k + 1] - 1 ELSE Len(M))]
<1>13. Len(inits) = 2 /\ DOMAIN inits = 1..2 /\ inits[1] = 3 /\ inits[2] = q
  BY <1>11
<1>14. Rounds(M) = f
  BY <1>12, <1>13
<1>15. /\ f[1] = SubSeq(M, 3, q - 1) /\ f[2] = SubSeq(M, q, Len(M)) /\ Len(f) = 2
  <2>1. 1 \in 1..2 /\ 2 \in 1..2 /\ 1 < 2 /\ ~(2 < 2) /\ 1 + 1 = 2
    OBVIOUS
  <2>2. f[1] = SubSeq(M, inits[1], inits[2] - 1) /\ f[2] = SubSeq(M, inits[2], Len(M))
    BY <2>1
  <2>3. Len(f) = 2
    OBVIOUS
  <2> HIDE DEF f, q
  <2> QED
    BY <1>13, <2>2, <2>3
<1>16. q - 1 = 2 + n /\ q = (2 + n) + 1
  BY <1>5
<1> HIDE DEF f, q
<1> QED
  BY <1>5, <1>14, <1>15, <1>16 DEF M, R, Q

\* The replay of a seat is that of its lists, and its discards are filled in
\* as those of the log are.
LEMMA SeatReplay ==
  ASSUME RoundInv, PlayedInv, ReplayInv, NEW winners \in SUBSET Seats, NEW a \in Seats
  PROVE  LET r == Replayed(a, RoundTags(winners))
         IN /\ r.incoming = takes[a]
            /\ DiscardsFrom(a, r.incoming, r.outgoing) = DiscardsOf(a)
<1> DEFINE s == Kept(played, ActsOf(a))
           w == Replay(s).lastDraw
           L == takes[a]
           D == discards[a]
           E == WithoutLastZeros(D)
           r == Replayed(a, RoundTags(winners))
<1>1. Replay(s) = Replaying(L, D, Off, w)
  BY DEF ReplayInv
<1>2. ActionsOf(a, RoundTags(winners)) = s
  BY RoundActions
<1>3. r = [Replay(s) EXCEPT !.outgoing = WithoutLastZeros(Replay(s).outgoing)]
  <2> HIDE DEF s
  <2> QED
    BY <1>2 DEF Replayed
<1> HIDE DEF s, w, r
<1>4. r.incoming = L /\ r.outgoing = E
  <2> HIDE DEF L, D
  <2>1. r = [Replaying(L, D, Off, w) EXCEPT !.outgoing = WithoutLastZeros(D)]
    BY <1>1, <1>3 DEF Replaying
  <2> HIDE DEF E
  <2>2. r = [Replaying(L, D, Off, w) EXCEPT !.outgoing = E]
    BY <2>1 DEF E
  <2> QED
    BY <2>2 DEF Replaying
<1>5. LegalLists(L, D)
  BY DEF RoundInv, SeatOK
<1>6. DiscardsFrom(a, L, E) = DiscardsFrom(a, L, D)
  <2> HIDE DEF L, D
  <2>1. \A x : DiscardsFrom(a, L, x) = Finals(a, L, x)[Len(L)].ds
    BY DEF DiscardsFrom, Finals
  <2>2. CASE D = << >> \/ D[Len(D)].kind # "zero"
    BY <1>5, <2>2, LastZero
  <2>3. CASE D # << >> /\ D[Len(D)].kind = "zero"
    <3>1. E = First(D, Len(D) - 1)
      BY <1>5, <2>3, LastZero
    <3>2. Finals(a, L, First(D, Len(D) - 1))[Len(L)].ds = Finals(a, L, D)[Len(L)].ds
      BY <1>5, <2>3, ZeroDropped
    <3> QED
      BY <2>1, <3>1, <3>2
  <2> QED
    BY <2>2, <2>3
<1>7. DiscardsOf(a) = DiscardsFrom(a, L, D)
  BY DEF DiscardsOf
<1> HIDE DEF L, D, E
<1> QED
  BY <1>4, <1>6, <1>7 DEF r, L

LEMMA Alike == RoundInv /\ PlayedInv /\ ReplayInv => ReplayedAlike
<1> SUFFICES ASSUME RoundInv, PlayedInv, ReplayInv
             PROVE  ReplayedAlike
  OBVIOUS
<1>1. {} \in SUBSET Seats /\ CanWin \in SUBSET Seats /\ CanWin # {}
  <2>1. table.seat \in Seats /\ \E a \in Seats : a # table.seat
    BY DEF RoundInv, Table, Seats
  <2> QED
    BY <2>1 DEF CanWin
<1> DEFINE rounds == Rounds(Mjlog)
<1>2. Len(rounds) = 2 /\ rounds[1] = RoundTags({}) /\ rounds[2] = RoundTags(CanWin)
  BY <1>1, RoundsCut
<1>3. \A k \in 1..2 : rounds[k] = RoundTags(IF k = 1 THEN {} ELSE CanWin)
  BY <1>2
<1>4. ASSUME NEW winners \in SUBSET Seats
      PROVE  LET R == RoundTags(winners)
             IN /\ Cardinality({i \in DOMAIN R : R[i].type = "dora"}) = indicators - 1
                /\ ResultOf(R) = Ends(winners)
                /\ \A a \in Seats :
                     LET r == Replayed(a, R)
                     IN /\ r.incoming = takes[a]
                        /\ DiscardsFrom(a, r.incoming, r.outgoing) = DiscardsOf(a)
  BY RoundDoras, RoundResult, SeatReplay
<1> HIDE DEF rounds
<1>5. ASSUME NEW k \in 1..2
      PROVE  /\ Cardinality({i \in DOMAIN rounds[k] : rounds[k][i].type = "dora"}) = indicators - 1
             /\ ResultOf(rounds[k]) = Ends(IF k = 1 THEN {} ELSE CanWin)
             /\ \A a \in Seats :
                  LET r == Replayed(a, rounds[k])
                  IN /\ r.incoming = takes[a]
                     /\ DiscardsFrom(a, r.incoming, r.outgoing) = DiscardsOf(a)
  <2> DEFINE winners == IF k = 1 THEN {} ELSE CanWin
             R == RoundTags(winners)
  <2>1. winners \in SUBSET Seats
    BY <1>1
  <2>2. rounds[k] = R
    BY <1>3
  <2> HIDE DEF winners
  <2>3. /\ Cardinality({i \in DOMAIN R : R[i].type = "dora"}) = indicators - 1
        /\ ResultOf(R) = Ends(winners)
        /\ \A a \in Seats :
             LET r == Replayed(a, R)
             IN /\ r.incoming = takes[a]
                /\ DiscardsFrom(a, r.incoming, r.outgoing) = DiscardsOf(a)
    BY <1>4, <2>1
  <2> HIDE DEF R
  <2> QED
    BY <2>2, <2>3 DEF winners
<1> QED
  BY <1>2, <1>5 DEF ReplayedAlike, rounds

-----------------------------------------------------------------------------
(***************************************************************************)
(* The invariant of the replay holds of every round.                       *)
(***************************************************************************)

ReplayPlayInv == PlayInv /\ ReplayInv

LEMMA ReplayGoesOn == ReplayPlayInv /\ [Next]_vars => ReplayPlayInv'
<1> SUFFICES ASSUME ReplayPlayInv, [Next]_vars PROVE ReplayPlayInv'
  OBVIOUS
<1>1. PlayInv'
  BY PlayGoesOn DEF ReplayPlayInv
<1>2. CASE Play
  BY <1>1, <1>2, ReplayStep DEF ReplayPlayInv, PlayInv
<1>3. CASE UNCHANGED roundVars
  <2>1. takes' = takes /\ discards' = discards /\ played' = played /\ table' = table
    BY <1>3 DEF roundVars
  <2>2. ReplayInv'
    BY <2>1 DEF ReplayPlayInv, ReplayInv, Idle
  <2> QED
    BY <1>1, <2>2 DEF ReplayPlayInv
<1> QED
  BY <1>2, <1>3, ConvertLeaves DEF Next, PlayRound, vars

\* Of every round that can be played: an mjlog of two such rounds is cut into
\* the two (whatever their length and their dora tags), each with its own
\* result, and the replay of the actions of a seat gives the takes of that seat
\* and, once finalize_discards has filled them in, its discards.  What is drawn
\* last and the reach that is open never reach over a turn of the seat, and the
\* placeholder of an open kan at the end of a list may be dropped
\* (mjlog2json-core/src/conv.rs:48-66, :379-394, :412-602).
THEOREM RoundsReplayAlike == Spec => []ReplayedAlike
<1>1. ConvInit => ReplayPlayInv
  BY PlayBegins, ReplayInit DEF ConvInit, ReplayPlayInv
<1>2. ReplayPlayInv => ReplayedAlike
  BY Alike DEF ReplayPlayInv, PlayInv
<1> QED
  BY <1>1, <1>2, ReplayGoesOn, PTL DEF Spec
=============================================================================
