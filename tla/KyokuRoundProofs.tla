-------------------------- MODULE KyokuRoundProofs --------------------------
(***************************************************************************)
(* Proofs about KyokuRound and the lists that KyokuConv makes of a log:    *)
(* what a round leaves in the lists of a seat, what finalize_discards      *)
(* makes of them, and that the takes and the discards of a seat are then   *)
(* aligned: each take is followed by a dahai, a reach with its dahai, a    *)
(* kan, or nothing.                                                        *)
(*                                                                         *)
(* The other theorems compare a conversion with the round, event by event. *)
(* For these: which event of a round may follow which (PlayedInv), whose   *)
(* turn it is and which indicators are shown (TurnsInv), and that the      *)
(* lists of a seat are its takes and its discards among the events of the  *)
(* round, in their order (ListsInv).                                       *)
(***************************************************************************)
EXTENDS KyokuConv, OrderedSets, SequenceTheorems, WellFoundedInduction, TLAPS

-----------------------------------------------------------------------------
(***************************************************************************)
(* Induction and recursion up to a number.                                 *)
(***************************************************************************)

\* A set of numbers that is not empty has a first element.
LEMMA FirstExists ==
  ASSUME NEW S \in SUBSET Nat, S # {}
  PROVE  \E x \in S : IsFirst(x, S)
<1>1. PICK x \in S : \A y \in S : ~(<<y, x>> \in OpToRel(<, Nat))
  BY NatLessThanWellFounded, WFMin
<1>2. \A y \in S : x <= y
  <2> SUFFICES ASSUME NEW y \in S PROVE ~(y < x)
    OBVIOUS
  <2>1. y < x => <<y, x>> \in OpToRel(<, Nat)
    BY DEF OpToRel
  <2> QED
    BY <1>1, <2>1
<1> QED
  BY <1>2 DEF IsFirst

LEMMA UpTo ==
  ASSUME NEW m \in Nat, NEW T, 0 \in T,
         \A n \in 1..m : n - 1 \in T => n \in T
  PROVE  0..m \subseteq T
<1> DEFINE out == {n \in 0..m : n \notin T}
<1>1. SUFFICES ASSUME out # {} PROVE FALSE
  OBVIOUS
<1>2. PICK n \in out : IsFirst(n, out)
  <2>1. out \in SUBSET Nat
    OBVIOUS
  <2> HIDE DEF out
  <2> QED
    BY <1>1, <2>1, FirstExists
<1>3. n \in 1..m /\ n - 1 \notin out /\ n - 1 \in 0..m
  BY <1>2 DEF IsFirst
<1> QED
  BY <1>2, <1>3

\* f is what base becomes by the first n of m steps, for each n.
Repeats(f, base, step, m) == f[0] = base /\ \A n \in 1..m : f[n] = step[<<n, f[n - 1]>>]

\* A step from each number to the next one can be repeated.
LEMMA Repeat ==
  ASSUME NEW m \in Nat, NEW S, NEW base \in S, NEW step \in [(1..m) \X S -> S]
  PROVE  \E f \in [0..m -> S] : Repeats(f, base, step, m)
<1> DEFINE Is(f, k) == Repeats(f, base, step, k)
<1> DEFINE T == {k \in 0..m : \E f \in [0..k -> S] : Is(f, k)}
<1>1. 0 \in T
  <2>1. Is([n \in 0..0 |-> base], 0)
    BY DEF Repeats
  <2>2. [n \in 0..0 |-> base] \in [0..0 -> S]
    OBVIOUS
  <2> HIDE DEF Is
  <2>3. \E f \in [0..0 -> S] : Is(f, 0)
    BY <2>1, <2>2
  <2> QED
    BY <2>3
<1>2. ASSUME NEW k \in 1..m, k - 1 \in T PROVE k \in T
  <2>1. PICK f \in [0..(k - 1) -> S] : Is(f, k - 1)
    BY <1>2
  <2> DEFINE g == [n \in 0..k |-> IF n = k THEN step[<<k, f[k - 1]>>] ELSE f[n]]
  <2>2. f[k - 1] \in S /\ step[<<k, f[k - 1]>>] \in S
    <3>1. k - 1 \in 0..(k - 1)
      OBVIOUS
    <3>2. f[k - 1] \in S
      BY <3>1
    <3>3. <<k, f[k - 1]>> \in (1..m) \X S
      BY <3>2
    <3> QED
      BY <3>2, <3>3
  <2>3. g \in [0..k -> S]
    BY <2>2
  <2>4. ASSUME NEW n \in 1..k PROVE g[n] = step[<<n, g[n - 1]>>]
    <3>1. CASE n = k
      <4>1. k - 1 \in 0..k /\ k - 1 # k
        OBVIOUS
      <4> QED
        BY <3>1, <4>1
    <3>2. CASE n # k
      <4>1. n \in 1..(k - 1) /\ n \in 0..k /\ n - 1 \in 0..k /\ n - 1 # k
        BY <3>2
      <4>2. g[n] = f[n] /\ g[n - 1] = f[n - 1]
        BY <3>2, <4>1
      <4> QED
        BY <2>1, <4>1, <4>2 DEF Repeats
    <3> QED
      BY <3>1, <3>2
  <2>6. g[0] = base
    BY <2>1 DEF Repeats
  <2>5. Is(g, k)
    <3> HIDE DEF g
    <3> QED
      BY <2>4, <2>6 DEF Repeats
  <2> HIDE DEF g, Is
  <2> QED
    BY <2>3, <2>5
<1>3. 0..m \subseteq T
  <2> HIDE DEF T
  <2> QED
    BY <1>1, <1>2, UpTo
<1> QED
  BY <1>3

\* What is written at the first places stays there.
LEMMA Growing ==
  ASSUME NEW m \in Nat, NEW s, NEW w \in [0..m -> Nat],
         \A n \in 1..m : w[n - 1] <= w[n] /\ \A j \in 1..w[n - 1] : s[n][j] = s[n - 1][j]
  PROVE  \A n \in 0..m : w[n] <= w[m] /\ \A j \in 1..w[n] : s[m][j] = s[n][j]
<1> DEFINE Unmoved(k) == \A n \in 0..k : w[n] <= w[k] /\ \A j \in 1..w[n] : s[k][j] = s[n][j]
           T == {k \in 0..m : Unmoved(k)}
<1>1. Unmoved(0)
  OBVIOUS
<1>2. ASSUME NEW k \in 1..m, Unmoved(k - 1) PROVE Unmoved(k)
  <2>1. k - 1 \in 0..m /\ k \in 0..m /\ w[k - 1] \in Nat /\ w[k] \in Nat
    OBVIOUS
  <2>2. w[k - 1] <= w[k] /\ \A j \in 1..w[k - 1] : s[k][j] = s[k - 1][j]
    OBVIOUS
  <2>3. ASSUME NEW n \in 0..(k - 1)
        PROVE  w[n] <= w[k] /\ \A j \in 1..w[n] : s[k][j] = s[n][j]
    <3>1. w[n] \in Nat /\ w[n] <= w[k - 1] /\ \A j \in 1..w[n] : s[k - 1][j] = s[n][j]
      BY SMTT(30), <1>2
    <3>2. \A j \in 1..w[n] : j \in 1..w[k - 1]
      BY <2>1, <3>1
    <3> QED
      BY <2>1, <2>2, <3>1, <3>2
  <2> SUFFICES ASSUME NEW n \in 0..k
               PROVE  w[n] <= w[k] /\ \A j \in 1..w[n] : s[k][j] = s[n][j]
    OBVIOUS
  <2>4. CASE n = k
    BY <2>1, <2>4
  <2>5. CASE n # k
    BY <2>3, <2>5
  <2> QED
    BY <2>4, <2>5
<1>3. 0..m \subseteq T
  <2> HIDE DEF Unmoved
  <2>1. 0 \in T /\ \A n \in 1..m : n - 1 \in T => n \in T
    BY <1>1, <1>2
  <2> HIDE DEF T
  <2> QED
    BY <2>1, UpTo
<1> QED
  BY <1>3

-----------------------------------------------------------------------------
(***************************************************************************)
(* The lists of a log.                                                     *)
(***************************************************************************)

TakeItems ==
  {e \in [kind : {"tile"} \cup Nakis, from : Seats, pai : Tiles \cup {Other}] :
     e.kind \in Nakis => e.pai \in Tiles}
DiscardItems ==
  {d \in [kind : {"tile", "giri", "reach", "ankan", "kakan", "zero"}, from : {0},
          pai : Tiles \cup {Other}] :
     /\ d.kind = "tile" => d.pai \in Tiles
     /\ d.kind \in {"giri", "zero"} => d.pai = Other}

\* What the take e of a turn says about its discard d.
Giri(d) == d.kind = "giri" \/ (d.kind = "reach" /\ d.pai = Other)
Fits(e, d) ==
  /\ d.kind = "zero" <=> e.kind = "daiminkan"
  /\ Giri(d) => e.kind = "tile" /\ e.pai \in Tiles
  /\ d.kind \in {"ankan", "kakan"} => e.kind = "tile"

MoveEvents == [type : {"tsumo", "dahai", "giri", "reach", "ankan", "kakan"} \cup Nakis,
          actor : Seats, target : Seats, pai : Tiles \cup {Other}]
IsDahai(m, a) == m.type = "dahai" /\ m.actor = a /\ m.pai \in Tiles

\* how many events the discard d is in the log, and how many of them are left
RawWidth(d) == IF d.kind = "reach" THEN 2 ELSE 1
Width(d) == IF d.kind = "zero" THEN 0 ELSE RawWidth(d)

\* The events of d at place i.
RawAt(ds, a, i, d) == \A j \in 1..RawWidth(d) : ds[i + j - 1] = DiscardEvent(a, d)[j]
TurnAt(ds, a, i, d) ==
  /\ d.kind \in {"tile", "giri"} => IsDahai(ds[i], a)
  /\ d.kind = "reach" => /\ ds[i].type = "reach" /\ ds[i].actor = a
                         /\ IsDahai(ds[i + 1], a)
  /\ d.kind \in {"ankan", "kakan"} => ds[i].type = d.kind /\ ds[i].actor = a

LEMMA SeatTypes == ASSUME NEW a \in Seats PROVE /\ Shimocha(a) \in Seats
                                               /\ \A n \in Seats : (a + n) % 4 \in Seats
  BY DEF Seats, Shimocha

LEMMA TakeEventType ==
  ASSUME NEW a \in Seats, NEW e \in TakeItems
  PROVE  /\ TakeEvent(a, e) \in MoveEvents
         /\ TakeEvent(a, e).type = (IF e.kind = "tile" THEN "tsumo" ELSE e.kind)
         /\ TakeEvent(a, e).actor = a /\ TakeEvent(a, e).pai = e.pai
  BY SeatTypes DEF TakeEvent, Event, TakeItems, MoveEvents, Nakis

LEMMA DiscardEventType ==
  ASSUME NEW a \in Seats, NEW d \in DiscardItems
  PROVE  /\ DiscardEvent(a, d) \in Seq(MoveEvents) /\ Len(DiscardEvent(a, d)) = RawWidth(d)
         /\ \A i \in 1..RawWidth(d) : DiscardEvent(a, d)[i].actor = a
<1> DEFINE put == IF d.kind = "giri" \/ (d.kind = "reach" /\ d.pai = Other)
                  THEN Event("giri", a, a, Other) ELSE Event("dahai", a, a, d.pai)
<1>1. put \in MoveEvents /\ put.actor = a
  BY DEF Event, DiscardItems, MoveEvents
<1>2. /\ Event("reach", a, a, Other) \in MoveEvents /\ Event("reach", a, a, Other).actor = a
      /\ d.kind \in {"ankan", "kakan"} => /\ Event(d.kind, a, a, d.pai) \in MoveEvents
                                         /\ Event(d.kind, a, a, d.pai).actor = a
  BY DEF Event, DiscardItems, MoveEvents
<1> HIDE DEF put
<1>3. CASE d.kind = "reach"
  <2>1. DiscardEvent(a, d) = <<Event("reach", a, a, Other), put>> /\ RawWidth(d) = 2
    BY <1>3 DEF DiscardEvent, put, RawWidth
  <2> QED
    BY <1>1, <1>2, <2>1
<1>4. CASE d.kind \in {"ankan", "kakan"}
  <2>1. DiscardEvent(a, d) = <<Event(d.kind, a, a, d.pai)>> /\ RawWidth(d) = 1
    BY <1>4 DEF DiscardEvent, RawWidth
  <2> QED
    BY <1>2, <1>4, <2>1
<1>5. CASE d.kind \in {"tile", "giri", "zero"}
  <2>1. DiscardEvent(a, d) = <<put>> /\ RawWidth(d) = 1
    BY <1>5 DEF DiscardEvent, put, RawWidth
  <2> QED
    BY <1>1, <2>1
<1> QED
  BY <1>3, <1>4, <1>5 DEF DiscardItems

\* One element of a list less.
LEMMA Removed ==
  ASSUME NEW S, NEW s \in Seq(S), NEW i \in 1..Len(s)
  PROVE  /\ RemoveAt(s, i) \in Seq(S) /\ Len(RemoveAt(s, i)) = Len(s) - 1
         /\ \A j \in 1..(i - 1) : RemoveAt(s, i)[j] = s[j]
         /\ \A j \in i..(Len(s) - 1) : RemoveAt(s, i)[j] = s[j + 1]
<1> DEFINE p == SubSeq(s, 1, i - 1)
           q == SubSeq(s, i + 1, Len(s))
<1>1. /\ p \in Seq(S) /\ Len(p) = i - 1
      /\ \A j \in 1..(i - 1) : p[j] = s[j]
  <2>1. \A j \in 1..(i - 1) : s[j] \in S
    BY ElementOfSeq
  <2>2. /\ SubSeq(s, 1, i - 1) \in Seq(S)
        /\ Len(SubSeq(s, 1, i - 1)) = IF 1 <= i - 1 THEN i - 1 - 1 + 1 ELSE 0
        /\ \A j \in 1..(i - 1 - 1 + 1) : SubSeq(s, 1, i - 1)[j] = s[1 + j - 1]
    BY <2>1, SubSeqProperties, 1 \in Int, i - 1 \in Int
  <2> QED
    BY <2>2
<1>2. /\ q \in Seq(S) /\ Len(q) = Len(s) - i
      /\ \A j \in 1..(Len(s) - i) : q[j] = s[i + j]
  <2>1. \A j \in (i + 1)..Len(s) : s[j] \in S
    BY ElementOfSeq
  <2>2. /\ SubSeq(s, i + 1, Len(s)) \in Seq(S)
        /\ Len(SubSeq(s, i + 1, Len(s))) =
             IF i + 1 <= Len(s) THEN Len(s) - (i + 1) + 1 ELSE 0
        /\ \A j \in 1..(Len(s) - (i + 1) + 1) :
             SubSeq(s, i + 1, Len(s))[j] = s[(i + 1) + j - 1]
    BY <2>1, SubSeqProperties, i + 1 \in Int, Len(s) \in Int
  <2> QED
    BY <2>2
<1>3. RemoveAt(s, i) = p \o q
  BY DEF RemoveAt
<1> HIDE DEF p, q
<1>4. /\ p \o q \in Seq(S) /\ Len(p \o q) = Len(p) + Len(q)
      /\ \A j \in 1..(Len(p) + Len(q)) :
           (p \o q)[j] = IF j <= Len(p) THEN p[j] ELSE q[j - Len(p)]
  BY <1>1, <1>2, ConcatProperties
<1>5. ASSUME NEW j \in i..(Len(s) - 1) PROVE (p \o q)[j] = s[j + 1]
  <2>1. j - Len(p) \in 1..(Len(s) - i) /\ j \in 1..(Len(p) + Len(q)) /\ ~(j <= Len(p))
    BY <1>1, <1>2
  <2>2. (p \o q)[j] = q[j - Len(p)] /\ q[j - Len(p)] = s[i + (j - Len(p))]
    BY <1>2, <1>4, <2>1
  <2>3. i + (j - Len(p)) = j + 1
    BY <1>1
  <2> QED
    BY <2>2, <2>3
<1>6. ASSUME NEW j \in 1..(i - 1) PROVE (p \o q)[j] = s[j]
  <2>1. j \in 1..(Len(p) + Len(q)) /\ j <= Len(p)
    BY <1>1, <1>2
  <2>2. (p \o q)[j] = p[j]
    BY <1>4, <2>1
  <2> QED
    BY <1>1, <2>2
<1>7. p \o q \in Seq(S) /\ Len(p \o q) = Len(s) - 1
  <2>1. Len(s) \in Nat /\ i \in Nat
    OBVIOUS
  <2> QED
    BY <1>1, <1>2, <1>4, <2>1
<1> QED
  BY <1>3, <1>5, <1>6, <1>7

\* One step of finalize_discards takes the discard d, which begins at f.di, to
\* what it is at last, and moves neither what is before nor the order behind it.
FinalizedAs(f, g, a, d) ==
  /\ g.ds \in Seq(MoveEvents)
  /\ g.di = f.di + Width(d)
  /\ Len(g.ds) = Len(f.ds) + Width(d) - RawWidth(d)
  /\ \A j \in 1..(f.di - 1) : g.ds[j] = f.ds[j]
  /\ \A j \in (f.di + RawWidth(d))..Len(f.ds) :
       g.ds[j + Width(d) - RawWidth(d)] = f.ds[j]
  /\ TurnAt(g.ds, a, f.di, d)

\* finalize_discards looks at the discard i, which is not a reach.
FilledAt(ds, i, take) ==
  IF ds[i].type = "giri" /\ take.type = "tsumo"
  THEN [di |-> i + 1,
        ds |-> [ds EXCEPT ![i] = Event("dahai", take.actor, take.actor, take.pai)]]
  ELSE IF ds[i].type = "dahai" /\ ds[i].pai = Other
  THEN [di |-> i, ds |-> RemoveAt(ds, i)]
  ELSE [di |-> i + 1, ds |-> ds]

LEMMA FinalizeFills ==
  ASSUME NEW ds, NEW di \in Nat, NEW take, NEW i \in Nat, i <= Len(ds), Len(ds) \in Nat,
         IF ds[di].type = "reach" THEN i = di + 1 ELSE i = di
  PROVE  Finalize([di |-> di, ds |-> ds], take) = FilledAt(ds, i, take)
<1>1. di <= Len(ds)
  OBVIOUS
<1>2. (IF di <= Len(ds) /\ ds[di].type = "reach" THEN di + 1 ELSE di) = i
  BY <1>1
<1>3. ~(i > Len(ds))
  OBVIOUS
<1>4. \A x : [[di |-> di, ds |-> ds] EXCEPT !.di = x] = [di |-> x, ds |-> ds]
  OBVIOUS
<1> QED
  BY <1>2, <1>3, <1>4 DEF Finalize, FilledAt

LEMMA FinalizeStep ==
  ASSUME NEW a \in Seats, NEW e \in TakeItems, NEW d \in DiscardItems, Fits(e, d),
         NEW ds \in Seq(MoveEvents), NEW di \in Nat \ {0},
         di + RawWidth(d) <= Len(ds) + 1, RawAt(ds, a, di, d)
  PROVE  FinalizedAs([di |-> di, ds |-> ds], Finalize([di |-> di, ds |-> ds], TakeEvent(a, e)), a, d)
<1> DEFINE f == [di |-> di, ds |-> ds]
           take == TakeEvent(a, e)
           g == Finalize(f, take)
           filled == Event("dahai", a, a, e.pai)
<1>0. SUFFICES FinalizedAs(f, g, a, d)
  OBVIOUS
<1>1. f.di = di /\ f.ds = ds /\ RawWidth(d) \in {1, 2} /\ di \in 1..Len(ds) /\ Len(ds) \in Nat
  BY DEF RawWidth
<1>2. /\ take.type = (IF e.kind = "tile" THEN "tsumo" ELSE e.kind)
      /\ take.actor = a /\ take.pai = e.pai
  BY TakeEventType
<1>3. ds[di] = DiscardEvent(a, d)[1] /\ (d.kind = "reach" => ds[di + 1] = DiscardEvent(a, d)[2])
  BY DEF RawAt, RawWidth
<1>4. \A i \in Nat : i <= Len(ds) /\ (IF ds[di].type = "reach" THEN i = di + 1 ELSE i = di)
                        => g = FilledAt(ds, i, take)
  BY <1>1, FinalizeFills
<1>5. Event("dahai", take.actor, take.actor, take.pai) = filled
  BY <1>2
<1> HIDE DEF g, f, take, filled
<1>6. ASSUME NEW i \in 1..Len(ds), ds[i].type = "giri", take.type = "tsumo", Giri(d),
             g = FilledAt(ds, i, take)
      PROVE  /\ g.ds \in Seq(MoveEvents) /\ Len(g.ds) = Len(ds) /\ g.di = i + 1
             /\ \A j \in 1..Len(ds) : j # i => g.ds[j] = ds[j]
             /\ IsDahai(g.ds[i], a)
  <2>1. filled \in MoveEvents /\ IsDahai(filled, a)
    BY <1>6 DEF Event, MoveEvents, IsDahai, Fits, filled
  <2>2. g.di = i + 1 /\ g.ds = [ds EXCEPT ![i] = filled]
    BY <1>5, <1>6 DEF FilledAt
  <2>3. /\ g.ds \in Seq(MoveEvents) /\ Len(g.ds) = Len(ds)
        /\ \A j \in 1..Len(ds) : g.ds[j] = IF j = i THEN filled ELSE ds[j]
    BY <2>1, <2>2, ExceptSeq
  <2> QED
    BY <2>1, <2>2, <2>3
<1>7. ASSUME NEW w \in 0..2, NEW r \in 1..2, w = Width(d), r = RawWidth(d),
             g.ds \in Seq(MoveEvents), g.di = di + w, Len(g.ds) = Len(ds) + w - r,
             \A j \in 1..(di - 1) : g.ds[j] = ds[j],
             \A j \in (di + r)..Len(ds) : g.ds[j + w - r] = ds[j],
             TurnAt(g.ds, a, di, d)
      PROVE  FinalizedAs(f, g, a, d)
  BY <1>1, <1>7 DEF FinalizedAs
<1>8. CASE d.kind = "tile"
  <2>1. ds[di] = Event("dahai", a, a, d.pai) /\ d.pai \in Tiles /\ d.pai # Other
    BY <1>3, <1>8, TilesAssumption DEF DiscardEvent, DiscardItems
  <2>2. ds[di].type = "dahai" /\ ds[di].actor = a /\ ds[di].pai = d.pai
    BY <2>1 DEF Event
  <2>3. g = FilledAt(ds, di, take)
    BY <1>1, <1>4, <2>2
  <2>4. g.ds = ds /\ g.di = di + 1
    BY <2>1, <2>2, <2>3 DEF FilledAt
  <2>5. TurnAt(g.ds, a, di, d) /\ Width(d) = 1 /\ RawWidth(d) = 1
    BY <1>8, <2>1, <2>2, <2>4 DEF TurnAt, IsDahai, Width, RawWidth
  <2> QED
    BY <1>1, <1>7, <2>4, <2>5
<1>9. CASE d.kind = "giri"
  <2>1. ds[di] = Event("giri", a, a, Other) /\ Giri(d) /\ take.type = "tsumo"
    BY <1>2, <1>3, <1>9 DEF DiscardEvent, Fits, Giri
  <2>2. ds[di].type = "giri"
    BY <2>1 DEF Event
  <2>3. g = FilledAt(ds, di, take)
    BY <1>1, <1>4, <2>2
  <2>4. /\ g.ds \in Seq(MoveEvents) /\ Len(g.ds) = Len(ds) /\ g.di = di + 1
        /\ \A j \in 1..Len(ds) : j # di => g.ds[j] = ds[j]
        /\ IsDahai(g.ds[di], a)
    BY <1>1, <1>6, <2>1, <2>2, <2>3
  <2>5. TurnAt(g.ds, a, di, d) /\ Width(d) = 1 /\ RawWidth(d) = 1
    BY <1>9, <2>4 DEF TurnAt, Width, RawWidth
  <2> QED
    BY SMTT(30), <1>1, <1>7, <2>4, <2>5
<1>10. CASE d.kind = "reach"
  <2>1. ds[di] = Event("reach", a, a, Other) /\ di + 1 \in 1..Len(ds)
    BY <1>1, <1>3, <1>10 DEF DiscardEvent, RawWidth
  <2>2. ds[di].type = "reach" /\ ds[di].actor = a
    BY <2>1 DEF Event
  <2>3. g = FilledAt(ds, di + 1, take)
    BY <1>1, <1>4, <2>1, <2>2
  <2>4. Width(d) = 2 /\ RawWidth(d) = 2
    BY <1>10 DEF Width, RawWidth
  <2>5. CASE d.pai = Other
    <3>1. ds[di + 1] = Event("giri", a, a, Other) /\ Giri(d) /\ take.type = "tsumo"
      BY <1>2, <1>3, <1>10, <2>5 DEF DiscardEvent, Fits, Giri
    <3>2. ds[di + 1].type = "giri"
      BY <3>1 DEF Event
    <3>3. /\ g.ds \in Seq(MoveEvents) /\ Len(g.ds) = Len(ds) /\ g.di = (di + 1) + 1
          /\ \A j \in 1..Len(ds) : j # di + 1 => g.ds[j] = ds[j]
          /\ IsDahai(g.ds[di + 1], a)
      BY <1>6, <2>1, <2>3, <3>1, <3>2
    <3>4. g.ds[di] = ds[di]
      BY <1>1, <3>3
    <3>5. TurnAt(g.ds, a, di, d)
      BY <1>10, <2>2, <3>3, <3>4 DEF TurnAt
    <3> QED
      BY <1>1, <1>7, <2>4, <3>3, <3>5
  <2>6. CASE d.pai # Other
    <3>1. ds[di + 1] = Event("dahai", a, a, d.pai) /\ d.pai \in Tiles
      BY <1>3, <1>10, <2>6 DEF DiscardEvent, DiscardItems
    <3>2. ds[di + 1].type = "dahai" /\ ds[di + 1].actor = a /\ ds[di + 1].pai = d.pai
      BY <3>1 DEF Event
    <3>3. g.ds = ds /\ g.di = di + 2
      BY <1>1, <2>3, <2>6, <3>2 DEF FilledAt
    <3>4. TurnAt(g.ds, a, di, d)
      BY <1>10, <2>2, <3>1, <3>2, <3>3 DEF TurnAt, IsDahai
    <3> QED
      BY <1>1, <1>7, <2>4, <3>3, <3>4
  <2> QED
    BY <2>5, <2>6
<1>11. CASE d.kind \in {"ankan", "kakan"}
  <2>1. ds[di] = Event(d.kind, a, a, d.pai)
    BY <1>3, <1>11 DEF DiscardEvent
  <2>2. ds[di].type = d.kind /\ ds[di].actor = a
    BY <2>1 DEF Event
  <2>3. g = FilledAt(ds, di, take)
    BY <1>1, <1>4, <1>11, <2>2
  <2>4. g.ds = ds /\ g.di = di + 1
    BY <1>11, <2>2, <2>3 DEF FilledAt
  <2>5. TurnAt(g.ds, a, di, d) /\ Width(d) = 1 /\ RawWidth(d) = 1
    BY <1>11, <2>2, <2>4 DEF TurnAt, Width, RawWidth
  <2> QED
    BY <1>1, <1>7, <2>4, <2>5
<1>12. CASE d.kind = "zero"
  <2>1. ds[di] = Event("dahai", a, a, Other)
    BY <1>3, <1>12 DEF DiscardEvent, DiscardItems
  <2>2. ds[di].type = "dahai" /\ ds[di].pai = Other
    BY <2>1 DEF Event
  <2>3. g = FilledAt(ds, di, take)
    BY <1>1, <1>4, <2>2
  <2>4. g.ds = RemoveAt(ds, di) /\ g.di = di
    BY <2>2, <2>3 DEF FilledAt
  <2>5. /\ g.ds \in Seq(MoveEvents) /\ Len(g.ds) = Len(ds) - 1
        /\ \A j \in 1..(di - 1) : g.ds[j] = ds[j]
        /\ \A j \in di..(Len(ds) - 1) : g.ds[j] = ds[j + 1]
    <3>1. di \in 1..Len(ds) /\ ds \in Seq(MoveEvents)
      BY <1>1
    <3>2. /\ RemoveAt(ds, di) \in Seq(MoveEvents) /\ Len(RemoveAt(ds, di)) = Len(ds) - 1
          /\ \A j \in 1..(di - 1) : RemoveAt(ds, di)[j] = ds[j]
          /\ \A j \in di..(Len(ds) - 1) : RemoveAt(ds, di)[j] = ds[j + 1]
      BY <3>1, Removed
    <3> QED
      BY <2>4, <3>2
  <2>6. \A j \in (di + 1)..Len(ds) : g.ds[j + 0 - 1] = ds[j]
    <3> TAKE j \in (di + 1)..Len(ds)
    <3>1. j - 1 \in di..(Len(ds) - 1) /\ (j - 1) + 1 = j /\ j + 0 - 1 = j - 1
      BY <1>1
    <3>2. g.ds[j - 1] = ds[(j - 1) + 1]
      BY <2>5, <3>1
    <3> QED
      BY <3>1, <3>2
  <2>7. TurnAt(g.ds, a, di, d) /\ Width(d) = 0 /\ RawWidth(d) = 1
    BY <1>12 DEF TurnAt, Width, RawWidth
  <2> QED
    BY <1>1, <1>7, <2>4, <2>5, <2>6, <2>7
<1> QED
  BY <1>8, <1>9, <1>10, <1>11, <1>12 DEF DiscardItems

LEMMA FinalizeType ==
  ASSUME NEW ds \in Seq(MoveEvents), NEW di \in Nat \ {0}, NEW take \in MoveEvents
  PROVE  Finalize([di |-> di, ds |-> ds], take) \in [di : Nat \ {0}, ds : Seq(MoveEvents)]
<1> DEFINE i == IF di <= Len(ds) /\ ds[di].type = "reach" THEN di + 1 ELSE di
<1>1. i \in Nat \ {0} /\ Len(ds) \in Nat
  OBVIOUS
<1>2. CASE i > Len(ds)
  <2>1. Finalize([di |-> di, ds |-> ds], take) = [di |-> i, ds |-> ds]
    BY <1>2 DEF Finalize
  <2> QED
    BY <1>1, <2>1
<1>3. CASE i <= Len(ds)
  <2>1. Finalize([di |-> di, ds |-> ds], take) = FilledAt(ds, i, take)
    BY <1>1, <1>3, FinalizeFills
  <2> HIDE DEF i
  <2>2. Event("dahai", take.actor, take.actor, take.pai) \in MoveEvents
    BY DEF Event, MoveEvents
  <2>3. i \in 1..Len(ds)
    BY <1>1, <1>3
  <2>4. [ds EXCEPT ![i] = Event("dahai", take.actor, take.actor, take.pai)] \in Seq(MoveEvents)
    BY <2>2, <2>3, ExceptSeq
  <2>5. RemoveAt(ds, i) \in Seq(MoveEvents)
    BY <2>3, Removed
  <2>6. i + 1 \in Nat \ {0}
    BY <1>1
  <2>7. FilledAt(ds, i, take) \in [di : Nat \ {0}, ds : Seq(MoveEvents)]
    <3>1. CASE ds[i].type = "giri" /\ take.type = "tsumo"
      BY <2>4, <2>6, <3>1 DEF FilledAt
    <3>2. CASE ~(ds[i].type = "giri" /\ take.type = "tsumo")
               /\ ds[i].type = "dahai" /\ ds[i].pai = Other
      BY <1>1, <2>5, <3>2 DEF FilledAt
    <3>3. CASE ~(ds[i].type = "giri" /\ take.type = "tsumo")
               /\ ~(ds[i].type = "dahai" /\ ds[i].pai = Other)
      BY <2>6, <3>3 DEF FilledAt
    <3> QED
      BY <3>1, <3>2, <3>3
  <2> QED
    BY <2>1, <2>7
<1> QED
  BY <1>1, <1>2, <1>3

-----------------------------------------------------------------------------
(***************************************************************************)
(* The events of the discards, before they are finalized.                  *)
(***************************************************************************)

LEMMA DiscardEventsOK ==
  ASSUME NEW a \in Seats, NEW items \in Seq(DiscardItems)
  PROVE  LET u == DiscardEvents(a, items)
         IN /\ u[0] = << >> /\ \A n \in 0..Len(items) : u[n] \in Seq(MoveEvents)
            /\ \A n \in 1..Len(items) : u[n] = u[n - 1] \o DiscardEvent(a, items[n])
<1> DEFINE N == Len(items)
           u == DiscardEvents(a, items)
           S == Seq(MoveEvents)
           Is(f) == f = [n \in 0..N |-> IF n = 0 THEN << >>
                                       ELSE f[n - 1] \o DiscardEvent(a, items[n])]
           step == [p \in (1..N) \X S |-> p[2] \o DiscardEvent(a, items[p[1]])]
<1>0. N \in Nat /\ << >> \in S
  OBVIOUS
<1>1. \A n \in 1..N : items[n] \in DiscardItems /\ DiscardEvent(a, items[n]) \in S
  BY ElementOfSeq, DiscardEventType
<1>2. \A n \in 1..N, q \in S : q \o DiscardEvent(a, items[n]) \in S
  BY <1>1, ConcatProperties
<1>3. step \in [(1..N) \X S -> S]
  BY <1>2
<1>4. \E f : Is(f)
  <2>1. PICK f \in [0..N -> S] : Repeats(f, << >>, step, N)
    <3> HIDE DEF N, S, step
    <3> QED
      BY <1>0, <1>3, Repeat
  <2>2. ASSUME NEW n \in 0..N
        PROVE  f[n] = IF n = 0 THEN << >> ELSE f[n - 1] \o DiscardEvent(a, items[n])
    <3>1. CASE n = 0
      BY <2>1, <3>1 DEF Repeats
    <3>2. CASE n # 0
      <4>1. n \in 1..N /\ n - 1 \in 0..N
        BY <3>2
      <4>2. f[n - 1] \in S
        BY <4>1
      <4>3. <<n, f[n - 1]>> \in (1..N) \X S
        BY <4>1, <4>2
      <4>4. step[<<n, f[n - 1]>>] = f[n - 1] \o DiscardEvent(a, items[n])
        BY <4>3
      <4>5. f[n] = step[<<n, f[n - 1]>>]
        <5> HIDE DEF step
        <5> QED
          BY <2>1, <4>1 DEF Repeats
      <4> QED
        BY <3>2, <4>4, <4>5
    <3> QED
      BY <3>1, <3>2
  <2>3. Is(f)
    BY <2>2
  <2> HIDE DEF Is
  <2> QED
    BY <2>3
<1>5. u = CHOOSE f : Is(f)
  BY DEF DiscardEvents
<1>6. Is(u)
  <2> HIDE DEF Is, u
  <2> QED
    BY <1>4, <1>5
<1>7. u[0] = << >> /\ \A n \in 1..N : u[n] = u[n - 1] \o DiscardEvent(a, items[n])
  <2> HIDE DEF u
  <2> QED
    BY <1>0, <1>6
<1>8. \A n \in 0..N : u[n] \in S
  <2> DEFINE T == {n \in 0..N : u[n] \in S}
  <2>1. 0 \in T
    <3> HIDE DEF u
    <3>1. 0 \in 0..N
      BY <1>0
    <3> QED
      BY <1>0, <1>7, <3>1
  <2>2. ASSUME NEW n \in 1..N, n - 1 \in T PROVE n \in T
    <3> HIDE DEF u, S
    <3>1. n \in 0..N /\ u[n - 1] \in S
      BY <2>2
    <3>2. u[n] \in S
      BY <1>2, <1>7, <3>1
    <3> QED
      BY <3>1, <3>2
  <2>3. 0..N \subseteq T
    <3> HIDE DEF T
    <3> QED
      BY <1>0, <2>1, <2>2, UpTo
  <2> QED
    BY <2>3
<1> QED
  BY <1>7, <1>8

\* Each discard keeps its place in the whole list.
LEMMA RawLaidOut ==
  ASSUME NEW a \in Seats, NEW items \in Seq(DiscardItems)
  PROVE  LET u == DiscardEvents(a, items)
             N == Len(items)
         IN /\ Len(u[0]) = 0 /\ u[N] \in Seq(MoveEvents)
            /\ \A n \in 0..N : Len(u[n]) \in 0..Len(u[N])
            /\ \A n \in 1..N : /\ Len(u[n]) = Len(u[n - 1]) + RawWidth(items[n])
                               /\ RawAt(u[N], a, Len(u[n - 1]) + 1, items[n])
<1> DEFINE N == Len(items)
           u == DiscardEvents(a, items)
           w == [n \in 0..N |-> Len(u[n])]
<1>0. N \in Nat /\ N \in 0..N
  OBVIOUS
<1>1. /\ u[0] = << >> /\ \A n \in 0..N : u[n] \in Seq(MoveEvents)
      /\ \A n \in 1..N : u[n] = u[n - 1] \o DiscardEvent(a, items[n])
  BY DiscardEventsOK
<1> HIDE DEF u
<1>2. \A n \in 0..N : Len(u[n]) \in Nat
  BY <1>1
<1>3. ASSUME NEW n \in 1..N
      PROVE  /\ n - 1 \in 0..N /\ n \in 0..N
             /\ RawWidth(items[n]) \in {1, 2}
             /\ Len(u[n]) = Len(u[n - 1]) + RawWidth(items[n])
             /\ \A j \in 1..Len(u[n - 1]) : u[n][j] = u[n - 1][j]
             /\ \A j \in 1..RawWidth(items[n]) :
                  u[n][Len(u[n - 1]) + j] = DiscardEvent(a, items[n])[j]
  <2>1. items[n] \in DiscardItems
    BY ElementOfSeq
  <2> DEFINE p == u[n - 1]
             q == DiscardEvent(a, items[n])
  <2>2. q \in Seq(MoveEvents) /\ Len(q) = RawWidth(items[n]) /\ RawWidth(items[n]) \in {1, 2}
    BY <2>1, DiscardEventType DEF RawWidth
  <2>3. n - 1 \in 0..N /\ n \in 0..N
    OBVIOUS
  <2>4. p \in Seq(MoveEvents) /\ u[n] = p \o q /\ Len(p) \in Nat
    BY <1>1, <1>2, <2>3
  <2> HIDE DEF p, q
  <2>5. /\ Len(p \o q) = Len(p) + Len(q)
        /\ \A i \in 1..(Len(p) + Len(q)) :
             (p \o q)[i] = IF i <= Len(p) THEN p[i] ELSE q[i - Len(p)]
    BY <2>2, <2>4, ConcatProperties
  <2>6. \A j \in 1..Len(p) : (p \o q)[j] = p[j]
    BY <2>2, <2>4, <2>5
  <2>7. \A j \in 1..Len(q) : (p \o q)[Len(p) + j] = q[j]
    <3> TAKE j \in 1..Len(q)
    <3>1. Len(p) + j \in 1..(Len(p) + Len(q)) /\ ~(Len(p) + j <= Len(p))
          /\ (Len(p) + j) - Len(p) = j
      BY <2>2, <2>4
    <3> QED
      BY <2>5, <3>1
  <2> QED
    BY <2>2, <2>3, <2>4, <2>5, <2>6, <2>7 DEF p, q
<1>4. w \in [0..N -> Nat]
  BY <1>2
<1>5. \A n \in 1..N : w[n - 1] <= w[n] /\ \A j \in 1..w[n - 1] : u[n][j] = u[n - 1][j]
  <2> TAKE n \in 1..N
  <2>1. w[n] = Len(u[n]) /\ w[n - 1] = Len(u[n - 1]) /\ w[n - 1] \in Nat
    BY <1>2, <1>3
  <2> HIDE DEF w
  <2>2. w[n] = w[n - 1] + RawWidth(items[n]) /\ RawWidth(items[n]) \in {1, 2}
    BY <1>3, <2>1
  <2>3. w[n - 1] <= w[n]
    BY <2>1, <2>2
  <2> QED
    BY <1>3, <2>1, <2>3
<1>6. \A n \in 0..N : w[n] <= w[N] /\ \A j \in 1..w[n] : u[N][j] = u[n][j]
  <2> HIDE DEF w, N
  <2> QED
    BY <1>0, <1>4, <1>5, Growing
<1>7. \A n \in 0..N : Len(u[n]) \in 0..Len(u[N]) /\ \A j \in 1..Len(u[n]) : u[N][j] = u[n][j]
  BY <1>0, <1>2, <1>6
<1>8. \A n \in 1..N : RawAt(u[N], a, Len(u[n - 1]) + 1, items[n])
  <2> SUFFICES ASSUME NEW n \in 1..N, NEW j \in 1..RawWidth(items[n])
               PROVE  u[N][Len(u[n - 1]) + 1 + j - 1] = DiscardEvent(a, items[n])[j]
    BY DEF RawAt
  <2>0. Len(u[n - 1]) \in Nat /\ Len(u[n]) \in Nat /\ RawWidth(items[n]) \in {1, 2}
    BY <1>2, <1>3
  <2>1. /\ Len(u[n - 1]) + 1 + j - 1 = Len(u[n - 1]) + j
        /\ Len(u[n - 1]) + j \in 1..Len(u[n])
    BY <1>3, <2>0
  <2>2. u[n][Len(u[n - 1]) + j] = DiscardEvent(a, items[n])[j]
    BY <1>3
  <2>3. u[N][Len(u[n - 1]) + j] = u[n][Len(u[n - 1]) + j]
    BY <1>3, <1>7, <2>1
  <2> QED
    BY <2>1, <2>2, <2>3
<1> QED
  BY <1>0, <1>1, <1>3, <1>7, <1>8 DEF u

-----------------------------------------------------------------------------
(***************************************************************************)
(* What finalize_discards makes of the lists of a seat.                    *)
(***************************************************************************)

\* The lists L and D of a seat as a round leaves them: the take i comes with
\* the discard i, a kan is followed by a draw, and only who has called nothing
\* declares reach.
LegalLists(L, D) ==
  /\ L \in Seq(TakeItems) /\ D \in Seq(DiscardItems)
  /\ Len(D) <= Len(L) /\ Len(L) <= Len(D) + 1
  /\ \A i \in 1..Len(D) :
       /\ Fits(L[i], D[i])
       /\ D[i].kind \in {"ankan", "kakan", "zero"} /\ i < Len(L) => L[i + 1].kind = "tile"
       /\ D[i].kind = "reach" => \A j \in 1..i : L[j].kind = "tile"
       /\ D[i].kind = "kakan" => \E j \in 1..(i - 1) : L[j].kind # "tile"
  /\ Len(L) > Len(D) => L[Len(L)].kind # "daiminkan"

Finals(a, L, D) == Finalized(TakesFrom(a, L), DiscardEvents(a, D)[Len(D)])

LEMMA TakesFromOK ==
  ASSUME NEW a \in Seats, NEW L \in Seq(TakeItems)
  PROVE  /\ TakesFrom(a, L) \in Seq(MoveEvents) /\ Len(TakesFrom(a, L)) = Len(L)
         /\ \A i \in 1..Len(L) : TakesFrom(a, L)[i] = TakeEvent(a, L[i])
<1>1. DOMAIN L = 1..Len(L) /\ Len(L) \in Nat
  OBVIOUS
<1>2. \A i \in 1..Len(L) : TakeEvent(a, L[i]) \in MoveEvents
  BY ElementOfSeq, TakeEventType
<1>3. TakesFrom(a, L) = [i \in 1..Len(L) |-> TakeEvent(a, L[i])]
  BY <1>1 DEF TakesFrom
<1> QED
  BY <1>1, <1>2, <1>3

\* The recursion is what it says.
LEMMA FinalsRecursion ==
  ASSUME NEW a \in Seats, NEW L \in Seq(TakeItems), NEW D \in Seq(DiscardItems)
  PROVE  LET h == Finals(a, L, D)
         IN /\ h[0] = [di |-> 1, ds |-> DiscardEvents(a, D)[Len(D)]]
            /\ \A n \in 0..Len(L) : h[n] \in [di : Nat \ {0}, ds : Seq(MoveEvents)]
            /\ \A n \in 1..Len(L) : h[n] = Finalize(h[n - 1], TakeEvent(a, L[n]))
<1> DEFINE N == Len(L)
           ts == TakesFrom(a, L)
           ds == DiscardEvents(a, D)[Len(D)]
           h == Finals(a, L, D)
           S == [di : Nat \ {0}, ds : Seq(MoveEvents)]
           base == [di |-> 1, ds |-> ds]
           Is(f) == f = [n \in 0..Len(ts) |-> IF n = 0 THEN base ELSE Finalize(f[n - 1], ts[n])]
           step == [p \in (1..N) \X S |-> Finalize(p[2], ts[p[1]])]
<1>0. N \in Nat /\ Len(ts) = N /\ ds \in Seq(MoveEvents) /\ base \in S
  BY TakesFromOK, RawLaidOut
<1>1. \A n \in 1..N : ts[n] = TakeEvent(a, L[n]) /\ ts[n] \in MoveEvents
  <2>1. \A n \in 1..N : L[n] \in TakeItems
    BY ElementOfSeq
  <2> QED
    BY <2>1, TakesFromOK, TakeEventType
<1>2. \A n \in 1..N, q \in S : Finalize(q, ts[n]) \in S
  <2> SUFFICES ASSUME NEW n \in 1..N, NEW q \in S PROVE Finalize(q, ts[n]) \in S
    OBVIOUS
  <2>1. q = [di |-> q.di, ds |-> q.ds] /\ q.di \in Nat \ {0} /\ q.ds \in Seq(MoveEvents)
    OBVIOUS
  <2>2. Finalize([di |-> q.di, ds |-> q.ds], ts[n]) \in S
    BY <1>1, <2>1, FinalizeType
  <2> QED
    BY <2>1, <2>2
<1> HIDE DEF ts, ds, base, S
<1>3. step \in [(1..N) \X S -> S]
  BY <1>2
<1>4. \E f : Is(f)
  <2>1. PICK f \in [0..N -> S] : Repeats(f, base, step, N)
    <3> HIDE DEF N, step
    <3> QED
      BY <1>0, <1>3, Repeat
  <2>2. ASSUME NEW n \in 0..N
        PROVE  f[n] = IF n = 0 THEN base ELSE Finalize(f[n - 1], ts[n])
    <3>1. CASE n = 0
      BY <2>1, <3>1 DEF Repeats
    <3>2. CASE n # 0
      <4>1. n \in 1..N /\ n - 1 \in 0..N
        BY <3>2
      <4>2. <<n, f[n - 1]>> \in (1..N) \X S
        BY <4>1
      <4>3. step[<<n, f[n - 1]>>] = Finalize(f[n - 1], ts[n])
        BY <4>2
      <4>4. f[n] = step[<<n, f[n - 1]>>]
        <5> HIDE DEF step
        <5> QED
          BY <2>1, <4>1 DEF Repeats
      <4> QED
        BY <3>2, <4>3, <4>4
    <3> QED
      BY <3>1, <3>2
  <2>3. Is(f)
    BY <1>0, <2>2
  <2> HIDE DEF Is
  <2> QED
    BY <2>3
<1>5. h = CHOOSE f : Is(f)
  BY DEF Finals, Finalized, ts, ds, base
<1>6. Is(h)
  <2> HIDE DEF Is, h
  <2> QED
    BY <1>4, <1>5
<1>7. h[0] = base /\ \A n \in 1..N : h[n] = Finalize(h[n - 1], ts[n])
  <2> HIDE DEF h
  <2> QED
    BY <1>0, <1>6
<1>8. \A n \in 0..N : h[n] \in S
  <2> DEFINE T == {n \in 0..N : h[n] \in S}
  <2> HIDE DEF h
  <2>1. 0 \in T
    <3>1. 0 \in 0..N
      BY <1>0
    <3> QED
      BY <1>0, <1>7, <3>1
  <2>2. ASSUME NEW n \in 1..N, n - 1 \in T PROVE n \in T
    <3>1. n \in 0..N /\ h[n - 1] \in S
      BY <2>2
    <3>2. h[n] \in S
      BY <1>2, <1>7, <3>1
    <3> QED
      BY <3>1, <3>2
  <2>3. 0..N \subseteq T
    <3> HIDE DEF T
    <3> QED
      BY <1>0, <2>1, <2>2, UpTo
  <2> QED
    BY <2>3
<1> QED
  BY <1>1, <1>7, <1>8 DEF base, ds, S

\* After n takes, the n first discards are finalized, and the rest is as it was.
LEMMA FinalsSteps ==
  ASSUME NEW a \in Seats, NEW L, NEW D, LegalLists(L, D)
  PROVE  LET h == Finals(a, L, D)
             N == Len(D)
         IN /\ \A n \in 1..N : FinalizedAs(h[n - 1], h[n], a, D[n])
            /\ h[N].di = Len(h[N].ds) + 1
            /\ h[Len(L)] = h[N]
<1> DEFINE h == Finals(a, L, D)
           N == Len(D)
           u == DiscardEvents(a, D)
           ds0 == u[N]
           Q(n) == Len(u[n])
           Rest(n) == /\ Len(h[n].ds) = h[n].di - 1 + Len(ds0) - Q(n)
                      /\ \A j \in (Q(n) + 1)..Len(ds0) :
                           h[n].ds[j + h[n].di - 1 - Q(n)] = ds0[j]
<1>0. /\ L \in Seq(TakeItems) /\ D \in Seq(DiscardItems) /\ Len(L) \in Nat /\ N \in Nat
      /\ N <= Len(L) /\ Len(L) <= N + 1
  BY DEF LegalLists
<1>1. /\ h[0] = [di |-> 1, ds |-> ds0]
      /\ \A n \in 0..Len(L) : h[n] \in [di : Nat \ {0}, ds : Seq(MoveEvents)]
      /\ \A n \in 1..Len(L) : h[n] = Finalize(h[n - 1], TakeEvent(a, L[n]))
  BY <1>0, FinalsRecursion
<1>2. /\ Q(0) = 0 /\ ds0 \in Seq(MoveEvents)
      /\ \A n \in 0..N : Q(n) \in 0..Len(ds0)
      /\ \A n \in 1..N : Q(n) = Q(n - 1) + RawWidth(D[n]) /\ RawAt(ds0, a, Q(n - 1) + 1, D[n])
  BY <1>0, RawLaidOut
<1> HIDE DEF h, u
<1>3. Rest(0)
  BY <1>1, <1>2
<1>4. ASSUME NEW n \in 1..N, Rest(n - 1)
      PROVE  FinalizedAs(h[n - 1], h[n], a, D[n]) /\ Rest(n)
  <2> DEFINE f == h[n - 1]
             g == h[n]
             d == D[n]
             r == RawWidth(d)
             w == Width(d)
             q == Q(n - 1)
  <2>1. n \in 1..Len(L) /\ n - 1 \in 0..Len(L) /\ n - 1 \in 0..N /\ n \in 0..N
    BY <1>0
  <2>2. d \in DiscardItems /\ L[n] \in TakeItems /\ Fits(L[n], d)
    BY <1>0, <2>1, ElementOfSeq DEF LegalLists
  <2>3. r \in {1, 2} /\ w \in {0, 1, 2}
    BY DEF RawWidth, Width
  <2>4. /\ f = [di |-> f.di, ds |-> f.ds] /\ f.di \in Nat \ {0} /\ f.ds \in Seq(MoveEvents)
        /\ g = Finalize(f, TakeEvent(a, L[n])) /\ Len(f.ds) \in Nat
    BY <1>1, <2>1
  <2>5. q \in Nat /\ Len(ds0) \in Nat /\ Q(n) = q + r /\ Q(n) <= Len(ds0)
    BY <1>2, <2>1
  <2>6. /\ Len(f.ds) = f.di - 1 + Len(ds0) - q
        /\ \A j \in (q + 1)..Len(ds0) : f.ds[j + f.di - 1 - q] = ds0[j]
    BY <1>4
  <2>7. RawAt(ds0, a, q + 1, d)
    BY <1>2
  <2> HIDE DEF f, g, d, r, w, q, ds0, Q
  <2>8. f.di + r <= Len(f.ds) + 1
    BY <2>3, <2>4, <2>5, <2>6
  <2>9. RawAt(f.ds, a, f.di, d)
    <3> SUFFICES ASSUME NEW j \in 1..r PROVE f.ds[f.di + j - 1] = DiscardEvent(a, d)[j]
      BY DEF RawAt, r
    <3>1. ds0[q + 1 + j - 1] = DiscardEvent(a, d)[j]
      BY <2>7 DEF RawAt, r
    <3>2. q + 1 + j - 1 = q + j /\ q + j \in (q + 1)..Len(ds0)
      BY <2>3, <2>5
    <3>3. (q + j) + f.di - 1 - q = f.di + j - 1
      BY <2>4, <2>5
    <3> QED
      BY <2>6, <3>1, <3>2, <3>3
  <2>10. FinalizedAs(f, g, a, d)
    BY <2>2, <2>4, <2>8, <2>9, FinalizeStep DEF r
  <2>11. /\ g.di = f.di + w /\ Len(g.ds) = Len(f.ds) + w - r
         /\ \A j \in (f.di + r)..Len(f.ds) : g.ds[j + w - r] = f.ds[j]
    BY <2>10 DEF FinalizedAs, w, r
  <2>12. Len(g.ds) = g.di - 1 + Len(ds0) - Q(n)
    <3>1. f.di \in Int /\ q \in Int /\ r \in Int /\ w \in Int /\ Len(ds0) \in Int
      BY <2>3, <2>4, <2>5
    <3>2. Len(g.ds) = f.di - 1 + Len(ds0) - q + w - r
      BY <2>6, <2>11
    <3>3. g.di = f.di + w /\ Q(n) = q + r
      BY <2>5, <2>11
    <3> QED
      BY <3>1, <3>2, <3>3
  <2>13. ASSUME NEW j \in (Q(n) + 1)..Len(ds0)
         PROVE  g.ds[j + g.di - 1 - Q(n)] = ds0[j]
    <3>1. j \in Int /\ q + r + 1 <= j /\ j <= Len(ds0)
      BY <2>3, <2>5
    <3>2. f.di \in Int /\ q \in Int /\ r \in Int /\ w \in Int /\ Len(ds0) \in Int
      BY <2>3, <2>4, <2>5
    <3>3. j \in (q + 1)..Len(ds0)
      BY <2>3, <3>1, <3>2
    <3> DEFINE i == j + f.di - 1 - q
    <3>4. i \in (f.di + r)..Len(f.ds)
      BY SMTT(30), <2>6, <3>1, <3>2
    <3>5. i + w - r = j + g.di - 1 - Q(n)
      BY <2>5, <2>11, <3>1, <3>2
    <3>6. f.ds[i] = ds0[j]
      BY <2>6, <3>3
    <3> HIDE DEF i
    <3>7. g.ds[i + w - r] = f.ds[i]
      BY <2>11, <3>4
    <3> QED
      BY <3>5, <3>6, <3>7
  <2> QED
    BY <2>10, <2>12, <2>13 DEF f, g, d
<1>5. 0..N \subseteq {n \in 0..N : Rest(n)}
  <2> DEFINE T == {n \in 0..N : Rest(n)}
  <2>1. 0 \in T
    <3> HIDE DEF Rest
    <3>1. 0 \in 0..N
      BY <1>0
    <3> QED
      BY <1>3, <3>1
  <2>2. \A n \in 1..N : n - 1 \in T => n \in T
    <3> HIDE DEF Rest
    <3> QED
      BY <1>4
  <2> HIDE DEF T
  <2>3. 0..N \subseteq T
    BY <1>0, <2>1, <2>2, UpTo
  <2> QED
    BY <2>3 DEF T
<1>6. \A n \in 1..N : FinalizedAs(h[n - 1], h[n], a, D[n])
  <2> TAKE n \in 1..N
  <2>1. n - 1 \in 0..N
    BY <1>0
  <2> HIDE DEF Rest
  <2>2. Rest(n - 1)
    BY <1>5, <2>1
  <2> QED
    BY <1>4, <2>2
<1>7. h[N].di = Len(h[N].ds) + 1
  <2>1. Rest(N) /\ N \in 0..Len(L)
    <3> HIDE DEF Rest
    <3>1. N \in 0..N /\ N \in 0..Len(L)
      BY <1>0
    <3> QED
      BY <1>5, <3>1
  <2>2. h[N].di \in Nat /\ Len(ds0) \in Nat
    BY <1>1, <1>2, <2>1
  <2> QED
    BY <2>1, <2>2
<1>8. h[Len(L)] = h[N]
  <2>1. SUFFICES ASSUME Len(L) = N + 1 PROVE h[N + 1] = h[N]
    BY <1>0
  <2> DEFINE f == h[N]
  <2>2. N \in 0..Len(L) /\ N + 1 \in 1..Len(L) /\ (N + 1) - 1 = N
    BY <1>0, <2>1
  <2>3. f \in [di : Nat \ {0}, ds : Seq(MoveEvents)] /\ h[N + 1] = Finalize(f, TakeEvent(a, L[N + 1]))
    BY <1>1, <2>2
  <2>4. ~(f.di <= Len(f.ds)) /\ f.di > Len(f.ds) /\ [f EXCEPT !.di = f.di] = f
    BY <1>7, <2>3
  <2> QED
    BY <2>3, <2>4 DEF Finalize
<1> QED
  BY <1>6, <1>7, <1>8 DEF h

-----------------------------------------------------------------------------
(***************************************************************************)
(* The lists of an attempt are aligned: P[k] discards belong to the first  *)
(* k takes.                                                                *)
(***************************************************************************)

IsTake(m, a) ==
  /\ m.type \in {"tsumo"} \cup Nakis /\ m.actor = a
  /\ m.type \in Nakis => m.pai \in Tiles

DrawsNext(ts, k) == k < Len(ts) => ts[k + 1].type = "tsumo"

\* What follows the take k: nothing, since the draw after the kan comes at once
\* or since the round is over, or a dahai, a reach with its dahai, or a kan.
NoTurn(ts, ds, k, p, q) ==
  /\ q = p
  /\ IF ts[k].type = "daiminkan" THEN DrawsNext(ts, k) ELSE p = Len(ds)
DahaiTurn(a, ts, ds, k, p, q) ==
  q = p + 1 /\ IsDahai(ds[p + 1], a)
ReachTurn(a, ts, ds, k, p, q) ==
  /\ q = p + 2 /\ ds[p + 1].type = "reach" /\ ds[p + 1].actor = a /\ IsDahai(ds[p + 2], a)
  /\ \A j \in 1..k : ts[j].type = "tsumo"
KanTurn(a, ts, ds, k, p, q) ==
  /\ q = p + 1 /\ ds[p + 1].type \in {"ankan", "kakan"} /\ ds[p + 1].actor = a
  /\ ts[k].type = "tsumo" /\ DrawsNext(ts, k)
  /\ ds[p + 1].type = "ankan" => k < Len(ts)
  /\ ds[p + 1].type = "kakan" => \E j \in 1..(k - 1) : IsNaki(ts[j])
Turn(a, ts, ds, k, p, q) ==
  \/ NoTurn(ts, ds, k, p, q)
  \/ ts[k].type # "daiminkan" /\ (\/ DahaiTurn(a, ts, ds, k, p, q)
                                 \/ ReachTurn(a, ts, ds, k, p, q)
                                 \/ KanTurn(a, ts, ds, k, p, q))

Aligned(a, ts, ds, P) ==
  /\ ts \in Seq(MoveEvents) /\ ds \in Seq(MoveEvents)
  /\ P \in [0..Len(ts) -> 0..Len(ds)] /\ P[0] = 0
  /\ \A k \in 1..Len(ts) : IsTake(ts[k], a) /\ Turn(a, ts, ds, k, P[k - 1], P[k])

LEMMA ListsAligned ==
  ASSUME NEW a \in Seats, NEW L, NEW D, LegalLists(L, D),
         \A i \in 1..Len(D) : D[i].kind = "ankan" => i < Len(L)
  PROVE  \E P : Aligned(a, TakesFrom(a, L), DiscardsFrom(a, L, D), P)
<1> DEFINE h == Finals(a, L, D)
           N == Len(D)
           M == Len(L)
           ts == TakesFrom(a, L)
           ds == h[M].ds
           P == [n \in 0..M |-> h[n].di - 1]
           w == [n \in 0..M |-> h[n].di - 1]
           s == [n \in 0..M |-> h[n].ds]
<1>0. /\ L \in Seq(TakeItems) /\ D \in Seq(DiscardItems) /\ M \in Nat /\ N \in Nat
      /\ N <= M /\ M <= N + 1
  BY DEF LegalLists
<1>1. ts \in Seq(MoveEvents) /\ Len(ts) = M /\ \A k \in 1..M : ts[k] = TakeEvent(a, L[k])
  BY <1>0, TakesFromOK
<1>2. /\ h[0].di = 1
      /\ \A n \in 0..M : h[n].di \in Nat \ {0} /\ h[n].ds \in Seq(MoveEvents)
  <2>1. /\ h[0] = [di |-> 1, ds |-> DiscardEvents(a, D)[Len(D)]]
        /\ \A n \in 0..M : h[n] \in [di : Nat \ {0}, ds : Seq(MoveEvents)]
    BY <1>0, FinalsRecursion
  <2> HIDE DEF h
  <2> QED
    BY <2>1
<1>3. /\ \A n \in 1..N : FinalizedAs(h[n - 1], h[n], a, D[n])
      /\ h[N].di = Len(h[N].ds) + 1 /\ h[M] = h[N]
  BY FinalsSteps
<1>4. DiscardsFrom(a, L, D) = ds
  BY DEF DiscardsFrom, Finals
<1> HIDE DEF h, ts
<1>5. ASSUME NEW k \in 1..M
      PROVE  /\ L[k] \in TakeItems /\ IsTake(ts[k], a)
             /\ L[k].kind = "tile" <=> ts[k].type = "tsumo"
             /\ L[k].kind = "daiminkan" <=> ts[k].type = "daiminkan"
             /\ L[k].kind # "tile" <=> IsNaki(ts[k])
  <2>1. L[k] \in TakeItems
    BY <1>0, ElementOfSeq
  <2>2. /\ ts[k].type = (IF L[k].kind = "tile" THEN "tsumo" ELSE L[k].kind)
        /\ ts[k].actor = a /\ ts[k].pai = L[k].pai
    BY <1>1, <2>1, TakeEventType
  <2>3. L[k].kind \in {"tile"} \cup Nakis /\ (L[k].kind \in Nakis => L[k].pai \in Tiles)
    BY <2>1 DEF TakeItems
  <2> QED
    BY <2>1, <2>2, <2>3 DEF IsTake, IsNaki, Nakis
<1>6. \A n \in 1..M : h[n - 1].di <= h[n].di /\ \A j \in 1..(h[n - 1].di - 1) : h[n].ds[j] = h[n - 1].ds[j]
  <2> TAKE n \in 1..M
  <2>1. n - 1 \in 0..M /\ n \in 0..M
    OBVIOUS
  <2>2. CASE n \in 1..N
    <3>1. /\ h[n].di = h[n - 1].di + Width(D[n]) /\ Width(D[n]) \in {0, 1, 2}
          /\ \A j \in 1..(h[n - 1].di - 1) : h[n].ds[j] = h[n - 1].ds[j]
      BY <1>3, <2>2 DEF FinalizedAs, Width, RawWidth
    <3> QED
      BY <1>2, <2>1, <3>1
  <2>3. CASE n \notin 1..N
    <3>1. n = M /\ n - 1 = N
      BY <1>0, <2>3
    <3>2. h[n] = h[n - 1]
      BY <1>3, <3>1
    <3>3. h[n].di \in Nat
      BY <1>2, <2>1
    <3> QED
      BY <3>2, <3>3
  <2> QED
    BY <2>2, <2>3
<1>7. \A n \in 0..M : P[n] <= P[M] /\ \A j \in 1..P[n] : ds[j] = h[n].ds[j]
  <2>1. w \in [0..M -> Nat]
    BY <1>2
  <2>2. \A n \in 1..M : w[n - 1] <= w[n] /\ \A j \in 1..w[n - 1] : s[n][j] = s[n - 1][j]
    <3> TAKE n \in 1..M
    <3>1. n - 1 \in 0..M /\ n \in 0..M
      OBVIOUS
    <3>2. /\ w[n] = h[n].di - 1 /\ w[n - 1] = h[n - 1].di - 1
          /\ s[n] = h[n].ds /\ s[n - 1] = h[n - 1].ds
      BY <3>1
    <3> HIDE DEF w, s
    <3>3. h[n].di \in Nat /\ h[n - 1].di \in Nat
      BY <1>2, <3>1
    <3> QED
      BY <1>6, <3>2, <3>3
  <2>3. \A n \in 0..M : w[n] <= w[M] /\ \A j \in 1..w[n] : s[M][j] = s[n][j]
    <3> HIDE DEF w, s, M
    <3> QED
      BY <1>0, <2>1, <2>2, Growing
  <2> SUFFICES ASSUME NEW n \in 0..M PROVE P[n] <= P[M] /\ \A j \in 1..P[n] : ds[j] = h[n].ds[j]
    OBVIOUS
  <2>4. s[M] = ds /\ s[n] = h[n].ds /\ P = w /\ M \in 0..M
    BY <1>0
  <2> HIDE DEF w, s, P, ds
  <2> QED
    BY <2>3, <2>4
<1>8. P[M] = Len(ds) /\ Len(ds) \in Nat /\ ds \in Seq(MoveEvents)
  <2>1. M \in 0..M
    BY <1>0
  <2>2. P[M] = h[M].di - 1 /\ h[M].di = Len(ds) + 1 /\ ds \in Seq(MoveEvents)
    BY <1>2, <1>3, <2>1
  <2> HIDE DEF P, ds
  <2> QED
    BY <2>2
<1>9. P \in [0..M -> 0..Len(ds)] /\ P[0] = 0
  <2>1. \A n \in 0..M : h[n].di - 1 \in 0..Len(ds)
    <3> TAKE n \in 0..M
    <3>1. P[n] = h[n].di - 1 /\ h[n].di \in Nat \ {0}
      BY <1>2
    <3> HIDE DEF P, ds
    <3> QED
      BY <1>7, <1>8, <3>1
  <2>2. 0 \in 0..M
    BY <1>0
  <2> QED
    BY <1>2, <2>1, <2>2
<1>10. ASSUME NEW k \in 1..M PROVE Turn(a, ts, ds, k, P[k - 1], P[k])
  <2>1. k - 1 \in 0..M /\ k \in 0..M
    OBVIOUS
  <2> DEFINE p == P[k - 1]
             d == D[k]
  <2>2. P[k] = h[k].di - 1 /\ p = h[k - 1].di - 1 /\ p \in Nat /\ P[k] \in Nat
    BY <1>2, <2>1
  <2>3. CASE k \notin 1..N
    <3>1. k = M /\ k - 1 = N /\ M > N
      BY <1>0, <2>3
    <3>2. P[k] = p /\ P[k] = Len(ds)
      BY <1>3, <1>8, <2>2, <3>1
    <3>3. ts[k].type # "daiminkan"
      BY <1>5, <3>1 DEF LegalLists
    <3> QED
      BY <3>2, <3>3 DEF Turn, NoTurn
  <2>4. CASE k \in 1..N
    <3>1. /\ h[k].di = h[k - 1].di + Width(d) /\ TurnAt(h[k].ds, a, h[k - 1].di, d)
      BY <1>3, <2>4 DEF FinalizedAs
    <3>2. \A j \in 1..P[k] : ds[j] = h[k].ds[j]
      BY <1>7, <2>1
    <3>3. d \in DiscardItems /\ Fits(L[k], d)
      BY <1>0, <2>4, ElementOfSeq DEF LegalLists
    <3>4. /\ d.kind \in {"ankan", "kakan", "zero"} /\ k < M => L[k + 1].kind = "tile"
          /\ d.kind = "reach" => \A j \in 1..k : L[j].kind = "tile"
          /\ d.kind = "kakan" => \E j \in 1..(k - 1) : L[j].kind # "tile"
      BY <2>4 DEF LegalLists
    <3>5. d.kind \in {"ankan", "kakan", "zero"} => DrawsNext(ts, k)
      <4> SUFFICES ASSUME d.kind \in {"ankan", "kakan", "zero"}, k < M PROVE ts[k + 1].type = "tsumo"
        BY <1>1 DEF DrawsNext
      <4>1. k + 1 \in 1..M
        OBVIOUS
      <4> QED
        BY <1>5, <3>4, <4>1
    <3>6. d.kind = "zero" <=> ts[k].type = "daiminkan"
      BY <1>5, <3>3 DEF Fits
    <3> HIDE DEF P, ds, d
    <3>7. P[k] = p + Width(d) /\ h[k - 1].di = p + 1 /\ p \in Nat
      <4>1. Width(d) \in {0, 1, 2} /\ h[k - 1].di \in Nat
        BY <1>2, <2>1 DEF Width, RawWidth
      <4> QED
        BY <2>2, <3>1, <4>1
    <3>8. CASE d.kind = "zero"
      BY <2>2, <3>5, <3>6, <3>7, <3>8 DEF Turn, NoTurn, Width
    <3>9. CASE d.kind \in {"tile", "giri"}
      <4>1. P[k] = p + 1 /\ IsDahai(h[k].ds[p + 1], a)
        BY <3>1, <3>7, <3>9 DEF Width, RawWidth, TurnAt
      <4>2. ds[p + 1] = h[k].ds[p + 1]
        BY <3>2, <3>7, <4>1
      <4> QED
        BY <3>6, <3>9, <4>1, <4>2 DEF Turn, DahaiTurn
    <3>10. CASE d.kind = "reach"
      <4>1. /\ P[k] = p + 2 /\ h[k].ds[p + 1].type = "reach" /\ h[k].ds[p + 1].actor = a
            /\ IsDahai(h[k].ds[p + 2], a)
        <5>1. h[k - 1].di + 1 = p + 2
          BY <3>7
        <5> QED
          BY <3>1, <3>7, <3>10, <5>1 DEF Width, RawWidth, TurnAt
      <4>2. ds[p + 1] = h[k].ds[p + 1] /\ ds[p + 2] = h[k].ds[p + 2]
        BY <3>2, <3>7, <4>1
      <4>3. \A j \in 1..k : ts[j].type = "tsumo"
        <5> TAKE j \in 1..k
        <5>1. j \in 1..M
          OBVIOUS
        <5> QED
          BY <1>5, <3>4, <3>10, <5>1
      <4> QED
        BY <3>6, <3>10, <4>1, <4>2, <4>3 DEF Turn, ReachTurn
    <3>11. CASE d.kind \in {"ankan", "kakan"}
      <4>1. P[k] = p + 1 /\ h[k].ds[p + 1].type = d.kind /\ h[k].ds[p + 1].actor = a
        BY <3>1, <3>7, <3>11 DEF Width, RawWidth, TurnAt
      <4>2. ds[p + 1] = h[k].ds[p + 1]
        BY <3>2, <3>7, <4>1
      <4>3. ts[k].type = "tsumo"
        BY <1>5, <3>3, <3>11 DEF Fits
      <4>4. d.kind = "ankan" => k < Len(ts)
        BY <1>1, <2>4 DEF d
      <4>5. d.kind = "kakan" => \E j \in 1..(k - 1) : IsNaki(ts[j])
        <5>1. SUFFICES ASSUME d.kind = "kakan" PROVE \E j \in 1..(k - 1) : IsNaki(ts[j])
          OBVIOUS
        <5>2. PICK j \in 1..(k - 1) : L[j].kind # "tile"
          BY <3>4, <5>1
        <5>3. j \in 1..M
          OBVIOUS
        <5> QED
          BY <1>5, <5>2, <5>3
      <4>6. KanTurn(a, ts, ds, k, p, P[k])
        BY <3>5, <3>11, <4>1, <4>2, <4>3, <4>4, <4>5 DEF KanTurn
      <4> QED
        BY <3>6, <3>11, <4>6 DEF Turn
    <3> QED
      BY <3>3, <3>8, <3>9, <3>10, <3>11 DEF DiscardItems
  <2> QED
    BY <2>3, <2>4
<1>11. Aligned(a, ts, ds, P)
  <2> HIDE DEF P, ds
  <2> QED
    BY <1>1, <1>5, <1>8, <1>9, <1>10 DEF Aligned
<1> QED
  <2> HIDE DEF P, ds
  <2> QED
    BY <1>4, <1>11 DEF ts

-----------------------------------------------------------------------------
(***************************************************************************)
(* The lists that a round leaves are legal.                                *)
(***************************************************************************)

Table == [seat : Seats, stage : {"draw", "hold", "open", "kakan", "over"},
          last : Tiles \cup {Other}, turns : Nat, passes : Nat, seen : [Tiles -> Nat],
          accept : Seats \cup {Nobody}, reached : SUBSET Seats, opened : SUBSET Seats,
          pons : [Seats -> SUBSET Tiles], atDiscard : Nat, atDraw : Nat, byDraw : BOOLEAN]

\* The lists L and D of the seat a at the table t.  After its kan a seat goes on.
SeatOK(a, t, L, D) ==
  /\ LegalLists(L, D)
  /\ \/ t.stage \in {"draw", "kakan", "open"}
     \/ t.stage = "hold" /\ a # t.seat
     => Len(L) = Len(D)
  /\ t.stage = "hold" /\ a = t.seat => Len(L) = Len(D) + 1 /\ L[Len(L)].kind # "tile"
  /\ \A i \in 1..Len(D) : i = Len(L) =>
       /\ D[i].kind \in {"ankan", "zero"} => t.stage = "draw" /\ a = t.seat
       /\ D[i].kind = "kakan" => t.stage \in {"kakan", "over"} /\ a = t.seat
  /\ a \notin t.opened => \A j \in 1..Len(L) : L[j].kind = "tile"
  /\ t.pons[a] # {} => \E j \in 1..Len(L) : L[j].kind # "tile"

RoundInv ==
  /\ table \in Table /\ (table.stage = "open" => table.last \in Tiles)
  /\ indicators \in Nat \ {0}
  /\ takes \in [Seats -> Seq(TakeItems)] /\ discards \in [Seats -> Seq(DiscardItems)]
  /\ \A a \in Seats : SeatOK(a, table, takes[a], discards[a])

\* A take, and a turn of a take and a discard, at the end of lists of one length.
LEMMA LegalTake ==
  ASSUME NEW L, NEW D, LegalLists(L, D), Len(L) = Len(D),
         NEW e \in TakeItems, e.kind # "daiminkan",
         \A i \in 1..Len(D) :
           i = Len(L) /\ D[i].kind \in {"ankan", "kakan", "zero"} => e.kind = "tile"
  PROVE  /\ LegalLists(Append(L, e), D) /\ Len(Append(L, e)) = Len(L) + 1
         /\ Append(L, e)[Len(L) + 1] = e
         /\ \A j \in 1..Len(L) : Append(L, e)[j] = L[j]
<1>1. /\ L \in Seq(TakeItems) /\ D \in Seq(DiscardItems) /\ Len(L) \in Nat
      /\ \A i \in 1..Len(D) :
           /\ Fits(L[i], D[i])
           /\ D[i].kind \in {"ankan", "kakan", "zero"} /\ i < Len(L) => L[i + 1].kind = "tile"
           /\ D[i].kind = "reach" => \A j \in 1..i : L[j].kind = "tile"
           /\ D[i].kind = "kakan" => \E j \in 1..(i - 1) : L[j].kind # "tile"
  BY DEF LegalLists
<1> DEFINE K == Append(L, e)
<1>2. /\ K \in Seq(TakeItems) /\ Len(K) = Len(L) + 1 /\ K[Len(L) + 1] = e
      /\ \A j \in 1..Len(L) : K[j] = L[j]
  BY <1>1, AppendProperties
<1> HIDE DEF K
<1>3. ASSUME NEW i \in 1..Len(D)
      PROVE  /\ Fits(K[i], D[i])
             /\ D[i].kind \in {"ankan", "kakan", "zero"} /\ i < Len(K) => K[i + 1].kind = "tile"
             /\ D[i].kind = "reach" => \A j \in 1..i : K[j].kind = "tile"
             /\ D[i].kind = "kakan" => \E j \in 1..(i - 1) : K[j].kind # "tile"
  <2>1. i \in 1..Len(L) /\ \A j \in 1..i : j \in 1..Len(L) /\ K[j] = L[j]
    BY <1>1, <1>2
  <2>2. Fits(K[i], D[i]) /\ (D[i].kind = "reach" => \A j \in 1..i : K[j].kind = "tile")
    BY <1>1, <2>1
  <2>3. D[i].kind = "kakan" => \E j \in 1..(i - 1) : K[j].kind # "tile"
    BY <1>1, <2>1
  <2>4. D[i].kind \in {"ankan", "kakan", "zero"} => K[i + 1].kind = "tile"
    <3>1. CASE i = Len(L)
      BY <1>2, <3>1
    <3>2. CASE i < Len(L)
      <4>1. i + 1 \in 1..Len(L)
        BY <1>1, <3>2
      <4> QED
        BY <1>1, <1>2, <3>2, <4>1
    <3> QED
      BY <1>1, <2>1, <3>1, <3>2
  <2> QED
    BY <2>2, <2>3, <2>4
<1>4. LegalLists(K, D)
  BY <1>1, <1>2, <1>3 DEF LegalLists
<1> QED
  BY <1>2, <1>4 DEF K

LEMMA LegalDiscard ==
  ASSUME NEW L, NEW D, LegalLists(L, D), Len(L) = Len(D) + 1,
         NEW d \in DiscardItems, Fits(L[Len(L)], d),
         d.kind = "reach" => \A j \in 1..Len(L) : L[j].kind = "tile",
         d.kind = "kakan" => \E j \in 1..Len(D) : L[j].kind # "tile"
  PROVE  /\ LegalLists(L, D \o <<d>>) /\ Len(D \o <<d>>) = Len(D) + 1
         /\ (D \o <<d>>)[Len(D) + 1] = d
<1>1. /\ L \in Seq(TakeItems) /\ D \in Seq(DiscardItems) /\ Len(D) \in Nat
      /\ \A i \in 1..Len(D) :
           /\ Fits(L[i], D[i])
           /\ D[i].kind \in {"ankan", "kakan", "zero"} /\ i < Len(L) => L[i + 1].kind = "tile"
           /\ D[i].kind = "reach" => \A j \in 1..i : L[j].kind = "tile"
           /\ D[i].kind = "kakan" => \E j \in 1..(i - 1) : L[j].kind # "tile"
  BY DEF LegalLists
<1> DEFINE E == D \o <<d>>
<1>2. /\ E \in Seq(DiscardItems) /\ Len(E) = Len(D) + 1 /\ E[Len(D) + 1] = d
      /\ \A j \in 1..Len(D) : E[j] = D[j]
  <2>1. E = Append(D, d)
    BY <1>1, AppendIsConcat
  <2> QED
    BY <1>1, <2>1, AppendProperties
<1> HIDE DEF E
<1>3. ASSUME NEW i \in 1..Len(E)
      PROVE  /\ Fits(L[i], E[i])
             /\ E[i].kind \in {"ankan", "kakan", "zero"} /\ i < Len(L) => L[i + 1].kind = "tile"
             /\ E[i].kind = "reach" => \A j \in 1..i : L[j].kind = "tile"
             /\ E[i].kind = "kakan" => \E j \in 1..(i - 1) : L[j].kind # "tile"
  <2>1. CASE i = Len(D) + 1
    BY <1>1, <1>2, <2>1
  <2>2. CASE i # Len(D) + 1
    <3>1. i \in 1..Len(D)
      BY <1>1, <1>2, <2>2
    <3> QED
      BY <1>1, <1>2, <3>1
  <2> QED
    BY <2>1, <2>2
<1>4. LegalLists(L, E)
  BY <1>1, <1>2, <1>3 DEF LegalLists
<1> QED
  BY <1>2, <1>4 DEF E

LEMMA LegalTurn ==
  ASSUME NEW L, NEW D, LegalLists(L, D), Len(L) = Len(D),
         NEW e \in TakeItems, NEW d \in DiscardItems, Fits(e, d),
         d.kind # "zero" \/ \A i \in 1..Len(D) : i # Len(L) \/ D[i].kind \notin {"ankan", "kakan", "zero"},
         e.kind = "tile" \/ d.kind = "zero",
         d.kind = "reach" => \A j \in 1..Len(L) : L[j].kind = "tile",
         d.kind = "kakan" => \E j \in 1..Len(L) : L[j].kind # "tile"
  PROVE  /\ LegalLists(Append(L, e), D \o <<d>>)
         /\ Len(Append(L, e)) = Len(L) + 1 /\ Len(D \o <<d>>) = Len(L) + 1
         /\ Append(L, e)[Len(L) + 1] = e /\ (D \o <<d>>)[Len(L) + 1] = d
         /\ \A j \in 1..Len(L) : Append(L, e)[j] = L[j]
<1>1. /\ L \in Seq(TakeItems) /\ D \in Seq(DiscardItems) /\ Len(L) \in Nat
      /\ \A i \in 1..Len(D) :
           /\ Fits(L[i], D[i])
           /\ D[i].kind \in {"ankan", "kakan", "zero"} /\ i < Len(L) => L[i + 1].kind = "tile"
           /\ D[i].kind = "reach" => \A j \in 1..i : L[j].kind = "tile"
           /\ D[i].kind = "kakan" => \E j \in 1..(i - 1) : L[j].kind # "tile"
  BY DEF LegalLists
<1> DEFINE K == Append(L, e)
           E == D \o <<d>>
<1>2. /\ K \in Seq(TakeItems) /\ Len(K) = Len(L) + 1 /\ K[Len(L) + 1] = e
      /\ \A j \in 1..Len(L) : K[j] = L[j]
  BY <1>1, AppendProperties
<1>3. /\ E \in Seq(DiscardItems) /\ Len(E) = Len(L) + 1 /\ E[Len(L) + 1] = d
      /\ \A j \in 1..Len(L) : E[j] = D[j]
  <2>1. E = Append(D, d)
    BY <1>1, AppendIsConcat
  <2> QED
    BY <1>1, <2>1, AppendProperties
<1> HIDE DEF K, E
<1>4. ASSUME NEW i \in 1..Len(E)
      PROVE  /\ Fits(K[i], E[i])
             /\ E[i].kind \in {"ankan", "kakan", "zero"} /\ i < Len(K) => K[i + 1].kind = "tile"
             /\ E[i].kind = "reach" => \A j \in 1..i : K[j].kind = "tile"
             /\ E[i].kind = "kakan" => \E j \in 1..(i - 1) : K[j].kind # "tile"
  <2>1. CASE i = Len(L) + 1
    <3>1. i - 1 = Len(L) /\ ~(i < Len(K)) /\ K[i] = e /\ E[i] = d
      BY <1>1, <1>2, <1>3, <2>1
    <3>2. d.kind = "reach" => \A j \in 1..i : K[j].kind = "tile"
      <4> SUFFICES ASSUME d.kind = "reach", NEW j \in 1..i PROVE K[j].kind = "tile"
        OBVIOUS
      <4>1. CASE j = i
        BY <3>1, <4>1
      <4>2. CASE j # i
        <5>1. j \in 1..Len(L)
          BY <1>1, <2>1, <4>2
        <5> QED
          BY <1>2, <5>1
      <4> QED
        BY <4>1, <4>2
    <3>3. d.kind = "kakan" => \E j \in 1..(i - 1) : K[j].kind # "tile"
      BY <1>2, <3>1
    <3> QED
      BY <3>1, <3>2, <3>3
  <2>2. CASE i # Len(L) + 1
    <3>1. i \in 1..Len(D) /\ i \in 1..Len(L) /\ \A j \in 1..i : j \in 1..Len(L) /\ K[j] = L[j]
      BY <1>1, <1>2, <1>3, <2>2
    <3>2. E[i] = D[i]
      BY <1>3, <3>1
    <3>3. Fits(K[i], E[i]) /\ (E[i].kind = "reach" => \A j \in 1..i : K[j].kind = "tile")
      BY <1>1, <3>1, <3>2
    <3>4. E[i].kind = "kakan" => \E j \in 1..(i - 1) : K[j].kind # "tile"
      BY <1>1, <3>1, <3>2
    <3>5. E[i].kind \in {"ankan", "kakan", "zero"} => K[i + 1].kind = "tile"
      <4>1. CASE i = Len(L)
        BY <1>2, <3>1, <3>2, <4>1
      <4>2. CASE i < Len(L)
        <5>1. i + 1 \in 1..Len(L)
          BY <1>1, <4>2
        <5> QED
          BY <1>1, <1>2, <3>1, <3>2, <4>2, <5>1
      <4> QED
        BY <1>1, <3>1, <4>1, <4>2
    <3> QED
      BY <3>3, <3>4, <3>5
  <2> QED
    BY <2>1, <2>2
<1>5. LegalLists(K, E)
  BY <1>1, <1>2, <1>3, <1>4 DEF LegalLists
<1> QED
  BY <1>2, <1>3, <1>5 DEF K, E

\* A seat that neither was nor is to move: its lists are as they were.
LEMMA OtherSeat ==
  ASSUME NEW b, NEW t, NEW u, NEW L, NEW D, SeatOK(b, t, L, D),
         t.stage \in {"draw", "hold", "kakan", "open"}, b # t.seat \/ t.stage = "open",
         u.stage = "hold" => b # u.seat,
         b \in t.opened => b \in u.opened, u.pons[b] = t.pons[b]
  PROVE  SeatOK(b, u, L, D)
<1>1. Len(L) = Len(D)
  BY DEF SeatOK
<1>2. \A i \in 1..Len(D) : i = Len(L) => D[i].kind \notin {"ankan", "kakan", "zero"}
  BY DEF SeatOK
<1> QED
  BY <1>1, <1>2 DEF SeatOK

\* The seat whose turn it is draws and discards or declares a kan.
LEMMA SeatTurn ==
  ASSUME NEW a, NEW t, NEW u, NEW L, NEW D, SeatOK(a, t, L, D),
         t.stage \in {"draw", "kakan"},
         NEW e \in TakeItems, NEW d \in DiscardItems, Fits(e, d), e.kind = "tile", d.kind # "zero",
         d.kind = "reach" => a \notin t.opened, d.kind = "kakan" => t.pons[a] # {},
         a = u.seat, u.opened = t.opened, u.pons = t.pons,
         u.stage = (IF d.kind = "ankan" THEN "draw" ELSE IF d.kind = "kakan" THEN "kakan" ELSE "open")
  PROVE  SeatOK(a, u, Append(L, e), D \o <<d>>)
<1>1. /\ LegalLists(L, D) /\ Len(L) = Len(D) /\ Len(L) \in Nat
      /\ a \notin t.opened => \A j \in 1..Len(L) : L[j].kind = "tile"
      /\ t.pons[a] # {} => \E j \in 1..Len(L) : L[j].kind # "tile"
  BY DEF SeatOK, LegalLists
<1> DEFINE K == Append(L, e)
           E == D \o <<d>>
<1>2. /\ LegalLists(K, E) /\ Len(K) = Len(L) + 1 /\ Len(E) = Len(L) + 1
      /\ K[Len(L) + 1] = e /\ E[Len(L) + 1] = d
      /\ \A j \in 1..Len(L) : K[j] = L[j]
  BY <1>1, LegalTurn
<1> HIDE DEF K, E
<1>3. a \notin u.opened => \A j \in 1..Len(K) : K[j].kind = "tile"
  <2> SUFFICES ASSUME a \notin t.opened, NEW j \in 1..Len(K) PROVE K[j].kind = "tile"
    OBVIOUS
  <2>1. j \in 1..Len(L) \/ j = Len(L) + 1
    BY <1>1, <1>2
  <2> QED
    BY <1>1, <1>2, <2>1
<1>4. u.pons[a] # {} => \E j \in 1..Len(K) : K[j].kind # "tile"
  BY <1>1, <1>2
<1> QED
  BY <1>1, <1>2, <1>3, <1>4 DEF SeatOK, K, E

LEMMA TurnStep ==
  ASSUME RoundInv, table.stage \in {"draw", "kakan"},
         NEW e \in TakeItems, NEW d \in DiscardItems, Fits(e, d), e.kind = "tile", d.kind # "zero",
         d.kind = "reach" => table.seat \notin table.opened,
         d.kind = "kakan" => table.pons[table.seat] # {},
         Took(table.seat, e), PutDown(table.seat, <<d>>),
         table' \in Table, table'.seat = table.seat, table'.opened = table.opened,
         table'.pons = table.pons, table'.stage = "open" => table'.last \in Tiles,
         table'.stage =
           (IF d.kind = "ankan" THEN "draw" ELSE IF d.kind = "kakan" THEN "kakan" ELSE "open"),
         indicators' \in Nat \ {0}
  PROVE  RoundInv'
<1> DEFINE a == table.seat
<1>1. /\ a \in Seats /\ takes \in [Seats -> Seq(TakeItems)] /\ discards \in [Seats -> Seq(DiscardItems)]
      /\ \A b \in Seats : SeatOK(b, table, takes[b], discards[b])
  BY DEF RoundInv, Table
<1>2. takes' = [takes EXCEPT ![a] = Append(takes[a], e)]
  BY DEF Took
<1>3. discards' = [discards EXCEPT ![a] = discards[a] \o <<d>>]
  BY DEF PutDown
<1> HIDE DEF a
<1>4. SeatOK(a, table', Append(takes[a], e), discards[a] \o <<d>>)
  <2>1. /\ SeatOK(a, table, takes[a], discards[a]) /\ a = table'.seat
        /\ d.kind = "reach" => a \notin table.opened
        /\ d.kind = "kakan" => table.pons[a] # {}
    BY <1>1 DEF a
  <2> QED
    BY <2>1, SeatTurn
<1>5. Append(takes[a], e) \in Seq(TakeItems) /\ discards[a] \o <<d>> \in Seq(DiscardItems)
  BY <1>4 DEF SeatOK, LegalLists
<1>6. takes' \in [Seats -> Seq(TakeItems)] /\ discards' \in [Seats -> Seq(DiscardItems)]
  BY <1>1, <1>2, <1>3, <1>5
<1>7. ASSUME NEW b \in Seats PROVE SeatOK(b, table', takes'[b], discards'[b])
  <2>1. CASE b = a
    BY <1>1, <1>2, <1>3, <1>4, <2>1
  <2>2. CASE b # a
    <3>1. takes'[b] = takes[b] /\ discards'[b] = discards[b]
      BY <1>1, <1>2, <1>3, <2>2
    <3>2. SeatOK(b, table, takes[b], discards[b]) /\ b # table.seat
      BY <1>1, <2>2 DEF a
    <3>3. SeatOK(b, table', takes[b], discards[b])
      BY <3>2, OtherSeat
    <3> QED
      BY <3>1, <3>3
  <2> QED
    BY <2>1, <2>2
<1> QED
  BY <1>6, <1>7 DEF RoundInv

LEMMA RoundInit == Init => RoundInv
<1> SUFFICES ASSUME Init PROVE RoundInv
  OBVIOUS
<1>1. table \in Table /\ table.stage = "draw"
  BY DEF Init, Table, Seats
<1>2. takes \in [Seats -> Seq(TakeItems)] /\ discards \in [Seats -> Seq(DiscardItems)]
  BY DEF Init
<1>3. ASSUME NEW a \in Seats PROVE SeatOK(a, table, takes[a], discards[a])
  <2>1. takes[a] = << >> /\ discards[a] = << >> /\ Len(<< >>) = 0
    BY DEF Init
  <2>2. LegalLists(<< >>, << >>)
    BY DEF LegalLists
  <2>3. table.pons[a] = {}
    BY DEF Init
  <2> QED
    BY <1>1, <2>1, <2>2, <2>3 DEF SeatOK
<1>4. indicators \in Nat \ {0}
  BY DEF Init
<1> QED
  BY <1>1, <1>2, <1>3, <1>4 DEF RoundInv

LEMMA RoundStep == RoundInv /\ Play => RoundInv'
<1> SUFFICES ASSUME RoundInv, Play PROVE RoundInv'
  OBVIOUS
<1>1. /\ table \in Table /\ indicators \in Nat \ {0} /\ (table.stage = "open" => table.last \in Tiles)
      /\ takes \in [Seats -> Seq(TakeItems)] /\ discards \in [Seats -> Seq(DiscardItems)]
      /\ \A b \in Seats : SeatOK(b, table, takes[b], discards[b])
  BY DEF RoundInv
<1>2. /\ table.seat \in Seats /\ table.atDraw \in Nat /\ table.atDiscard \in Nat
      /\ table.turns \in Nat /\ table.passes \in Nat /\ table.seen \in [Tiles -> Nat]
      /\ table.last \in Tiles \cup {Other} /\ table.opened \in SUBSET Seats
      /\ table.reached \in SUBSET Seats /\ table.pons \in [Seats -> SUBSET Tiles]
  BY <1>1 DEF Table
<1>3. \A t \in Tiles : Show(t, 1) \in [Tiles -> Nat] /\ Show(t, 4) \in [Tiles -> Nat]
  BY <1>2 DEF Show
<1> DEFINE more == table.turns + 1
           claims == table.reached \cup {table.seat}
<1>10. more \in Nat /\ claims \in SUBSET Seats
  BY <1>2
<1> HIDE DEF more, claims
<1>4. ToDraw => table.stage \in {"draw", "kakan"}
  BY DEF ToDraw
<1>5. /\ \A p \in Tiles \cup {Other} : Item("tile", 0, p) \in TakeItems
      /\ \A p \in Tiles : /\ Item("tile", 0, p) \in DiscardItems
                          /\ Item("ankan", 0, p) \in DiscardItems
                          /\ Item("kakan", 0, p) \in DiscardItems
      /\ \A p \in Tiles \cup {Other} : Item("reach", 0, p) \in DiscardItems
      /\ Item("giri", 0, Other) \in DiscardItems /\ Item("zero", 0, Other) \in DiscardItems
  BY DEF Item, TakeItems, DiscardItems, Nakis, Seats
<1>6. ASSUME NEW t \in Tiles, NEW giri \in BOOLEAN, DrawAndDiscard(t, giri) PROVE RoundInv'
  <2> DEFINE e == Item("tile", 0, IF giri THEN t ELSE Other)
             d == IF giri THEN Item("giri", 0, Other) ELSE Item("tile", 0, t)
  <2>1. e \in TakeItems /\ d \in DiscardItems
    BY <1>5
  <2>2. Fits(e, d) /\ e.kind = "tile" /\ d.kind \in {"tile", "giri"}
    BY DEF Item, Fits, Giri
  <2>3. Took(table.seat, e) /\ PutDown(table.seat, <<d>>)
    BY <1>6 DEF DrawAndDiscard
  <2> HIDE DEF e, d
  <2>4. /\ table.stage \in {"draw", "kakan"}
        /\ indicators' = indicators + table.atDraw + table.atDiscard
        /\ table' = [table EXCEPT !.stage = "open", !.last = t, !.turns = more,
                                  !.seen = Show(t, 1), !.accept = Nobody,
                                  !.atDraw = 0, !.atDiscard = 0]
    BY <1>4, <1>6 DEF DrawAndDiscard, more, claims
  <2>5. table' \in Table /\ table'.seat = table.seat /\ table'.stage = "open" /\ table'.last = t
        /\ table'.opened = table.opened /\ table'.pons = table.pons
    BY <1>1, <1>2, <1>3, <1>10, <2>4 DEF Table
  <2>6. indicators' \in Nat \ {0}
    BY <1>1, <1>2, <2>4
  <2> QED
    BY <2>1, <2>2, <2>3, <2>4, <2>5, <2>6, TurnStep
<1>7. ASSUME NEW t \in Tiles, NEW giri \in BOOLEAN, DrawAndReach(t, giri) PROVE RoundInv'
  <2> DEFINE e == Item("tile", 0, IF giri THEN t ELSE Other)
             d == Item("reach", 0, IF giri THEN Other ELSE t)
  <2>1. e \in TakeItems /\ d \in DiscardItems
    BY <1>5
  <2>2. Fits(e, d) /\ e.kind = "tile" /\ d.kind = "reach"
    BY TilesAssumption DEF Item, Fits, Giri
  <2>3. Took(table.seat, e) /\ PutDown(table.seat, <<d>>) /\ table.seat \notin table.opened
    BY <1>7 DEF DrawAndReach
  <2> HIDE DEF e, d
  <2>4. /\ table.stage \in {"draw", "kakan"}
        /\ indicators' = indicators + table.atDraw + table.atDiscard
        /\ table' = [table EXCEPT !.stage = "open", !.last = t, !.turns = more,
                                  !.seen = Show(t, 1), !.accept = table.seat,
                                  !.reached = claims,
                                  !.atDraw = 0, !.atDiscard = 0]
    BY <1>4, <1>7 DEF DrawAndReach, more, claims
  <2>5. table' \in Table /\ table'.seat = table.seat /\ table'.stage = "open" /\ table'.last = t
        /\ table'.opened = table.opened /\ table'.pons = table.pons
    BY <1>1, <1>2, <1>3, <1>10, <2>4 DEF Table
  <2>6. indicators' \in Nat \ {0}
    BY <1>1, <1>2, <2>4
  <2> QED
    BY <2>1, <2>2, <2>3, <2>4, <2>5, <2>6, TurnStep
<1>8. ASSUME NEW t \in Tiles, DrawAndAnkan(t) PROVE RoundInv'
  <2> DEFINE e == Item("tile", 0, Other)
             d == Item("ankan", 0, t)
  <2>1. e \in TakeItems /\ d \in DiscardItems
    BY <1>5
  <2>2. Fits(e, d) /\ e.kind = "tile" /\ d.kind = "ankan"
    BY DEF Item, Fits, Giri
  <2>3. Took(table.seat, e) /\ PutDown(table.seat, <<d>>)
    BY <1>8 DEF DrawAndAnkan
  <2> HIDE DEF e, d
  <2>4. /\ table.stage \in {"draw", "kakan"}
        /\ indicators' = indicators + table.atDraw + table.atDiscard + 1
        /\ table' = [table EXCEPT !.stage = "draw", !.turns = more, !.seen = Show(t, 4),
                                  !.accept = Nobody, !.atDraw = 0, !.atDiscard = 0]
    BY <1>4, <1>8 DEF DrawAndAnkan, more, claims
  <2>5. table' \in Table /\ table'.seat = table.seat /\ table'.stage = "draw"
        /\ table'.opened = table.opened /\ table'.pons = table.pons
    BY <1>1, <1>2, <1>3, <1>10, <2>4 DEF Table
  <2>6. indicators' \in Nat \ {0}
    BY <1>1, <1>2, <2>4
  <2> QED
    BY <2>1, <2>2, <2>3, <2>4, <2>5, <2>6, TurnStep
<1>9. ASSUME NEW t \in Tiles, DrawAndKakan(t) PROVE RoundInv'
  <2> DEFINE e == Item("tile", 0, t)
             d == Item("kakan", 0, t)
  <2>1. e \in TakeItems /\ d \in DiscardItems
    BY <1>5
  <2>2. Fits(e, d) /\ e.kind = "tile" /\ d.kind = "kakan"
    BY DEF Item, Fits, Giri
  <2>3. Took(table.seat, e) /\ PutDown(table.seat, <<d>>) /\ table.pons[table.seat] # {}
    BY <1>9 DEF DrawAndKakan
  <2> HIDE DEF e, d
  <2>4. /\ table.stage \in {"draw", "kakan"}
        /\ indicators' = indicators + table.atDraw
        /\ table' = [table EXCEPT !.stage = "kakan", !.turns = more, !.seen = Show(t, 1),
                                  !.accept = Nobody, !.atDraw = table.atDiscard,
                                  !.atDiscard = 1]
    BY <1>4, <1>9 DEF DrawAndKakan, more, claims
  <2>5. table' \in Table /\ table'.seat = table.seat /\ table'.stage = "kakan"
        /\ table'.opened = table.opened /\ table'.pons = table.pons
    BY <1>1, <1>2, <1>3, <1>10, <2>4 DEF Table
  <2>6. indicators' \in Nat \ {0}
    BY <1>1, <1>2, <2>4
  <2> QED
    BY <2>1, <2>2, <2>3, <2>4, <2>5, <2>6, TurnStep
<1>11. ASSUME NEW a \in Seats, NEW kind \in {"chi", "pon", "daiminkan"}, Call(a, kind) PROVE RoundInv'
  <2> DEFINE n == (table.seat - a) % 4
             e == Item(kind, n, table.last)
             put == IF kind = "daiminkan" THEN <<Item("zero", 0, Other)>> ELSE << >>
             copies == CASE kind = "chi" -> 0 [] kind = "pon" -> 2 [] OTHER -> 3
             seen == Show(table.last, copies)
             stage == IF kind = "daiminkan" THEN "draw" ELSE "hold"
             opened == table.opened \cup {a}
             pons == [table.pons EXCEPT ![a] = IF kind = "pon" THEN table.pons[a] \cup {table.last}
                                               ELSE table.pons[a]]
             due == IF kind = "daiminkan" THEN 1 ELSE table.atDiscard
  <2>1. table.stage = "open" /\ a # table.seat /\ table.last \in Tiles
    BY <1>1, <1>11 DEF Call
  <2>2. e \in TakeItems /\ e.kind = kind
    <3>1. n \in Seats
      BY <1>2 DEF Seats
    <3> HIDE DEF n
    <3> QED
      BY <2>1, <3>1 DEF Item, TakeItems, Nakis
  <2>3. /\ seen \in [Tiles -> Nat] /\ stage \in {"draw", "hold"} /\ opened \in SUBSET Seats
        /\ pons \in [Seats -> SUBSET Tiles] /\ due \in Nat
        /\ \A b \in Seats : b # a => pons[b] = table.pons[b]
    <3>1. copies \in Nat
      OBVIOUS
    <3> HIDE DEF copies
    <3>2. seen \in [Tiles -> Nat]
      BY <1>2, <2>1, <3>1 DEF Show
    <3> QED
      BY <1>2, <2>1, <3>2
  <2>4. Took(a, e) /\ PutDown(a, put) /\ indicators' = indicators
    BY <1>11 DEF Call
  <2>5. table' = [table EXCEPT !.seat = a, !.stage = stage, !.seen = seen, !.opened = opened,
                               !.accept = Nobody, !.pons = pons, !.atDiscard = due]
    <3>1. table.pons \in [Seats -> SUBSET Tiles]
      BY <1>2
    <3> QED
      BY <1>11, <3>1 DEF Call
  <2>6. stage = "hold" <=> kind # "daiminkan"
    OBVIOUS
  <2>7. a \in opened
    OBVIOUS
  <2>8. \A b \in Seats : b \in table.opened => b \in opened
    OBVIOUS
  <2>9. kind = "daiminkan" => put = <<Item("zero", 0, Other)>>
    OBVIOUS
  <2>10. kind # "daiminkan" => put = << >>
    OBVIOUS
  <2> HIDE DEF n, e, put, copies, seen, stage, opened, pons, due
  <2>11. /\ table' \in Table /\ table'.seat = a /\ table'.stage = stage /\ table'.opened = opened
         /\ table'.pons = pons
    BY <1>1, <1>2, <2>3, <2>5 DEF Table
  <2> DEFINE L == takes[a]
             D == discards[a]
  <2>12. SeatOK(a, table, L, D) /\ Len(L) = Len(D) /\ LegalLists(L, D) /\ Len(L) \in Nat
    BY SMTT(30), <1>1, <2>1 DEF SeatOK, LegalLists
  <2>13. \A i \in 1..Len(D) : i # Len(L) \/ D[i].kind \notin {"ankan", "kakan", "zero"}
    BY <2>1, <2>12 DEF SeatOK
  <2>14. SeatOK(a, table', Append(L, e), D \o put) /\ Append(L, e) \in Seq(TakeItems)
         /\ D \o put \in Seq(DiscardItems)
    <3>1. CASE kind = "daiminkan"
      <4> DEFINE d == Item("zero", 0, Other)
      <4>1. d \in DiscardItems /\ d.kind = "zero" /\ Fits(e, d) /\ put = <<d>>
        BY <1>5, <2>2, <2>9, <3>1 DEF Item, Fits, Giri
      <4> HIDE DEF d, L, D
      <4> DEFINE K == Append(L, e)
                 E == D \o <<d>>
      <4>2. LegalLists(K, E) /\ Len(K) = Len(L) + 1 /\ Len(E) = Len(L) + 1
            /\ K[Len(L) + 1] = e /\ E[Len(L) + 1] = d
        BY <2>2, <2>12, <2>13, <4>1, LegalTurn
      <4> HIDE DEF K, E
      <4>3. \E j \in 1..Len(K) : K[j].kind # "tile"
        BY <2>2, <2>12, <3>1, <4>2
      <4>4. SeatOK(a, table', K, E)
        BY <2>6, <2>7, <2>3, <2>11, <2>12, <3>1, <4>1, <4>2, <4>3 DEF SeatOK
      <4> QED
        BY <4>1, <4>2, <4>4 DEF K, E, LegalLists
    <3>2. CASE kind # "daiminkan"
      <4>1. D \o put = D /\ D \in Seq(DiscardItems)
        BY <1>1, <2>10, <3>2, ConcatEmptySeq
      <4> HIDE DEF L, D
      <4> DEFINE K == Append(L, e)
      <4>2. LegalLists(K, D) /\ Len(K) = Len(L) + 1 /\ K[Len(L) + 1] = e
        BY <2>2, <2>12, <2>13, <3>2, LegalTake
      <4> HIDE DEF K
      <4>3. \E j \in 1..Len(K) : K[j].kind # "tile"
        BY <2>2, <2>12, <4>2
      <4>4. SeatOK(a, table', K, D)
        BY <2>2, <2>6, <2>7, <2>3, <2>11, <2>12, <3>2, <4>2, <4>3 DEF SeatOK
      <4> QED
        BY <4>1, <4>2, <4>4 DEF K, LegalLists
    <3> QED
      BY <3>1, <3>2
  <2>15. takes' = [takes EXCEPT ![a] = Append(L, e)] /\ discards' = [discards EXCEPT ![a] = D \o put]
    BY <2>4 DEF Took, PutDown
  <2>16. takes' \in [Seats -> Seq(TakeItems)] /\ discards' \in [Seats -> Seq(DiscardItems)]
    BY <1>1, <2>14, <2>15
  <2>17. ASSUME NEW b \in Seats PROVE SeatOK(b, table', takes'[b], discards'[b])
    <3>1. CASE b = a
      BY <1>1, <2>14, <2>15, <3>1
    <3>2. CASE b # a
      <4>1. takes'[b] = takes[b] /\ discards'[b] = discards[b]
        BY <1>1, <2>15, <3>2
      <4>2. SeatOK(b, table', takes[b], discards[b])
        BY <1>1, <2>1, <2>3, <2>8, <2>11, <3>2, OtherSeat
      <4> QED
        BY <4>1, <4>2
    <3> QED
      BY <3>1, <3>2
  <2> QED
    BY <1>1, <2>4, <2>3, <2>11, <2>16, <2>17 DEF RoundInv
<1>12. ASSUME NEW t \in Tiles, Discard(t) PROVE RoundInv'
  <2> DEFINE a == table.seat
             d == Item("tile", 0, t)
             L == takes[a]
             D == discards[a]
  <2>1. d \in DiscardItems /\ d.kind = "tile"
    BY <1>5 DEF Item
  <2>2. /\ table.stage = "hold" /\ takes' = takes /\ indicators' = indicators
        /\ discards' = [discards EXCEPT ![a] = D \o <<d>>]
        /\ table' = [table EXCEPT !.stage = "open", !.last = t, !.turns = more, !.seen = Show(t, 1)]
    BY <1>12 DEF Discard, PutDown, more
  <2> HIDE DEF d
  <2>3. table' \in Table /\ table'.seat = a /\ table'.stage = "open" /\ table'.last = t
        /\ table'.opened = table.opened /\ table'.pons = table.pons
    BY <1>1, <1>2, <1>3, <1>10, <2>2 DEF Table
  <2>4. SeatOK(a, table, L, D) /\ Len(L) = Len(D) + 1 /\ LegalLists(L, D) /\ Len(D) \in Nat
    <3>1. SeatOK(a, table, L, D)
      BY <1>1, <1>2
    <3> HIDE DEF L, D
    <3> QED
      BY <2>2, <3>1 DEF SeatOK, LegalLists, a
  <2>5. L[Len(L)].kind # "daiminkan"
    BY <2>4 DEF LegalLists
  <2>6. Fits(L[Len(L)], d)
    BY <2>1, <2>5 DEF Fits, Giri
  <2> HIDE DEF a, L, D
  <2>7. LegalLists(L, D \o <<d>>) /\ Len(D \o <<d>>) = Len(L) /\ (D \o <<d>>)[Len(L)] = d
    BY <2>1, <2>4, <2>6, LegalDiscard
  <2> DEFINE E == D \o <<d>>
  <2> HIDE DEF E
  <2>8. LegalLists(L, E) /\ Len(E) = Len(L) /\ E[Len(L)] = d
    BY <2>7 DEF E
  <2>9. SeatOK(a, table', L, E)
    BY <2>1, <2>3, <2>4, <2>8 DEF SeatOK
  <2>10. discards' \in [Seats -> Seq(DiscardItems)] /\ discards' = [discards EXCEPT ![a] = E]
    BY <1>1, <2>2, <2>8 DEF LegalLists, E
  <2>11. ASSUME NEW b \in Seats PROVE SeatOK(b, table', takes'[b], discards'[b])
    <3>1. CASE b = a
      BY <1>1, <2>2, <2>9, <2>10, <3>1 DEF L
    <3>2. CASE b # a
      <4>1. takes'[b] = takes[b] /\ discards'[b] = discards[b]
        BY <1>1, <2>2, <2>10, <3>2
      <4>2. SeatOK(b, table', takes[b], discards[b])
        BY <1>1, <2>2, <2>3, <3>2, OtherSeat DEF a
      <4> QED
        BY <4>1, <4>2
    <3> QED
      BY <3>1, <3>2
  <2> QED
    BY <1>1, <2>2, <2>3, <2>10, <2>11 DEF RoundInv
<1>13. ASSUME Pass PROVE RoundInv'
  <2> DEFINE next == Shimocha(table.seat)
             passes == table.passes + 1
  <2>1. next \in Seats /\ passes \in Nat
    BY <1>2, SeatTypes
  <2>2. /\ table.stage = "open" /\ takes' = takes /\ discards' = discards /\ indicators' = indicators
        /\ table' = [table EXCEPT !.stage = "draw", !.seat = next, !.passes = passes]
    BY <1>13 DEF Pass
  <2> HIDE DEF next, passes
  <2>3. table' \in Table /\ table'.stage = "draw" /\ table'.opened = table.opened
        /\ table'.pons = table.pons
    BY <1>1, <1>2, <2>1, <2>2 DEF Table
  <2>4. ASSUME NEW b \in Seats PROVE SeatOK(b, table', takes[b], discards[b])
    BY <1>1, <2>2, <2>3, OtherSeat
  <2> QED
    BY <1>1, <2>2, <2>3, <2>4 DEF RoundInv
<1>14. ASSUME EndOnDiscard PROVE RoundInv'
  <2>1. /\ table.stage \in {"open", "kakan"}
        /\ takes' = takes /\ discards' = discards /\ indicators' = indicators
        /\ table' = [table EXCEPT !.stage = "over"]
    BY <1>14 DEF EndOnDiscard
  <2>2. table' \in Table /\ table'.seat = table.seat /\ table'.stage = "over"
        /\ table'.opened = table.opened /\ table'.pons = table.pons
    BY <1>1, <1>2, <2>1 DEF Table
  <2>3. ASSUME NEW b \in Seats PROVE SeatOK(b, table', takes[b], discards[b])
    <3>1. CASE b # table.seat \/ table.stage = "open"
      BY <1>1, <2>1, <2>2, <3>1, OtherSeat
    <3>2. CASE b = table.seat /\ table.stage = "kakan"
      BY <1>1, <2>2, <3>2 DEF SeatOK
    <3> QED
      BY <2>1, <3>1, <3>2
  <2> QED
    BY <1>1, <2>1, <2>2, <2>3 DEF RoundInv
<1>15. ASSUME EndOnDraw PROVE RoundInv'
  <2> DEFINE a == table.seat
             e == Item("tile", 0, Other)
             L == takes[a]
             D == discards[a]
  <2>1. e \in TakeItems /\ e.kind = "tile"
    BY <1>5 DEF Item
  <2>2. /\ table.stage \in {"draw", "kakan"} /\ discards' = discards
        /\ indicators' = indicators + table.atDraw /\ takes' = [takes EXCEPT ![a] = Append(L, e)]
        /\ table' = [table EXCEPT !.stage = "over", !.byDraw = TRUE, !.accept = Nobody, !.atDraw = 0]
    BY <1>4, <1>15 DEF EndOnDraw, Took
  <2> HIDE DEF e
  <2>3. table' \in Table /\ table'.seat = a /\ table'.stage = "over"
        /\ table'.opened = table.opened /\ table'.pons = table.pons
    BY <1>1, <1>2, <2>2 DEF Table
  <2>4. SeatOK(a, table, L, D) /\ Len(L) = Len(D) /\ LegalLists(L, D) /\ Len(D) \in Nat
    <3>1. SeatOK(a, table, L, D)
      BY <1>1, <1>2
    <3> HIDE DEF L, D
    <3> QED
      BY <2>2, <3>1 DEF SeatOK, LegalLists, a
  <2> HIDE DEF a, L, D
  <2> DEFINE K == Append(L, e)
  <2>5. /\ LegalLists(K, D) /\ Len(K) = Len(L) + 1 /\ K[Len(L) + 1] = e
        /\ \A j \in 1..Len(L) : K[j] = L[j]
    BY <2>1, <2>4, LegalTake
  <2> HIDE DEF K
  <2>6. a \notin table.opened => \A j \in 1..Len(K) : K[j].kind = "tile"
    <3> SUFFICES ASSUME a \notin table.opened, NEW j \in 1..Len(K) PROVE K[j].kind = "tile"
      OBVIOUS
    <3>1. j \in 1..Len(L) \/ j = Len(L) + 1
      BY <2>4, <2>5
    <3>2. \A i \in 1..Len(L) : L[i].kind = "tile"
      BY <2>4 DEF SeatOK
    <3> QED
      BY <2>1, <2>5, <3>1, <3>2
  <2>7. table.pons[a] # {} => \E j \in 1..Len(K) : K[j].kind # "tile"
    <3>1. table.pons[a] # {} => \E j \in 1..Len(L) : L[j].kind # "tile"
      BY <2>4 DEF SeatOK
    <3> QED
      BY <2>4, <2>5, <3>1
  <2>8. SeatOK(a, table', K, D)
    BY <2>3, <2>4, <2>5, <2>6, <2>7 DEF SeatOK
  <2>9. takes' \in [Seats -> Seq(TakeItems)] /\ takes' = [takes EXCEPT ![a] = K]
    BY <1>1, <2>2, <2>5 DEF LegalLists, K
  <2>10. ASSUME NEW b \in Seats PROVE SeatOK(b, table', takes'[b], discards'[b])
    <3>1. CASE b = a
      BY <1>1, <2>2, <2>8, <2>9, <3>1 DEF D
    <3>2. CASE b # a
      <4>1. takes'[b] = takes[b] /\ discards'[b] = discards[b]
        BY <1>1, <2>2, <2>9, <3>2
      <4>2. SeatOK(b, table', takes[b], discards[b])
        BY <1>1, <2>2, <2>3, <3>2, OtherSeat DEF a
      <4> QED
        BY <4>1, <4>2
    <3> QED
      BY <3>1, <3>2
  <2>11. indicators' \in Nat \ {0}
    BY <1>1, <1>2, <2>2
  <2> QED
    BY <1>1, <2>2, <2>3, <2>9, <2>10, <2>11 DEF RoundInv
<1> QED
  BY <1>6, <1>7, <1>8, <1>9, <1>11, <1>12, <1>13, <1>14, <1>15 DEF Play

\* The log of a round that is over.
LEMMA RoundAligned ==
  ASSUME RoundInv, Over, NEW a \in Seats
  PROVE  \E P : Aligned(a, TakesOf(a), DiscardsOf(a), P)
<1>1. SeatOK(a, table, takes[a], discards[a])
  BY DEF RoundInv
<1>2. LegalLists(takes[a], discards[a])
  BY <1>1 DEF SeatOK
<1>3. ASSUME NEW i \in 1..Len(discards[a]), discards[a][i].kind = "ankan"
      PROVE  i < Len(takes[a])
  <2>1. i # Len(takes[a])
    BY <1>1, <1>3 DEF SeatOK, Over
  <2>2. Len(discards[a]) <= Len(takes[a]) /\ Len(discards[a]) \in Nat /\ Len(takes[a]) \in Nat
    BY <1>2 DEF LegalLists
  <2> QED
    BY <2>1, <2>2
<1> QED
  BY <1>2, <1>3, ListsAligned DEF TakesOf, DiscardsOf

-----------------------------------------------------------------------------
(***************************************************************************)
(* Lists, element by element.                                              *)
(***************************************************************************)

LEMMA Appended ==
  ASSUME NEW T, NEW s \in Seq(T), NEW x \in T
  PROVE  /\ Append(s, x) \in Seq(T) /\ Len(Append(s, x)) = Len(s) + 1 /\ Len(s) \in Nat
         /\ \A i \in 1..Len(s) : Append(s, x)[i] = s[i] /\ s[i] \in T
         /\ Append(s, x)[Len(s) + 1] = x
<1>1. Len(s) \in Nat /\ \A i \in 1..Len(s) : s[i] \in T
  BY LenProperties, ElementOfSeq
<1>2. /\ Append(s, x) \in Seq(T) /\ Len(Append(s, x)) = Len(s) + 1
      /\ \A i \in 1..Len(s) : Append(s, x)[i] = s[i]
      /\ Append(s, x)[Len(s) + 1] = x
  BY AppendProperties
<1> QED
  BY <1>1, <1>2

\* The first n elements of a list.
First(s, n) == SubSeq(s, 1, n)

LEMMA Firsts ==
  ASSUME NEW T, NEW s \in Seq(T)
  PROVE  /\ Len(s) \in Nat /\ First(s, 0) = << >> /\ First(s, Len(s)) = s
         /\ \A n \in 0..Len(s) : First(s, n) \in Seq(T) /\ Len(First(s, n)) = n
         /\ \A n \in 1..Len(s) : s[n] \in T /\ First(s, n) = Append(First(s, n - 1), s[n])
<1>1. Len(s) \in Nat /\ \A i \in 1..Len(s) : s[i] \in T
  BY LenProperties, ElementOfSeq
<1>2. First(s, 0) = << >> /\ First(s, Len(s)) = s
  <2>1. SubSeq(s, 1, 0) = << >>
    BY SubSeqEmpty
  <2>2. SubSeq(s, 1, Len(s)) = s
    BY SubSeqFull
  <2> QED
    BY <2>1, <2>2 DEF First
<1>3. ASSUME NEW n \in 0..Len(s) PROVE First(s, n) \in Seq(T) /\ Len(First(s, n)) = n
  <2>1. n \in Int /\ 1 \in Int /\ \A i \in 1..n : s[i] \in T
    BY <1>1
  <2>2. /\ SubSeq(s, 1, n) \in Seq(T)
        /\ Len(SubSeq(s, 1, n)) = IF 1 <= n THEN n - 1 + 1 ELSE 0
    BY <2>1, SubSeqProperties
  <2> QED
    BY <2>2 DEF First
<1>4. ASSUME NEW n \in 1..Len(s)
      PROVE  s[n] \in T /\ First(s, n) = Append(First(s, n - 1), s[n])
  <2>1. s[n] \in T /\ First(s, n - 1) \in Seq(T)
    BY <1>1, <1>3
  <2>2. SubSeq(s, 1, n) = SubSeq(s, 1, n - 1) \o <<s[n]>>
    <3>1. 1 \in 1..Len(s)
      BY <1>1
    <3> QED
      BY <3>1, SubSeqRecursiveSecond
  <2>3. Append(First(s, n - 1), s[n]) = First(s, n - 1) \o <<s[n]>>
    BY <2>1, AppendIsConcat
  <2> QED
    BY <2>1, <2>2, <2>3 DEF First
<1> QED
  BY <1>1, <1>2, <1>3, <1>4

\* Every list is made from the empty one by appending.
LEMMA ListInduction ==
  ASSUME NEW T, NEW P \in SUBSET Seq(T), << >> \in P,
         \A s \in P, x \in T : Append(s, x) \in P
  PROVE  Seq(T) \subseteq P
<1> SUFFICES ASSUME NEW s \in Seq(T) PROVE s \in P
  OBVIOUS
<1> DEFINE good == {n \in 0..Len(s) : First(s, n) \in P}
<1>1. /\ Len(s) \in Nat /\ First(s, 0) = << >> /\ First(s, Len(s)) = s
      /\ \A n \in 1..Len(s) : s[n] \in T /\ First(s, n) = Append(First(s, n - 1), s[n])
  BY Firsts
<1>2. 0 \in good
  BY <1>1
<1>3. ASSUME NEW n \in 1..Len(s), n - 1 \in good PROVE n \in good
  <2>1. First(s, n - 1) \in P /\ n \in 0..Len(s) /\ s[n] \in T
    BY <1>1, <1>3
  <2>2. First(s, n) \in P
    BY <1>1, <2>1
  <2> QED
    BY <2>1, <2>2
<1>4. 0..Len(s) \subseteq good
  <2> HIDE DEF good
  <2> QED
    BY <1>1, <1>2, <1>3, UpTo
<1>5. Len(s) \in 0..Len(s)
  BY <1>1
<1>6. First(s, Len(s)) \in P
  BY <1>4, <1>5
<1> QED
  BY <1>1, <1>6

\* Appending to the second of two lists.
LEMMA AppendBehind ==
  ASSUME NEW T, NEW s \in Seq(T), NEW t \in Seq(T), NEW x \in T
  PROVE  s \o Append(t, x) = Append(s \o t, x) /\ s \o t \in Seq(T)
<1>1. <<x>> \in Seq(T) /\ s \o t \in Seq(T)
  BY ConcatProperties
<1>2. Append(t, x) = t \o <<x>> /\ Append(s \o t, x) = (s \o t) \o <<x>>
  BY <1>1, AppendIsConcat
<1> QED
  BY <1>1, <1>2, ConcatAssociative

-----------------------------------------------------------------------------
(***************************************************************************)
(* The elements of a list that are in a set.                               *)
(***************************************************************************)

\* Kept is the recursion it is written as.
Keeps(f, s, S) ==
  /\ f[0] = << >> /\ Kept(s, S) = f[Len(s)]
  /\ \A n \in 1..Len(s) : f[n] = IF s[n] \in S THEN Append(f[n - 1], s[n]) ELSE f[n - 1]

LEMMA KeptRecursion ==
  ASSUME NEW T, NEW s \in Seq(T), NEW S
  PROVE  \E f : Keeps(f, s, S) /\ \A n \in 0..Len(s) : f[n] \in Seq(T \cap S)
<1> DEFINE N == Len(s)
           R == Seq(T \cap S)
           step == [p \in (1..N) \X R |-> IF s[p[1]] \in S THEN Append(p[2], s[p[1]]) ELSE p[2]]
           Is(f) == f = [n \in 0..N |-> IF n = 0 THEN << >>
                                        ELSE IF s[n] \in S THEN Append(f[n - 1], s[n])
                                             ELSE f[n - 1]]
<1>1. N \in Nat /\ << >> \in R /\ \A n \in 1..N : s[n] \in T
  BY LenProperties, ElementOfSeq
<1>2. step \in [(1..N) \X R -> R]
  <2>1. ASSUME NEW n \in 1..N, NEW q \in R
        PROVE  (IF s[n] \in S THEN Append(q, s[n]) ELSE q) \in R
    <3>1. CASE s[n] \in S
      <4>1. s[n] \in T \cap S
        BY <1>1, <3>1
      <4> QED
        BY <3>1, <4>1, AppendProperties
    <3>2. CASE s[n] \notin S
      BY <3>2
    <3> QED
      BY <3>1, <3>2
  <2> HIDE DEF R
  <2> QED
    BY <2>1
<1>3. PICK f \in [0..N -> R] : Repeats(f, << >>, step, N)
  <2> HIDE DEF N, step, R
  <2> QED
    BY <1>1, <1>2, Repeat
<1>4. ASSUME NEW n \in 1..N
      PROVE  f[n] = IF s[n] \in S THEN Append(f[n - 1], s[n]) ELSE f[n - 1]
  <2>1. n - 1 \in 0..N /\ f[n - 1] \in R
    BY <1>1
  <2>2. <<n, f[n - 1]>> \in (1..N) \X R
    BY <2>1
  <2>3. step[<<n, f[n - 1]>>] = IF s[n] \in S THEN Append(f[n - 1], s[n]) ELSE f[n - 1]
    <3> HIDE DEF R, N
    <3> QED
      BY <2>2
  <2>4. f[n] = step[<<n, f[n - 1]>>]
    <3> HIDE DEF step
    <3> QED
      BY <1>3 DEF Repeats
  <2> QED
    BY <2>3, <2>4
<1>5. f[0] = << >>
  BY <1>3 DEF Repeats
<1>6. Is(f)
  <2>1. \A n \in 0..N : n # 0 => n \in 1..N
    BY <1>1
  <2>2. \A n \in 0..N : f[n] = IF n = 0 THEN << >>
                               ELSE IF s[n] \in S THEN Append(f[n - 1], s[n]) ELSE f[n - 1]
    BY <1>4, <1>5, <2>1
  <2> HIDE DEF R, N
  <2> QED
    BY <2>2
<1> DEFINE h == CHOOSE g : Is(g)
<1>7. Is(h)
  <2> HIDE DEF Is
  <2> QED
    BY <1>6
<1>8. Kept(s, S) = h[N]
  BY DEF Kept
<1> HIDE DEF h
<1>9. h[0] = << >> /\ \A n \in 1..N : h[n] = IF s[n] \in S THEN Append(h[n - 1], s[n]) ELSE h[n - 1]
  <2>1. 0 \in 0..N /\ \A n \in 1..N : n \in 0..N /\ n # 0
    BY <1>1
  <2> HIDE DEF N
  <2> QED
    BY <1>7, <2>1
<1>10. \A n \in 0..N : h[n] = f[n]
  <2> DEFINE same == {n \in 0..N : h[n] = f[n]}
  <2>1. 0 \in same
    BY <1>1, <1>5, <1>9
  <2>2. ASSUME NEW n \in 1..N, n - 1 \in same PROVE n \in same
    BY <1>4, <1>9, <2>2
  <2>3. 0..N \subseteq same
    <3> HIDE DEF same
    <3> QED
      BY <1>1, <2>1, <2>2, UpTo
  <2> QED
    BY <2>3
<1>11. \A n \in 0..N : h[n] \in R
  BY <1>10
<1>12. Keeps(h, s, S)
  BY <1>8, <1>9 DEF Keeps
<1> QED
  BY <1>11, <1>12

LEMMA Pair ==
  ASSUME NEW T, NEW x \in T
  PROVE  /\ <<x>> \in Seq(T)
         /\ \A y \in T : <<x, y>> \in Seq(T) /\ <<x, y>> = Append(<<x>>, y)
         /\ \A y, z \in T : <<x, y, z>> \in Seq(T) /\ <<x, y, z>> = Append(<<x, y>>, z)
<1>1. <<x>> \in Seq(T) /\ Len(<<x>>) = 1
  OBVIOUS
<1>2. ASSUME NEW y \in T PROVE <<x, y>> \in Seq(T) /\ <<x, y>> = Append(<<x>>, y)
  <2>1. <<x, y>> \in Seq(T) /\ Len(<<x, y>>) = 2
    OBVIOUS
  <2>2. /\ Append(<<x>>, y) \in Seq(T) /\ Len(Append(<<x>>, y)) = 2
        /\ Append(<<x>>, y)[1] = x /\ Append(<<x>>, y)[2] = y
    BY <1>1, Appended
  <2>3. \A i \in 1..2 : Append(<<x>>, y)[i] = <<x, y>>[i]
    BY <2>2
  <2> QED
    BY <2>1, <2>2, <2>3, SeqEqual
<1>3. ASSUME NEW y \in T, NEW z \in T
      PROVE  <<x, y, z>> \in Seq(T) /\ <<x, y, z>> = Append(<<x, y>>, z)
  <2>1. <<x, y>> \in Seq(T) /\ Len(<<x, y>>) = 2 /\ <<x, y, z>> \in Seq(T) /\ Len(<<x, y, z>>) = 3
    OBVIOUS
  <2>2. /\ Append(<<x, y>>, z) \in Seq(T) /\ Len(Append(<<x, y>>, z)) = 3
        /\ Append(<<x, y>>, z)[1] = x /\ Append(<<x, y>>, z)[2] = y
        /\ Append(<<x, y>>, z)[3] = z
    BY <2>1, Appended
  <2>3. \A i \in 1..3 : Append(<<x, y>>, z)[i] = <<x, y, z>>[i]
    BY <2>2
  <2> QED
    BY <2>1, <2>2, <2>3, SeqEqual
<1> QED
  BY <1>1, <1>2, <1>3

LEMMA KeptAppend ==
  ASSUME NEW T, NEW s \in Seq(T), NEW x \in T, NEW S
  PROVE  Kept(Append(s, x), S) = IF x \in S THEN Append(Kept(s, S), x) ELSE Kept(s, S)
<1> DEFINE t == Append(s, x)
           N == Len(s)
<1>1. /\ t \in Seq(T) /\ Len(t) = N + 1 /\ N \in Nat /\ t[N + 1] = x
      /\ \A i \in 1..N : t[i] = s[i]
  BY Appended
<1>2. PICK f : Keeps(f, s, S)
  BY KeptRecursion
<1>3. PICK g : Keeps(g, t, S)
  <2> HIDE DEF t
  <2> QED
    BY <1>1, KeptRecursion
<1>4. /\ f[0] = << >> /\ Kept(s, S) = f[N]
      /\ \A n \in 1..N : f[n] = IF s[n] \in S THEN Append(f[n - 1], s[n]) ELSE f[n - 1]
  BY <1>2 DEF Keeps
<1>5. /\ g[0] = << >> /\ Kept(t, S) = g[N + 1]
      /\ \A n \in 1..(N + 1) : g[n] = IF t[n] \in S THEN Append(g[n - 1], t[n]) ELSE g[n - 1]
  <2> HIDE DEF t, N
  <2> QED
    BY <1>1, <1>3 DEF Keeps
<1> HIDE DEF t, N
<1>6. \A n \in 0..N : f[n] = g[n]
  <2> DEFINE same == {n \in 0..N : f[n] = g[n]}
  <2>1. 0 \in same
    BY <1>1, <1>4, <1>5
  <2>2. ASSUME NEW n \in 1..N, n - 1 \in same PROVE n \in same
    <3>1. f[n - 1] = g[n - 1] /\ s[n] = t[n] /\ n \in 1..(N + 1) /\ n \in 0..N
      BY <1>1, <2>2
    <3>2. f[n] = g[n]
      BY <1>4, <1>5, <3>1
    <3> QED
      BY <3>1, <3>2
  <2>3. 0..N \subseteq same
    <3> HIDE DEF same
    <3> QED
      BY <1>1, <2>1, <2>2, UpTo
  <2> QED
    BY <2>3
<1>7. N \in 0..N /\ N + 1 \in 1..(N + 1) /\ (N + 1) - 1 = N
  BY <1>1
<1>8. g[N + 1] = IF x \in S THEN Append(f[N], x) ELSE f[N]
  BY <1>1, <1>5, <1>6, <1>7
<1> QED
  BY <1>4, <1>5, <1>8 DEF t

LEMMA KeptEmpty == \A S : Kept(<< >>, S) = << >>
<1> SUFFICES ASSUME NEW S PROVE Kept(<< >>, S) = << >>
  OBVIOUS
<1>1. << >> \in Seq({}) /\ Len(<< >>) = 0
  BY EmptySeq
<1>2. PICK f : Keeps(f, << >>, S)
  BY <1>1, KeptRecursion
<1> QED
  BY <1>1, <1>2 DEF Keeps

\* What is kept is in the set and in the list.
LEMMA KeptElements ==
  ASSUME NEW T, NEW s \in Seq(T), NEW S
  PROVE  Kept(s, S) \in Seq(T \cap S)
<1>1. Len(s) \in 0..Len(s)
  BY LenProperties
<1>2. PICK f : Keeps(f, s, S) /\ \A n \in 0..Len(s) : f[n] \in Seq(T \cap S)
  BY KeptRecursion
<1> QED
  BY <1>1, <1>2 DEF Keeps

LEMMA KeptConcat ==
  ASSUME NEW T, NEW s \in Seq(T), NEW S
  PROVE  \A t \in Seq(T) : Kept(s \o t, S) = Kept(s, S) \o Kept(t, S)
<1> DEFINE P == {t \in Seq(T) : Kept(s \o t, S) = Kept(s, S) \o Kept(t, S)}
<1>1. << >> \in P
  <2>1. << >> \in Seq(T) /\ s \o << >> = s
    BY EmptySeq, ConcatEmptySeq
  <2>2. Kept(s, S) \o << >> = Kept(s, S)
    BY KeptElements, ConcatEmptySeq
  <2> QED
    BY <2>1, <2>2, KeptEmpty
<1>2. ASSUME NEW t \in P, NEW x \in T PROVE Append(t, x) \in P
  <2>1. /\ t \in Seq(T) /\ Append(t, x) \in Seq(T) /\ s \o t \in Seq(T)
        /\ s \o Append(t, x) = Append(s \o t, x)
    BY Appended, AppendBehind
  <2>2. /\ Kept(Append(s \o t, x), S) =
             IF x \in S THEN Append(Kept(s \o t, S), x) ELSE Kept(s \o t, S)
        /\ Kept(Append(t, x), S) = IF x \in S THEN Append(Kept(t, S), x) ELSE Kept(t, S)
    <3>1. ASSUME NEW u \in Seq(T)
          PROVE  Kept(Append(u, x), S) = IF x \in S THEN Append(Kept(u, S), x) ELSE Kept(u, S)
      BY KeptAppend
    <3> QED
      BY <2>1, <3>1
  <2>3. x \in S => Kept(s, S) \o Append(Kept(t, S), x) = Append(Kept(s, S) \o Kept(t, S), x)
    <3>1. Kept(s, S) \in Seq(T \cap S) /\ Kept(t, S) \in Seq(T \cap S)
      BY <2>1, KeptElements
    <3> QED
      BY <3>1, AppendBehind
  <2>4. Kept(s \o t, S) = Kept(s, S) \o Kept(t, S)
    BY <1>2
  <2> QED
    BY <2>1, <2>2, <2>3, <2>4
<1>3. Seq(T) \subseteq P
  <2> HIDE DEF P
  <2>1. P \in SUBSET Seq(T)
    BY DEF P
  <2> QED
    BY <1>1, <1>2, <2>1, ListInduction
<1> QED
  BY <1>3

\* Only the elements of the list decide.
LEMMA KeptSame ==
  ASSUME NEW T, NEW S1, NEW S2, \A x \in T : x \in S1 <=> x \in S2
  PROVE  \A s \in Seq(T) : Kept(s, S1) = Kept(s, S2)
<1> DEFINE P == {s \in Seq(T) : Kept(s, S1) = Kept(s, S2)}
<1>1. << >> \in P
  BY EmptySeq, KeptEmpty
<1>2. ASSUME NEW s \in P, NEW x \in T PROVE Append(s, x) \in P
  <2>1. Append(s, x) \in Seq(T)
    BY Appended
  <2>2. /\ Kept(Append(s, x), S1) = IF x \in S1 THEN Append(Kept(s, S1), x) ELSE Kept(s, S1)
        /\ Kept(Append(s, x), S2) = IF x \in S2 THEN Append(Kept(s, S2), x) ELSE Kept(s, S2)
    <3>1. ASSUME NEW S
          PROVE  Kept(Append(s, x), S) = IF x \in S THEN Append(Kept(s, S), x) ELSE Kept(s, S)
      BY KeptAppend
    <3> QED
      BY <3>1
  <2>3. Kept(s, S1) = Kept(s, S2) /\ (x \in S1 <=> x \in S2)
    BY <1>2
  <2>4. Kept(Append(s, x), S1) = Kept(Append(s, x), S2)
    BY <2>2, <2>3
  <2> QED
    BY <2>1, <2>4
<1>3. Seq(T) \subseteq P
  <2> HIDE DEF P
  <2>1. P \in SUBSET Seq(T)
    BY DEF P
  <2> QED
    BY <1>1, <1>2, <2>1, ListInduction
<1> QED
  BY <1>3

LEMMA KeptNone ==
  ASSUME NEW T, NEW S, \A x \in T : x \notin S
  PROVE  \A s \in Seq(T) : Kept(s, S) = << >>
<1> DEFINE P == {s \in Seq(T) : Kept(s, S) = << >>}
<1>1. << >> \in P
  BY EmptySeq, KeptEmpty
<1>2. ASSUME NEW s \in P, NEW x \in T PROVE Append(s, x) \in P
  BY Appended, KeptAppend
<1>3. Seq(T) \subseteq P
  <2> HIDE DEF P
  <2>1. P \in SUBSET Seq(T)
    BY DEF P
  <2> QED
    BY <1>1, <1>2, <2>1, ListInduction
<1> QED
  BY <1>3

\* Short lists.
LEMMA KeptShort ==
  ASSUME NEW S, NEW x
  PROVE  /\ Kept(<<x>>, S) = IF x \in S THEN <<x>> ELSE << >>
         /\ \A y : Kept(<<x, y>>, S) = IF x \in S THEN IF y \in S THEN <<x, y>> ELSE <<x>>
                                       ELSE IF y \in S THEN <<y>> ELSE << >>
<1>1. ASSUME NEW z PROVE Kept(<<z>>, S) = IF z \in S THEN <<z>> ELSE << >>
  <2>1. << >> \in Seq({z}) /\ z \in {z}
    BY EmptySeq
  <2>2. Kept(Append(<< >>, z), S) = IF z \in S THEN Append(Kept(<< >>, S), z) ELSE Kept(<< >>, S)
    BY <2>1, KeptAppend
  <2>3. Append(<< >>, z) = <<z>> /\ Kept(<< >>, S) = << >>
    BY KeptEmpty
  <2> QED
    BY <2>2, <2>3
<1>2. ASSUME NEW y
      PROVE  Kept(<<x, y>>, S) = IF x \in S THEN IF y \in S THEN <<x, y>> ELSE <<x>>
                                 ELSE IF y \in S THEN <<y>> ELSE << >>
  <2>1. <<x>> \in Seq({x, y}) /\ y \in {x, y}
    OBVIOUS
  <2>2. Kept(Append(<<x>>, y), S) = IF y \in S THEN Append(Kept(<<x>>, S), y) ELSE Kept(<<x>>, S)
    BY <2>1, KeptAppend
  <2>3. Append(<<x>>, y) = <<x, y>> /\ Append(<< >>, y) = <<y>>
    <3>1. <<x, y>> = Append(<<x>>, y)
      BY Pair
    <3>2. Append(<< >>, y) = <<y>>
      OBVIOUS
    <3> QED
      BY <3>1, <3>2
  <2>4. Kept(<<x>>, S) = IF x \in S THEN <<x>> ELSE << >>
    BY <1>1
  <2> QED
    BY <2>2, <2>3, <2>4
<1> QED
  BY <1>1, <1>2

LEMMA KeptAll ==
  ASSUME NEW S
  PROVE  \A s \in Seq(S) : Kept(s, S) = s
<1> DEFINE P == {s \in Seq(S) : Kept(s, S) = s}
<1>1. << >> \in P
  BY EmptySeq, KeptEmpty
<1>2. ASSUME NEW s \in P, NEW x \in S PROVE Append(s, x) \in P
  BY Appended, KeptAppend
<1>3. Seq(S) \subseteq P
  <2> HIDE DEF P
  <2>1. P \in SUBSET Seq(S)
    BY DEF P
  <2> QED
    BY <1>1, <1>2, <2>1, ListInduction
<1> QED
  BY <1>3

LEMMA KeptRange ==
  ASSUME NEW T, NEW s \in Seq(T), NEW A, NEW S,
         \A x \in {s[i] : i \in DOMAIN s} : x \in A <=> x \in S
  PROVE  Kept(s, A) = Kept(s, S)
<1> DEFINE R == {s[i] : i \in DOMAIN s}
<1>1. Len(s) \in Nat /\ DOMAIN s = 1..Len(s)
  BY LenProperties
<1>2. s \in Seq(R)
  <2>1. s = [i \in 1..Len(s) |-> s[i]]
    BY <1>1
  <2>2. \A i \in 1..Len(s) : s[i] \in R
    BY <1>1
  <2> HIDE DEF R
  <2> QED
    BY <1>1, <2>1, <2>2
<1>3. \A x \in R : x \in A <=> x \in S
  OBVIOUS
<1> HIDE DEF R
<1> QED
  BY <1>2, <1>3, KeptSame

-----------------------------------------------------------------------------
(***************************************************************************)
(* The events of a round: which of them may follow which, and how the last *)
(* of them goes with the table.                                            *)
(***************************************************************************)

RoundEvents ==
  {e \in [type : {"tsumo", "dahai", "reach", "reach_accepted", "ankan", "kakan"} \cup Nakis,
          actor : Seats, target : Seats, pai : Tiles \cup {Other}] :
     e.type = "ankan" => e.target = e.actor}

Follows(x, y) ==
  /\ x.type = "tsumo" => y.type \in {"dahai", "reach", "ankan", "kakan"}
  /\ x.type = "reach" => y.type = "dahai" /\ x = Event("reach", y.actor, y.actor, Other)
  /\ x.type = "dahai" => y.type \in {"tsumo", "reach_accepted"} \cup Nakis
  /\ x.type = "reach_accepted" => y.type \in {"tsumo"} \cup Nakis
  /\ x.type \in {"ankan", "kakan", "daiminkan"} => y.type = "tsumo"
  /\ x.type \in {"chi", "pon"} => y.type = "dahai"

Chain(s) ==
  /\ s \in Seq(RoundEvents)
  /\ s # << >> => s[1].type = "tsumo"
  /\ \A i \in 2..Len(s) : Follows(s[i - 1], s[i])

\* the last event of a round goes with the table
LastIs(s, types, a) == s # << >> /\ s[Len(s)].type \in types /\ s[Len(s)].actor = a
LastFits(s, t) ==
  /\ t.stage = "draw" =>
       s = << >> \/ \E a \in Seats : LastIs(s, {"dahai", "ankan", "daiminkan"}, a)
  /\ t.stage = "kakan" => LastIs(s, {"kakan"}, t.seat)
  /\ t.stage = "open" => LastIs(s, {"dahai"}, t.seat)
  /\ t.stage = "hold" => LastIs(s, {"chi", "pon"}, t.seat)
  /\ t.stage = "over" => LastIs(s, IF t.byDraw THEN {"tsumo"} ELSE {"dahai", "kakan"}, t.seat)
  /\ t.stage # "over" => ~t.byDraw
  /\ t.accept # Nobody => t.accept \in Seats /\ \E a \in Seats : LastIs(s, {"dahai"}, a)

PlayedInv == Chain(played) /\ LastFits(played, table)

LEMMA ChainAppend ==
  ASSUME NEW s, Chain(s), NEW e \in RoundEvents,
         s = << >> => e.type = "tsumo", s # << >> => Follows(s[Len(s)], e)
  PROVE  /\ Chain(Append(s, e)) /\ Append(s, e) # << >>
         /\ Append(s, e)[Len(Append(s, e))] = e
<1>1. s \in Seq(RoundEvents) /\ Len(s) \in Nat /\ (Len(s) = 0 <=> s = << >>)
  BY EmptySeq DEF Chain
<1>2. /\ Append(s, e) \in Seq(RoundEvents) /\ Len(Append(s, e)) = Len(s) + 1
      /\ \A i \in 1..Len(s) : Append(s, e)[i] = s[i]
      /\ Append(s, e)[Len(s) + 1] = e
  BY <1>1, Appended
<1>3. Append(s, e) # << >>
  BY <1>1, <1>2, EmptySeq
<1>4. Append(s, e)[1].type = "tsumo"
  <2>1. CASE s = << >>
    BY <1>1, <1>2, <2>1
  <2>2. CASE s # << >>
    BY <1>1, <1>2, <2>2 DEF Chain
  <2> QED
    BY <2>1, <2>2
<1>5. ASSUME NEW i \in 2..(Len(s) + 1) PROVE Follows(Append(s, e)[i - 1], Append(s, e)[i])
  <2>1. i - 1 \in 1..Len(s) /\ Append(s, e)[i - 1] = s[i - 1]
    BY <1>1, <1>2
  <2>2. CASE i = Len(s) + 1
    <3>1. i - 1 = Len(s) /\ s # << >> /\ Append(s, e)[i] = e
      BY <1>1, <1>2, <2>1, <2>2
    <3> QED
      BY <2>1, <3>1
  <2>3. CASE i # Len(s) + 1
    <3>1. i \in 2..Len(s) /\ i \in 1..Len(s)
      BY <1>1, <2>3
    <3>2. Append(s, e)[i] = s[i] /\ Follows(s[i - 1], s[i])
      BY <1>2, <3>1 DEF Chain
    <3> QED
      BY <2>1, <3>2
  <2> QED
    BY <2>2, <2>3
<1> QED
  BY <1>2, <1>3, <1>4, <1>5 DEF Chain

\* Up to three events at the end of a list.
LEMMA Lengthened ==
  ASSUME NEW T, NEW s \in Seq(T)
  PROVE  /\ s \o << >> = s
         /\ \A x \in T : s \o <<x>> = Append(s, x)
         /\ \A x, y \in T : s \o <<x, y>> = Append(Append(s, x), y)
         /\ \A x, y, z \in T : s \o <<x, y, z>> = Append(Append(Append(s, x), y), z)
<1>1. s \o << >> = s
  BY ConcatEmptySeq
<1>2. ASSUME NEW x \in T PROVE s \o <<x>> = Append(s, x)
  BY AppendIsConcat
<1>3. ASSUME NEW x \in T, NEW y \in T PROVE s \o <<x, y>> = Append(Append(s, x), y)
  <2>1. <<x>> \in Seq(T) /\ <<x, y>> = Append(<<x>>, y)
    BY Pair
  <2> QED
    BY <1>2, <2>1, AppendBehind
<1>4. ASSUME NEW x \in T, NEW y \in T, NEW z \in T
      PROVE  s \o <<x, y, z>> = Append(Append(Append(s, x), y), z)
  <2>1. <<x, y>> \in Seq(T) /\ <<x, y, z>> = Append(<<x, y>>, z)
    BY Pair
  <2> QED
    BY <1>3, <2>1, AppendBehind
<1> QED
  BY <1>1, <1>2, <1>3, <1>4

\* What is played next, after the acceptance of a reach that waits for it.
LEMMA AfterAccepted ==
  ASSUME PlayedInv, table \in Table, NEW e \in RoundEvents,
         \/ table.stage \in {"draw", "kakan"} /\ e.type = "tsumo"
         \/ table.stage = "open" /\ e.type \in Nakis
         \/ table.stage = "hold" /\ e.type = "dahai"
  PROVE  /\ played \o Accepted \in Seq(RoundEvents)
         /\ Chain(Append(played \o Accepted, e)) /\ Append(played \o Accepted, e) # << >>
         /\ Append(played \o Accepted, e)[Len(Append(played \o Accepted, e))] = e
<1> DEFINE s == played \o Accepted
           q == played[Len(played)]
<1>1. Chain(played) /\ LastFits(played, table) /\ played \in Seq(RoundEvents)
  BY DEF PlayedInv, Chain
<1>2. CASE table.accept = Nobody
  <2>1. s = played
    BY <1>1, <1>2, Lengthened DEF Accepted
  <2>2. played = << >> => e.type = "tsumo"
    BY <1>1 DEF LastFits, LastIs
  <2>3. played # << >> => Follows(q, e)
    <3>1. CASE table.stage = "draw"
      BY <1>1, <3>1 DEF LastFits, LastIs, Follows
    <3>2. CASE table.stage = "kakan"
      BY <1>1, <3>2 DEF LastFits, LastIs, Follows
    <3>3. CASE table.stage = "open"
      BY <1>1, <3>3 DEF LastFits, LastIs, Follows
    <3>4. CASE table.stage = "hold"
      BY <1>1, <3>4 DEF LastFits, LastIs, Follows
    <3> QED
      BY <3>1, <3>2, <3>3, <3>4
  <2> HIDE DEF q
  <2> QED
    BY <1>1, <2>1, <2>2, <2>3, ChainAppend DEF q
<1>3. CASE table.accept # Nobody
  <2> DEFINE r == Event("reach_accepted", table.accept, table.accept, Other)
  <2>1. table.accept \in Seats /\ played # << >> /\ q.type = "dahai"
    BY <1>1, <1>3 DEF LastFits, LastIs
  <2>2. r \in RoundEvents /\ r.type = "reach_accepted"
    BY <2>1 DEF RoundEvents, Event
  <2> HIDE DEF r
  <2>3. s = Append(played, r)
    BY <1>1, <1>3, <2>2, Lengthened DEF Accepted, r
  <2>4. Follows(q, r)
    BY <2>1, <2>2 DEF Follows
  <2>5. Chain(s) /\ s # << >> /\ s[Len(s)] = r
    BY <1>1, <2>1, <2>2, <2>3, <2>4, ChainAppend
  <2>6. table.stage # "hold"
    BY <1>1, <2>1 DEF LastFits, LastIs
  <2>7. Follows(r, e)
    BY <2>2, <2>6 DEF Follows
  <2> HIDE DEF s
  <2>8. s \in Seq(RoundEvents)
    BY <2>5 DEF Chain
  <2> QED
    BY <2>5, <2>7, <2>8, ChainAppend DEF s
<1> QED
  BY <1>2, <1>3

LEMMA PlayedInit == Init => PlayedInv
<1> SUFFICES ASSUME Init PROVE PlayedInv
  OBVIOUS
<1>1. played = << >> /\ table.stage = "draw" /\ table.accept = Nobody /\ ~table.byDraw
  BY DEF Init
<1>2. Chain(<< >>)
  BY EmptySeq DEF Chain
<1> QED
  BY <1>1, <1>2 DEF PlayedInv, LastFits

\* A turn: a draw, and up to two events after it.
LEMMA PlayedTurn ==
  ASSUME PlayedInv, table \in Table, table' \in Table, ToDraw,
         NEW x \in RoundEvents, x.type = "tsumo", NEW more \in Seq(RoundEvents),
         Played(<<x>> \o more),
         \/ more = << >>
         \/ \E y \in RoundEvents : more = <<y>> /\ Follows(x, y)
         \/ \E y, z \in RoundEvents : more = <<y, z>> /\ Follows(x, y) /\ Follows(y, z)
  PROVE  /\ Chain(played') /\ played' # << >>
         /\ played'[Len(played')] = (IF more = << >> THEN x ELSE more[Len(more)])
<1> DEFINE s == played \o Accepted
           u == Append(s, x)
<1>1. table.stage \in {"draw", "kakan"}
  BY DEF ToDraw
<1>2. s \in Seq(RoundEvents) /\ Chain(u) /\ u # << >> /\ u[Len(u)] = x
  BY <1>1, AfterAccepted
<1>3. played' = s \o (<<x>> \o more)
  BY DEF Played
<1> HIDE DEF s
<1>4. played' = u \o more /\ u \in Seq(RoundEvents)
  <2>1. <<x>> \in Seq(RoundEvents) /\ s \o <<x>> = u
    BY <1>2, Pair, Lengthened
  <2>2. s \o (<<x>> \o more) = (s \o <<x>>) \o more
    BY <1>2, <2>1, ConcatAssociative
  <2> QED
    BY <1>2, <1>3, <2>1, <2>2 DEF Chain
<1> HIDE DEF u
<1>5. CASE more = << >>
  BY <1>2, <1>4, <1>5, Lengthened
<1>6. ASSUME NEW y \in RoundEvents, more = <<y>>, Follows(x, y)
      PROVE  /\ Chain(played') /\ played' # << >>
             /\ played'[Len(played')] = (IF more = << >> THEN x ELSE more[Len(more)])
  <2>1. played' = Append(u, y)
    BY <1>4, <1>6, Lengthened
  <2>2. more # << >> /\ more[Len(more)] = y
    BY <1>6
  <2> QED
    BY <1>2, <1>6, <2>1, <2>2, ChainAppend
<1>7. ASSUME NEW y \in RoundEvents, NEW z \in RoundEvents, more = <<y, z>>, Follows(x, y), Follows(y, z)
      PROVE  /\ Chain(played') /\ played' # << >>
             /\ played'[Len(played')] = (IF more = << >> THEN x ELSE more[Len(more)])
  <2>1. played' = Append(Append(u, y), z)
    BY <1>4, <1>7, Lengthened
  <2>2. more # << >> /\ more[Len(more)] = z
    BY <1>7
  <2>3. Chain(Append(u, y)) /\ Append(u, y) # << >> /\ Append(u, y)[Len(Append(u, y))] = y
    BY <1>2, <1>7, ChainAppend
  <2> DEFINE v == Append(u, y)
  <2>4. Chain(Append(v, z)) /\ Append(v, z) # << >> /\ Append(v, z)[Len(Append(v, z))] = z
    <3> HIDE DEF v
    <3> QED
      BY <1>7, <2>3, ChainAppend DEF v
  <2> QED
    BY <2>1, <2>2, <2>4
<1> QED
  BY <1>5, <1>6, <1>7

LEMMA PlayedStep == RoundInv /\ PlayedInv /\ Play => PlayedInv'
<1> SUFFICES ASSUME RoundInv, PlayedInv, Play PROVE PlayedInv'
  OBVIOUS
<1>1. table \in Table /\ (table.stage = "open" => table.last \in Tiles) /\ table.seat \in Seats
  BY DEF RoundInv, Table
<1>2. table' \in Table
  BY RoundStep DEF RoundInv
<1>3. Chain(played) /\ LastFits(played, table)
  BY DEF PlayedInv
<1> DEFINE x(p) == Event("tsumo", table.seat, table.seat, p)
           y(type, p) == Event(type, table.seat, table.seat, p)
<1>4. ASSUME NEW p \in Tiles \cup {Other}
      PROVE  x(p) \in RoundEvents /\ x(p).type = "tsumo" /\ x(p).actor = table.seat
  BY <1>1, <1>4 DEF Event, RoundEvents
<1>5. ASSUME NEW p \in Tiles \cup {Other}, NEW type \in {"dahai", "reach", "ankan", "kakan"}
      PROVE  /\ y(type, p) \in RoundEvents /\ y(type, p).type = type /\ y(type, p).actor = table.seat
             /\ \A q \in Tiles \cup {Other} : Follows(x(q), y(type, p))
  BY <1>1, <1>5 DEF Event, RoundEvents, Follows
<1>6. ASSUME ~(table'.stage = "over"), table'.byDraw = table.byDraw, ~table.byDraw,
             table'.accept = Nobody, Chain(played'),
             table'.stage = "draw" => \E a \in Seats : LastIs(played', {"dahai", "ankan", "daiminkan"}, a),
             table'.stage = "kakan" => LastIs(played', {"kakan"}, table'.seat),
             table'.stage = "open" => LastIs(played', {"dahai"}, table'.seat),
             table'.stage = "hold" => LastIs(played', {"chi", "pon"}, table'.seat)
      PROVE  PlayedInv'
  BY <1>6 DEF PlayedInv, LastFits
<1>7. ToDraw => ~table.byDraw
  BY <1>3 DEF ToDraw, LastFits
<1>8. ASSUME NEW t \in Tiles, NEW giri \in BOOLEAN, DrawAndDiscard(t, giri) PROVE PlayedInv'
  <2> DEFINE p == IF giri THEN t ELSE Other
  <2>1. ToDraw /\ Played(<<x(p), y("dahai", t)>>) /\ p \in Tiles \cup {Other}
    BY <1>8 DEF DrawAndDiscard, Drew, Did
  <2>2. /\ table'.stage = "open" /\ table'.seat = table.seat /\ table'.accept = Nobody
        /\ table'.byDraw = table.byDraw
    BY <1>1, <1>8 DEF DrawAndDiscard, Table
  <2> HIDE DEF p
  <2>3. <<x(p), y("dahai", t)>> = <<x(p)>> \o <<y("dahai", t)>>
    BY <1>4, <1>5, <2>1, Pair, Lengthened
  <2>4. Chain(played') /\ LastIs(played', {"dahai"}, table.seat)
    <3>1. /\ Chain(played') /\ played' # << >> /\ played'[Len(played')] = y("dahai", t)
      <4> DEFINE m == <<y("dahai", t)>>
      <4>1. m \in Seq(RoundEvents) /\ m # << >> /\ m[Len(m)] = y("dahai", t)
        BY <1>5, Pair
      <4>2. \E z \in RoundEvents : m = <<z>> /\ Follows(x(p), z)
        BY <1>5, <2>1
      <4>3. Played(<<x(p)>> \o m)
        BY <2>1, <2>3
      <4> HIDE DEF m, x
      <4>4. x(p) \in RoundEvents /\ x(p).type = "tsumo"
        BY <1>4, <2>1
      <4> QED
        BY <1>1, <1>2, <2>1, <4>1, <4>2, <4>3, <4>4, PlayedTurn
    <3> QED
      BY <1>5, <3>1 DEF LastIs
  <2> QED
    BY <1>1, <1>6, <1>7, <2>1, <2>2, <2>4
<1>9. ASSUME NEW t \in Tiles, NEW giri \in BOOLEAN, DrawAndReach(t, giri) PROVE PlayedInv'
  <2> DEFINE p == IF giri THEN t ELSE Other
  <2>1. ToDraw /\ Played(<<x(p), y("reach", Other), y("dahai", t)>>) /\ p \in Tiles \cup {Other}
    BY <1>9 DEF DrawAndReach, Drew, Did
  <2>2. /\ table'.stage = "open" /\ table'.seat = table.seat /\ table'.accept = table.seat
        /\ table'.byDraw = table.byDraw
    BY <1>1, <1>9 DEF DrawAndReach, Table
  <2> HIDE DEF p
  <2>3. <<x(p), y("reach", Other), y("dahai", t)>> = <<x(p)>> \o <<y("reach", Other), y("dahai", t)>>
    <3>1. /\ x(p) \in RoundEvents /\ y("reach", Other) \in RoundEvents
          /\ y("dahai", t) \in RoundEvents /\ <<x(p)>> \in Seq(RoundEvents)
      BY <1>4, <1>5, <2>1, Pair
    <3> HIDE DEF x, y
    <3>2. /\ <<x(p)>> \o <<y("reach", Other), y("dahai", t)>>
               = Append(Append(<<x(p)>>, y("reach", Other)), y("dahai", t))
      BY <3>1, Lengthened
    <3>3. /\ <<x(p), y("reach", Other)>> = Append(<<x(p)>>, y("reach", Other))
          /\ <<x(p), y("reach", Other), y("dahai", t)>>
               = Append(<<x(p), y("reach", Other)>>, y("dahai", t))
      BY <3>1, Pair
    <3> QED
      BY <3>2, <3>3
  <2>4. Chain(played') /\ LastIs(played', {"dahai"}, table.seat)
    <3>1. /\ Chain(played') /\ played' # << >> /\ played'[Len(played')] = y("dahai", t)
      <4> DEFINE m == <<y("reach", Other), y("dahai", t)>>
      <4>1. m \in Seq(RoundEvents) /\ m # << >> /\ m[Len(m)] = y("dahai", t)
        BY <1>5, Pair
      <4>2. \E z, w \in RoundEvents : m = <<z, w>> /\ Follows(x(p), z) /\ Follows(z, w)
        <5>1. Follows(y("reach", Other), y("dahai", t))
          BY DEF Follows, Event
        <5> QED
          BY <1>5, <2>1, <5>1
      <4>3. Played(<<x(p)>> \o m)
        BY <2>1, <2>3
      <4> HIDE DEF m, x
      <4>4. x(p) \in RoundEvents /\ x(p).type = "tsumo"
        BY <1>4, <2>1
      <4> QED
        BY <1>1, <1>2, <2>1, <4>1, <4>2, <4>3, <4>4, PlayedTurn
    <3> QED
      BY <1>5, <3>1 DEF LastIs
  <2> QED
    BY <1>1, <1>7, <2>1, <2>2, <2>4 DEF PlayedInv, LastFits
<1>10. ASSUME NEW t \in Tiles, DrawAndAnkan(t) \/ DrawAndKakan(t) PROVE PlayedInv'
  <2> DEFINE p == IF DrawAndAnkan(t) THEN Other ELSE t
             kind == IF DrawAndAnkan(t) THEN "ankan" ELSE "kakan"
  <2>1. ToDraw /\ Played(<<x(p), y(kind, t)>>) /\ p \in Tiles \cup {Other}
    BY <1>10 DEF DrawAndAnkan, DrawAndKakan, Drew, Did
  <2>2. /\ table'.stage = (IF kind = "ankan" THEN "draw" ELSE "kakan")
        /\ table'.seat = table.seat /\ table'.accept = Nobody /\ table'.byDraw = table.byDraw
    BY <1>1, <1>10 DEF DrawAndAnkan, DrawAndKakan, Table
  <2>0. kind \in {"ankan", "kakan"}
    OBVIOUS
  <2> HIDE DEF p, kind
  <2>3. <<x(p), y(kind, t)>> = <<x(p)>> \o <<y(kind, t)>>
    BY <1>4, <1>5, <2>0, <2>1, Pair, Lengthened
  <2>4. Chain(played') /\ LastIs(played', {kind}, table.seat)
    <3>1. /\ Chain(played') /\ played' # << >> /\ played'[Len(played')] = y(kind, t)
      <4> DEFINE m == <<y(kind, t)>>
      <4>1. m \in Seq(RoundEvents) /\ m # << >> /\ m[Len(m)] = y(kind, t)
        BY <1>5, <2>0, Pair
      <4>2. \E z \in RoundEvents : m = <<z>> /\ Follows(x(p), z)
        BY <1>5, <2>0, <2>1
      <4>3. Played(<<x(p)>> \o m)
        BY <2>1, <2>3
      <4> HIDE DEF m, x
      <4>4. x(p) \in RoundEvents /\ x(p).type = "tsumo"
        BY <1>4, <2>1
      <4> QED
        BY <1>1, <1>2, <2>1, <4>1, <4>2, <4>3, <4>4, PlayedTurn
    <3> QED
      BY <1>5, <2>0, <3>1 DEF LastIs
  <2>5. /\ kind = "ankan" => LastIs(played', {"dahai", "ankan", "daiminkan"}, table.seat)
        /\ kind = "kakan" => LastIs(played', {"kakan"}, table.seat)
    BY <2>4 DEF LastIs
  <2> QED
    BY <1>1, <1>6, <1>7, <2>0, <2>1, <2>2, <2>4, <2>5
<1>11. ASSUME NEW a \in Seats, NEW kind \in {"chi", "pon", "daiminkan"}, Call(a, kind) PROVE PlayedInv'
  <2> DEFINE e == Event(kind, a, table.seat, table.last)
  <2>1. table.stage = "open" /\ Played(<<e>>)
    BY <1>11 DEF Call
  <2>2. /\ table'.stage = (IF kind = "daiminkan" THEN "draw" ELSE "hold")
        /\ table'.seat = a /\ table'.accept = Nobody /\ table'.byDraw = table.byDraw
    BY <1>1, <1>11 DEF Call, Table
  <2>3. e \in RoundEvents /\ e.type \in Nakis /\ e.actor = a /\ e.type = kind
    BY <1>1, <2>1 DEF Event, RoundEvents, Nakis
  <2> HIDE DEF e
  <2>4. Chain(played') /\ played' # << >> /\ played'[Len(played')] = e
    <3>1. played' = Append(played \o Accepted, e)
      BY <1>1, <2>1, <2>3, AfterAccepted, Lengthened DEF Played
    <3> QED
      BY <1>1, <2>1, <2>3, <3>1, AfterAccepted
  <2>5. /\ kind = "daiminkan" => LastIs(played', {"dahai", "ankan", "daiminkan"}, a)
        /\ kind # "daiminkan" => LastIs(played', {"chi", "pon"}, a)
    BY <2>3, <2>4 DEF LastIs
  <2>6. ~table.byDraw
    BY <1>3, <2>1 DEF LastFits
  <2> QED
    BY <1>6, <2>2, <2>4, <2>5, <2>6
<1>12. ASSUME NEW t \in Tiles, Discard(t) PROVE PlayedInv'
  <2> DEFINE e == y("dahai", t)
  <2>1. table.stage = "hold" /\ Played(<<e>>)
    BY <1>12 DEF Discard, Did
  <2>2. /\ table'.stage = "open" /\ table'.seat = table.seat /\ table'.accept = table.accept
        /\ table'.byDraw = table.byDraw
    BY <1>1, <1>12 DEF Discard, Table
  <2>3. e \in RoundEvents /\ e.type = "dahai" /\ e.actor = table.seat
    BY <1>5
  <2>4. table.accept = Nobody /\ ~table.byDraw
    BY <1>3, <2>1 DEF LastFits, LastIs
  <2> HIDE DEF e
  <2>5. Chain(played') /\ played' # << >> /\ played'[Len(played')] = e
    <3>1. played' = Append(played \o Accepted, e)
      BY <1>1, <2>1, <2>3, AfterAccepted, Lengthened DEF Played
    <3> QED
      BY <1>1, <2>1, <2>3, <3>1, AfterAccepted
  <2>6. LastIs(played', {"dahai"}, table.seat)
    BY <2>3, <2>5 DEF LastIs
  <2> QED
    BY <1>6, <2>2, <2>4, <2>5, <2>6
<1>13. CASE Pass
  <2>1. /\ table.stage = "open" /\ table'.stage = "draw" /\ table'.accept = table.accept
        /\ table'.byDraw = table.byDraw /\ played' = played
    BY <1>1, <1>13 DEF Pass, Table
  <2>2. LastIs(played, {"dahai"}, table.seat) /\ ~table.byDraw
    BY <1>3, <2>1 DEF LastFits
  <2>3. LastIs(played, {"dahai", "ankan", "daiminkan"}, table.seat)
    BY <2>2 DEF LastIs
  <2> QED
    BY <1>1, <1>3, <2>1, <2>2, <2>3 DEF PlayedInv, LastFits
<1>14. CASE EndOnDiscard
  <2>1. /\ table.stage \in {"open", "kakan"} /\ table'.stage = "over" /\ table'.seat = table.seat
        /\ table'.accept = table.accept /\ table'.byDraw = table.byDraw /\ played' = played
    BY <1>1, <1>14 DEF EndOnDiscard, Table
  <2>2. LastIs(played, {"dahai", "kakan"}, table.seat) /\ ~table.byDraw
    BY <1>3, <2>1 DEF LastFits, LastIs
  <2> QED
    BY <1>1, <1>3, <2>1, <2>2 DEF PlayedInv, LastFits
<1>15. CASE EndOnDraw
  <2>1. ToDraw /\ Played(<<x(Other)>>)
    BY <1>15 DEF EndOnDraw, Drew
  <2>2. /\ table'.stage = "over" /\ table'.seat = table.seat /\ table'.accept = Nobody
        /\ table'.byDraw = TRUE
    BY <1>1, <1>15 DEF EndOnDraw, Table
  <2>3. x(Other) \in RoundEvents /\ x(Other).type = "tsumo" /\ x(Other).actor = table.seat
    BY <1>4
  <2>4. <<x(Other)>> \o << >> = <<x(Other)>> /\ << >> \in Seq(RoundEvents)
    BY <2>3, Pair, Lengthened
  <2> HIDE DEF x
  <2>5. Chain(played') /\ LastIs(played', {"tsumo"}, table.seat)
    <3>1. Played(<<x(Other)>> \o << >>)
      BY <2>1, <2>4
    <3>2. Chain(played') /\ played' # << >> /\ played'[Len(played')] = x(Other)
      BY <1>1, <1>2, <2>1, <2>3, <2>4, <3>1, PlayedTurn
    <3> QED
      BY <2>3, <3>2 DEF LastIs
  <2> QED
    BY <1>1, <2>2, <2>5 DEF PlayedInv, LastFits
<1> QED
  BY <1>8, <1>9, <1>10, <1>11, <1>12, <1>13, <1>14, <1>15 DEF Play

LEMMA AcceptedType ==
  ASSUME PlayedInv
  PROVE  Accepted \in Seq(RoundEvents)
<1> DEFINE r == Event("reach_accepted", table.accept, table.accept, Other)
<1>1. CASE table.accept = Nobody
  BY <1>1, EmptySeq DEF Accepted
<1>2. CASE table.accept # Nobody
  <2>1. table.accept \in Seats
    BY <1>2 DEF PlayedInv, LastFits
  <2>2. r \in RoundEvents
    BY <2>1 DEF RoundEvents, Event
  <2> HIDE DEF r
  <2>3. Accepted = <<r>>
    BY <1>2 DEF Accepted, r
  <2> QED
    BY <2>2, <2>3
<1> QED
  BY <1>1, <1>2

-----------------------------------------------------------------------------
(***************************************************************************)
(* The two invariants hold of every round, and the conversion leaves the   *)
(* round alone.                                                            *)
(***************************************************************************)

PlayInv == RoundInv /\ PlayedInv

LEMMA ConvertLeaves == Convert => UNCHANGED roundVars
<1>1. ASSUME NEW a PROVE GoTo(a) => UNCHANGED roundVars
  BY DEF GoTo
<1> QED
  BY <1>1 DEF Convert, StartConversion, Take, DiscardStep, NobodyCalls, CallIsCertain,
              GuessFirst, GuessSecond, GiveUpGuess, Retry, Guess, Fail

LEMMA PlayBegins == ConvInit => PlayInv
  BY RoundInit, PlayedInit DEF ConvInit, PlayInv

LEMMA PlayGoesOn == PlayInv /\ [Next]_vars => PlayInv'
<1> SUFFICES ASSUME PlayInv, [Next]_vars PROVE PlayInv'
  OBVIOUS
<1>1. CASE Play
  BY <1>1, RoundStep, PlayedStep DEF PlayInv
<1>2. CASE UNCHANGED roundVars
  <2>1. RoundInv'
    BY <1>2 DEF PlayInv, RoundInv, roundVars
  <2>2. PlayedInv'
    BY <1>2 DEF PlayInv, PlayedInv, roundVars
  <2> QED
    BY <2>1, <2>2 DEF PlayInv
<1> QED
  BY <1>1, <1>2, ConvertLeaves DEF Next, PlayRound, vars

-----------------------------------------------------------------------------
(***************************************************************************)
(* The lists that convlog makes of the log are what each seat has done.    *)
(***************************************************************************)

LEMMA NoneIsTile == /\ Nobody \notin Tiles /\ Nobody # Other /\ Other \notin Tiles
  BY NobodyAssumption, TilesAssumption

LEMMA PutDownAs ==
  ASSUME RoundInv, NEW a \in Seats, NEW d, PutDown(a, <<d>>)
  PROVE  discards' = [discards EXCEPT ![a] = Append(discards[a], d)]
<1>1. discards[a] \o <<d>> = Append(discards[a], d)
  <2> DEFINE D == discards[a]
  <2>1. D \in Seq(DiscardItems)
    BY DEF RoundInv
  <2> HIDE DEF D
  <2>2. D \in Seq(DiscardItems \cup {d}) /\ d \in DiscardItems \cup {d}
    BY <2>1, SeqMonotonic
  <2> DEFINE T == DiscardItems \cup {d}
  <2> HIDE DEF T
  <2>3. D \in Seq(T) /\ d \in T
    BY <2>2 DEF T
  <2>4. D \o <<d>> = Append(D, d)
    BY <2>3, Lengthened
  <2> QED
    BY <2>4 DEF D
<1> QED
  BY <1>1 DEF PutDown

\* What is changed or removed before the last element of a list leaves it last.
LEMMA BeforeLast ==
  ASSUME NEW T, NEW s \in Seq(T), NEW z \in T, NEW i \in 1..Len(s)
  PROVE  /\ \A x \in T : [Append(s, z) EXCEPT ![i] = x] = Append([s EXCEPT ![i] = x], z)
         /\ RemoveAt(Append(s, z), i) = Append(RemoveAt(s, i), z)
<1> DEFINE N == Len(s)
           t == Append(s, z)
<1>1. /\ t \in Seq(T) /\ Len(t) = N + 1 /\ N \in Nat /\ t[N + 1] = z
      /\ \A j \in 1..N : t[j] = s[j]
  BY Appended
<1>2. ASSUME NEW x \in T PROVE [t EXCEPT ![i] = x] = Append([s EXCEPT ![i] = x], z)
  <2> DEFINE v == [s EXCEPT ![i] = x]
             w == [t EXCEPT ![i] = x]
  <2>1. v \in Seq(T) /\ Len(v) = N /\ \A j \in 1..N : v[j] = IF j = i THEN x ELSE s[j]
    BY ExceptSeq
  <2>2. w \in Seq(T) /\ Len(w) = N + 1
        /\ \A j \in 1..(N + 1) : w[j] = IF j = i THEN x ELSE t[j]
    <3> HIDE DEF t
    <3>1. i \in 1..Len(t)
      BY <1>1
    <3> QED
      BY <1>1, <3>1, ExceptSeq
  <2> HIDE DEF v, w, t, N
  <2>3. /\ Append(v, z) \in Seq(T) /\ Len(Append(v, z)) = N + 1 /\ Append(v, z)[N + 1] = z
        /\ \A j \in 1..N : Append(v, z)[j] = v[j]
    BY <2>1, Appended
  <2>4. ASSUME NEW j \in 1..(N + 1) PROVE w[j] = Append(v, z)[j]
    <3>1. CASE j = N + 1
      <4>1. j # i
        BY <1>1, <3>1 DEF N
      <4> QED
        BY <1>1, <2>2, <2>3, <3>1, <4>1
    <3>2. CASE j # N + 1
      <4>1. j \in 1..N
        BY <1>1, <3>2
      <4> QED
        BY <1>1, <2>1, <2>2, <2>3, <4>1
    <3> QED
      BY <3>1, <3>2
  <2>5. w = Append(v, z)
    BY <2>2, <2>3, <2>4, SeqEqual
  <2> QED
    BY <2>5 DEF v, w
<1>3. RemoveAt(t, i) = Append(RemoveAt(s, i), z)
  <2> DEFINE v == RemoveAt(s, i)
             w == RemoveAt(t, i)
  <2>1. /\ v \in Seq(T) /\ Len(v) = N - 1
        /\ \A j \in 1..(i - 1) : v[j] = s[j]
        /\ \A j \in i..(N - 1) : v[j] = s[j + 1]
    BY Removed
  <2>2. /\ w \in Seq(T) /\ Len(w) = N
        /\ \A j \in 1..(i - 1) : w[j] = t[j]
        /\ \A j \in i..N : w[j] = t[j + 1]
    <3> HIDE DEF t
    <3>1. i \in 1..Len(t) /\ Len(t) - 1 = N
      BY <1>1
    <3> HIDE DEF N
    <3>2. /\ w \in Seq(T) /\ Len(w) = Len(t) - 1
          /\ \A j \in 1..(i - 1) : w[j] = t[j]
          /\ \A j \in i..(Len(t) - 1) : w[j] = t[j + 1]
      BY <1>1, <3>1, Removed
    <3> QED
      BY <3>1, <3>2
  <2> HIDE DEF v, w, t
  <2>3. /\ Append(v, z) \in Seq(T) /\ Len(Append(v, z)) = (N - 1) + 1
        /\ Append(v, z)[(N - 1) + 1] = z
        /\ \A j \in 1..(N - 1) : Append(v, z)[j] = v[j]
    BY <2>1, Appended
  <2>0. N \in Nat /\ i \in 1..N /\ (N - 1) + 1 = N
    BY <1>1
  <2> HIDE DEF N
  <2>4. ASSUME NEW j \in 1..N PROVE w[j] = Append(v, z)[j]
    <3>1. CASE j = N
      BY <1>1, <2>0, <2>2, <2>3, <3>1
    <3>2. CASE j # N /\ j < i
      <4>1. j \in 1..(i - 1) /\ j \in 1..(N - 1) /\ j \in 1..N
        BY <2>0, <3>2
      <4> QED
        BY <1>1, <2>1, <2>2, <2>3, <4>1
    <3>3. CASE j # N /\ ~(j < i)
      <4>1. j \in i..(N - 1) /\ j \in 1..(N - 1) /\ j \in i..N /\ j + 1 \in 1..N
        BY <2>0, <3>3
      <4> QED
        BY <1>1, <2>1, <2>2, <2>3, <4>1
    <3> QED
      BY <3>1, <3>2, <3>3
  <2>5. w = Append(v, z)
    BY <2>0, <2>2, <2>3, <2>4, SeqEqual
  <2> QED
    BY <2>5 DEF v, w
<1> QED
  BY <1>2, <1>3

LEMMA LastRemoved ==
  ASSUME NEW T, NEW s \in Seq(T), NEW z \in T
  PROVE  RemoveAt(Append(s, z), Len(s) + 1) = s
<1> DEFINE N == Len(s)
           t == Append(s, z)
           w == RemoveAt(t, N + 1)
<1>1. t \in Seq(T) /\ Len(t) = N + 1 /\ N \in Nat /\ \A j \in 1..N : t[j] = s[j]
  BY Appended
<1>2. w \in Seq(T) /\ Len(w) = N /\ \A j \in 1..N : w[j] = t[j]
  <2> HIDE DEF t
  <2>1. N + 1 \in 1..Len(t) /\ Len(t) - 1 = N /\ (N + 1) - 1 = N
    BY <1>1
  <2> HIDE DEF N
  <2>2. /\ w \in Seq(T) /\ Len(w) = Len(t) - 1
        /\ \A j \in 1..((N + 1) - 1) : w[j] = t[j]
    BY <1>1, <2>1, Removed
  <2> QED
    BY <2>1, <2>2
<1> HIDE DEF w, t
<1> QED
  BY <1>1, <1>2, SeqEqual DEF w, t

\* The steps of finalize_discards do not see what is behind the discard they fill.
LEMMA FinalizeBefore ==
  ASSUME NEW ds \in Seq(MoveEvents), NEW z \in MoveEvents, NEW di \in 1..Len(ds),
         ds[di].type = "reach" => di < Len(ds), NEW take \in MoveEvents
  PROVE  LET g == Finalize([di |-> di, ds |-> ds], take)
         IN Finalize([di |-> di, ds |-> Append(ds, z)], take) = [di |-> g.di, ds |-> Append(g.ds, z)]
<1> DEFINE i == IF ds[di].type = "reach" THEN di + 1 ELSE di
           es == Append(ds, z)
           filled == Event("dahai", take.actor, take.actor, take.pai)
<1>1. /\ es \in Seq(MoveEvents) /\ Len(es) = Len(ds) + 1 /\ Len(ds) \in Nat
      /\ \A j \in 1..Len(ds) : es[j] = ds[j]
  BY Appended
<1>2. i \in 1..Len(ds)
  BY <1>1
<1>3. Finalize([di |-> di, ds |-> ds], take) = FilledAt(ds, i, take)
  BY <1>1, <1>2, FinalizeFills
<1> HIDE DEF es
<1>4. Finalize([di |-> di, ds |-> es], take) = FilledAt(es, i, take)
  <2>1. es[di] = ds[di]
    BY <1>1
  <2>2. i \in Nat /\ i <= Len(es) /\ Len(es) \in Nat /\ di \in Nat
    BY <1>1, <1>2
  <2>3. IF es[di].type = "reach" THEN i = di + 1 ELSE i = di
    BY <2>1
  <2> HIDE DEF i
  <2> QED
    BY <2>2, <2>3, FinalizeFills
<1> HIDE DEF i
<1>5. es[i] = ds[i]
  BY <1>1, <1>2
<1>6. filled \in MoveEvents
  BY DEF Event, MoveEvents
<1>7. /\ [es EXCEPT ![i] = filled] = Append([ds EXCEPT ![i] = filled], z)
      /\ RemoveAt(es, i) = Append(RemoveAt(ds, i), z)
  <2>1. /\ \A x \in MoveEvents : [Append(ds, z) EXCEPT ![i] = x] = Append([ds EXCEPT ![i] = x], z)
        /\ RemoveAt(Append(ds, z), i) = Append(RemoveAt(ds, i), z)
    BY <1>2, BeforeLast
  <2> HIDE DEF filled
  <2> QED
    BY <1>6, <2>1 DEF es
<1>8. FilledAt(es, i, take) = [di |-> FilledAt(ds, i, take).di, ds |-> Append(FilledAt(ds, i, take).ds, z)]
  <2>1. CASE ds[i].type = "giri" /\ take.type = "tsumo"
    BY <1>5, <1>7, <2>1 DEF FilledAt
  <2>2. CASE ~(ds[i].type = "giri" /\ take.type = "tsumo") /\ ds[i].type = "dahai" /\ ds[i].pai = Other
    BY <1>5, <1>7, <2>2 DEF FilledAt
  <2>3. CASE /\ ~(ds[i].type = "giri" /\ take.type = "tsumo")
             /\ ~(ds[i].type = "dahai" /\ ds[i].pai = Other)
    BY <1>5, <2>3 DEF FilledAt, es
  <2> QED
    BY <2>1, <2>2, <2>3
<1> QED
  BY <1>3, <1>4, <1>8 DEF es

\* Each step of finalize_discards looks at a discard that is there, and at the
\* dahai behind it if it is a reach.
LEMMA DiscardInPlace ==
  ASSUME NEW a \in Seats, NEW L, NEW D, LegalLists(L, D), NEW n \in 1..Len(D)
  PROVE  LET f == Finals(a, L, D)[n - 1]
         IN f.di \in 1..Len(f.ds) /\ (f.ds[f.di].type = "reach" => f.di < Len(f.ds))
<1> DEFINE h == Finals(a, L, D)
           N == Len(D)
           f == h[n - 1]
           g == h[n]
           d == D[n]
           left(k) == Len(h[k].ds) + 1 - h[k].di
<1>1. /\ L \in Seq(TakeItems) /\ D \in Seq(DiscardItems) /\ Len(L) \in Nat /\ N \in Nat
      /\ N <= Len(L)
  BY DEF LegalLists
<1>2. /\ \A k \in 0..Len(L) : h[k] \in [di : Nat \ {0}, ds : Seq(MoveEvents)]
      /\ \A k \in 1..Len(L) : h[k] = Finalize(h[k - 1], TakeEvent(a, L[k]))
  BY <1>1, FinalsRecursion
<1>3. /\ \A k \in 1..N : FinalizedAs(h[k - 1], h[k], a, D[k])
      /\ h[N].di = Len(h[N].ds) + 1
  BY FinalsSteps
<1> HIDE DEF h
<1>4. \A k \in 0..N : left(k) \in Int
  BY <1>1, <1>2
<1>5. ASSUME NEW k \in 1..N PROVE left(k - 1) = left(k) + RawWidth(D[k])
  <2>1. /\ h[k].di = h[k - 1].di + Width(D[k])
        /\ Len(h[k].ds) = Len(h[k - 1].ds) + Width(D[k]) - RawWidth(D[k])
    BY <1>3 DEF FinalizedAs
  <2>2. k \in 0..Len(L) /\ k - 1 \in 0..Len(L)
    BY <1>1
  <2>3. /\ h[k - 1].di \in Int /\ Len(h[k - 1].ds) \in Int
        /\ RawWidth(D[k]) \in Int /\ Width(D[k]) \in Int
    BY <1>2, <2>2 DEF Width, RawWidth
  <2> DEFINE p == Len(h[k - 1].ds)
             q == h[k - 1].di
             w == Width(D[k])
             r == RawWidth(D[k])
  <2>4. /\ left(k) = (p + w - r) + 1 - (q + w) /\ left(k - 1) = p + 1 - q
        /\ p \in Int /\ q \in Int /\ w \in Int /\ r \in Int
    BY <2>1, <2>3
  <2> HIDE DEF p, q, w, left
  <2>5. left(k - 1) = left(k) + r
    <3> HIDE DEF r
    <3> QED
      BY <2>4
  <2> QED
    BY <2>5
<1> HIDE DEF left
<1>6. \A k \in 0..N : left(N - k) >= 0
  <2> DEFINE T == {k \in 0..N : left(N - k) >= 0}
  <2>1. 0 \in T
    BY <1>1, <1>2, <1>3 DEF left
  <2>2. ASSUME NEW k \in 1..N, k - 1 \in T PROVE k \in T
    <3>1. N - (k - 1) \in 1..N /\ (N - (k - 1)) - 1 = N - k /\ N - k \in 0..N
      BY <1>1
    <3>2. left(N - k) = left(N - (k - 1)) + RawWidth(D[N - (k - 1)])
      BY <1>5, <3>1
    <3>3. RawWidth(D[N - (k - 1)]) \in {1, 2}
      BY DEF RawWidth
    <3>4. left(N - (k - 1)) >= 0 /\ left(N - (k - 1)) \in Int
      BY <1>4, <2>2, <3>1
    <3>5. left(N - k) >= 0
      BY <3>2, <3>3, <3>4
    <3> QED
      BY <2>2, <3>5
  <2> HIDE DEF T
  <2>3. 0..N \subseteq T
    BY <1>1, <2>1, <2>2, UpTo
  <2> QED
    BY <2>3 DEF T
<1>7. left(n) >= 0 /\ left(n) \in Int
  <2>1. N - n \in 0..N /\ N - (N - n) = n /\ n \in 0..N
    BY <1>1
  <2> QED
    BY <1>4, <1>6, <2>1
<1>8. /\ f.di \in Nat \ {0} /\ f.ds \in Seq(MoveEvents) /\ Len(f.ds) \in Nat
      /\ f = [di |-> f.di, ds |-> f.ds]
      /\ g = Finalize(f, TakeEvent(a, L[n])) /\ FinalizedAs(f, g, a, d)
  <2>1. n - 1 \in 0..Len(L) /\ n \in 1..Len(L)
    BY <1>1
  <2> QED
    BY <1>2, <1>3, <2>1
<1>9. Len(f.ds) + 1 - f.di = left(n) + RawWidth(d) /\ RawWidth(d) \in {1, 2}
  BY <1>5 DEF left, RawWidth
<1> HIDE DEF f, g, d
<1>10. f.di \in 1..Len(f.ds)
  BY <1>7, <1>8, <1>9
<1>11. ASSUME f.ds[f.di].type = "reach" PROVE f.di < Len(f.ds)
  <2>1. CASE d.kind = "reach"
    <3>1. RawWidth(d) = 2
      BY <2>1 DEF RawWidth
    <3> QED
      BY <1>7, <1>8, <1>9, <3>1
  <2>2. CASE d.kind # "reach"
    <3> SUFFICES ASSUME ~(f.di < Len(f.ds)) PROVE FALSE
      OBVIOUS
    <3>1. f.di + 1 > Len(f.ds) /\ f.di <= Len(f.ds)
      BY <1>8, <1>10
    <3>2. g = [f EXCEPT !.di = f.di + 1]
      BY <1>8, <1>11, <3>1 DEF Finalize
    <3>3. g.di = f.di + 1 /\ g.ds = f.ds
      BY <1>8, <3>2
    <3>4. Width(d) = 1
      BY <1>8, <3>3 DEF FinalizedAs, Width, RawWidth
    <3>5. d.kind \in {"tile", "giri", "ankan", "kakan"}
      BY <1>1, <2>2, <3>4, ElementOfSeq DEF d, DiscardItems, Width
    <3>6. TurnAt(f.ds, a, f.di, d)
      BY <1>8, <3>3 DEF FinalizedAs
    <3> QED
      BY <1>11, <3>5, <3>6 DEF TurnAt, IsDahai
  <2> QED
    BY <2>1, <2>2
<1> QED
  BY <1>10, <1>11 DEF f, h


\* The steps of finalize_discards see nothing of a whole turn behind them.
LEMMA FinalizeTurnBefore ==
  ASSUME NEW ds \in Seq(MoveEvents), NEW more \in Seq(MoveEvents), Len(more) \in {1, 2},
         NEW di \in 1..Len(ds), ds[di].type = "reach" => di < Len(ds), NEW take \in MoveEvents
  PROVE  LET g == Finalize([di |-> di, ds |-> ds], take)
         IN Finalize([di |-> di, ds |-> ds \o more], take) = [di |-> g.di, ds |-> g.ds \o more]
<1> DEFINE g == Finalize([di |-> di, ds |-> ds], take)
           y == more[1]
<1>1. y \in MoveEvents /\ Len(ds) \in Nat /\ di \in Nat \ {0}
  OBVIOUS
<1>2. g \in [di : Nat \ {0}, ds : Seq(MoveEvents)]
  BY <1>1, FinalizeType
<1>3. Finalize([di |-> di, ds |-> Append(ds, y)], take) = [di |-> g.di, ds |-> Append(g.ds, y)]
  BY <1>1, FinalizeBefore
<1> HIDE DEF g
<1>4. CASE Len(more) = 1
  <2>1. more = <<y>>
    BY <1>4
  <2>2. ds \o <<y>> = Append(ds, y) /\ g.ds \o <<y>> = Append(g.ds, y)
    BY <1>1, <1>2, Lengthened
  <2> QED
    BY <1>3, <2>1, <2>2 DEF g
<1>5. CASE Len(more) = 2
  <2> DEFINE z == more[2]
             es == Append(ds, y)
  <2>1. more = <<y, z>> /\ z \in MoveEvents
    <3>1. z \in MoveEvents
      <4>1. 2 \in 1..Len(more)
        BY <1>5
      <4> QED
        BY <4>1, ElementOfSeq
    <3>2. <<y, z>> \in Seq(MoveEvents) /\ Len(<<y, z>>) = 2
      BY <1>1, <3>1
    <3>3. \A i \in 1..2 : more[i] = <<y, z>>[i]
      OBVIOUS
    <3> HIDE DEF y, z
    <3> QED
      BY <1>5, <3>1, <3>2, <3>3, SeqEqual
  <2> HIDE DEF z, y
  <2>2. ds \o <<y, z>> = Append(es, z) /\ g.ds \o <<y, z>> = Append(Append(g.ds, y), z)
    BY <1>1, <1>2, <2>1, Lengthened
  <2>3. es \in Seq(MoveEvents) /\ Len(es) = Len(ds) + 1 /\ es[di] = ds[di]
    BY <1>1, Appended
  <2>4. di \in 1..Len(es) /\ (es[di].type = "reach" => di < Len(es))
    BY <1>1, <2>3
  <2> HIDE DEF es
  <2> DEFINE k == Finalize([di |-> di, ds |-> es], take)
  <2>5. Finalize([di |-> di, ds |-> Append(es, z)], take) = [di |-> k.di, ds |-> Append(k.ds, z)]
    BY <2>1, <2>3, <2>4, FinalizeBefore
  <2>6. k = [di |-> g.di, ds |-> Append(g.ds, y)]
    BY <1>3 DEF es
  <2>7. k.di = g.di /\ k.ds = Append(g.ds, y)
    BY <2>6
  <2> HIDE DEF k
  <2> QED
    BY <2>1, <2>2, <2>5, <2>7 DEF g
<1> QED
  BY <1>4, <1>5

\* The events of the discard d that comes with the take e.
PutAs(a, e, d) ==
  CASE d.kind = "zero" -> << >>
    [] d.kind = "tile" -> <<Event("dahai", a, a, d.pai)>>
    [] d.kind = "giri" -> <<Event("dahai", a, a, e.pai)>>
    [] d.kind = "reach" -> <<Event("reach", a, a, Other),
                             Event("dahai", a, a, IF d.pai = Other THEN e.pai ELSE d.pai)>>
    [] d.kind \in {"ankan", "kakan"} -> <<Event(d.kind, a, a, d.pai)>>

LEMMA LastSet ==
  ASSUME NEW T, NEW s \in Seq(T), NEW z \in T, NEW x \in T
  PROVE  [Append(s, z) EXCEPT ![Len(s) + 1] = x] = Append(s, x)
<1> DEFINE N == Len(s)
           t == Append(s, z)
           w == [t EXCEPT ![N + 1] = x]
<1>1. t \in Seq(T) /\ Len(t) = N + 1 /\ N \in Nat /\ \A j \in 1..N : t[j] = s[j]
  BY Appended
<1>2. /\ Append(s, x) \in Seq(T) /\ Len(Append(s, x)) = N + 1 /\ Append(s, x)[N + 1] = x
      /\ \A j \in 1..N : Append(s, x)[j] = s[j]
  BY Appended
<1>3. w \in Seq(T) /\ Len(w) = N + 1
      /\ \A j \in 1..(N + 1) : w[j] = IF j = N + 1 THEN x ELSE t[j]
  <2> HIDE DEF t
  <2>1. N + 1 \in 1..Len(t)
    BY <1>1
  <2> HIDE DEF N
  <2> QED
    BY <1>1, <2>1, ExceptSeq
<1>4. ASSUME NEW j \in 1..(N + 1) PROVE w[j] = Append(s, x)[j]
  <2>1. j = N + 1 \/ j \in 1..N
    BY <1>1
  <2> HIDE DEF w, t, N
  <2> QED
    BY <1>1, <1>2, <1>3, <2>1
<1> HIDE DEF w
<1>5. w = Append(s, x)
  <2> HIDE DEF t, N
  <2> QED
    BY <1>1, <1>2, <1>3, <1>4, SeqEqual
<1> QED
  BY <1>5 DEF w

LEMMA FinalizeLast ==
  ASSUME NEW a \in Seats, NEW e \in TakeItems, NEW d \in DiscardItems, Fits(e, d),
         NEW F \in Seq(MoveEvents)
  PROVE  Finalize([di |-> Len(F) + 1, ds |-> F \o DiscardEvent(a, d)], TakeEvent(a, e)).ds =
           F \o PutAs(a, e, d)
<1> DEFINE N == Len(F)
           take == TakeEvent(a, e)
           put(p) == Event("dahai", a, a, p)
           giri == Event("giri", a, a, Other)
           reach == Event("reach", a, a, Other)
           end(ds) == Finalize([di |-> N + 1, ds |-> ds], take).ds
<1>1. /\ N \in Nat /\ giri \in MoveEvents /\ giri.type = "giri"
      /\ reach \in MoveEvents /\ reach.type = "reach"
      /\ take.type = (IF e.kind = "tile" THEN "tsumo" ELSE e.kind)
      /\ take.actor = a /\ take.pai = e.pai /\ e.pai \in Tiles \cup {Other}
  BY TakeEventType DEF Event, MoveEvents, TakeItems
<1>2. ASSUME NEW p \in Tiles \cup {Other}
      PROVE  put(p) \in MoveEvents /\ put(p).type = "dahai" /\ put(p).pai = p
  BY <1>2 DEF Event, MoveEvents
<1> HIDE DEF giri, reach, take
\* One event that is no reach, and two of which the first is a reach.
<1>3. ASSUME NEW y \in MoveEvents, y.type # "reach"
      PROVE  /\ Finalize([di |-> N + 1, ds |-> Append(F, y)], take) = FilledAt(Append(F, y), N + 1, take)
             /\ Append(F, y)[N + 1] = y
  <2>1. Len(Append(F, y)) = N + 1 /\ Append(F, y)[N + 1] = y
    BY <1>3, Appended
  <2> DEFINE ds == Append(F, y)
             i == N + 1
  <2>2. i \in Nat /\ i <= Len(ds) /\ Len(ds) \in Nat
    BY <1>1, <2>1
  <2>3. ds[i].type # "reach"
    BY <1>3, <2>1
  <2> HIDE DEF ds, i
  <2>4. Finalize([di |-> i, ds |-> ds], take) = FilledAt(ds, i, take)
    BY <2>2, <2>3, FinalizeFills
  <2> QED
    BY <2>1, <2>4 DEF ds, i
<1>4. ASSUME NEW y \in MoveEvents
      PROVE  LET G == Append(F, reach)
             IN /\ Finalize([di |-> N + 1, ds |-> Append(G, y)], take) = FilledAt(Append(G, y), N + 2, take)
                /\ Append(G, y)[N + 2] = y /\ G \in Seq(MoveEvents) /\ Len(G) + 1 = N + 2
  <2> DEFINE G == Append(F, reach)
             ds == Append(G, y)
             i == N + 1
             j == N + 2
  <2>1. /\ G \in Seq(MoveEvents) /\ Len(G) = N + 1 /\ G[N + 1] = reach
    BY <1>1, Appended
  <2>2. Len(G) + 1 = j /\ i \in 1..Len(G) /\ Len(G) \in Nat
    BY <1>1, <2>1
  <2> HIDE DEF G
  <2>3. Len(ds) = j /\ ds[j] = y /\ ds[i] = reach
    BY <1>4, <2>1, <2>2, Appended
  <2> HIDE DEF ds
  <2>4. j \in Nat /\ j <= Len(ds) /\ Len(ds) \in Nat /\ i \in Nat /\ j = i + 1
    BY <1>1, <2>3
  <2> HIDE DEF i, j
  <2>5. Finalize([di |-> i, ds |-> ds], take) = FilledAt(ds, j, take)
    BY <1>1, <2>3, <2>4, FinalizeFills
  <2> QED
    BY <2>1, <2>2, <2>3, <2>5 DEF G, ds, i, j
<1>5. CASE d.kind = "zero"
  <2>1. DiscardEvent(a, d) = <<put(Other)>> /\ PutAs(a, e, d) = << >> /\ e.kind = "daiminkan"
    BY <1>5 DEF DiscardEvent, PutAs, DiscardItems, Fits
  <2>2. F \o <<put(Other)>> = Append(F, put(Other)) /\ put(Other) \in MoveEvents /\ put(Other).type = "dahai"
        /\ put(Other).pai = Other
    BY <1>2, Lengthened
  <2> DEFINE y == put(Other)
             ds == Append(F, y)
  <2> HIDE DEF y
  <2>3. ds[N + 1] = y /\ end(ds) = FilledAt(ds, N + 1, take).ds
    BY <1>3, <2>2 DEF y
  <2>4. FilledAt(ds, N + 1, take).ds = RemoveAt(ds, N + 1)
    <3> HIDE DEF ds
    <3> QED
      BY <1>1, <2>1, <2>2, <2>3 DEF FilledAt, y
  <2>5. RemoveAt(ds, N + 1) = F
    BY <2>2, LastRemoved DEF y
  <2>6. F \o << >> = F
    BY Lengthened
  <2> QED
    BY <2>1, <2>2, <2>3, <2>4, <2>5, <2>6 DEF y, take
<1>6. CASE d.kind = "tile"
  <2>1. DiscardEvent(a, d) = <<put(d.pai)>> /\ PutAs(a, e, d) = <<put(d.pai)>> /\ d.pai \in Tiles
    BY <1>6, TilesAssumption DEF DiscardEvent, PutAs, DiscardItems
  <2> DEFINE y == put(d.pai)
             ds == Append(F, y)
  <2>2. F \o <<y>> = ds /\ y \in MoveEvents /\ y.type = "dahai" /\ y.pai # Other
    BY <1>2, <2>1, Lengthened, NoneIsTile
  <2> HIDE DEF y
  <2>3. ds[N + 1] = y /\ end(ds) = FilledAt(ds, N + 1, take).ds
    BY <1>3, <2>2
  <2>4. FilledAt(ds, N + 1, take).ds = ds
    <3> HIDE DEF ds
    <3> QED
      BY <2>2, <2>3 DEF FilledAt
  <2> QED
    BY <2>1, <2>2, <2>3, <2>4 DEF y, take
<1>7. CASE d.kind = "giri"
  <2>1. DiscardEvent(a, d) = <<giri>> /\ PutAs(a, e, d) = <<put(e.pai)>> /\ e.kind = "tile"
    BY <1>7 DEF DiscardEvent, PutAs, Fits, Giri, giri
  <2> DEFINE x == put(e.pai)
             ds == Append(F, giri)
  <2>2. F \o <<giri>> = ds /\ F \o <<x>> = Append(F, x) /\ x \in MoveEvents
    BY <1>1, <1>2, <2>1, Lengthened
  <2>3. ds[N + 1] = giri /\ end(ds) = FilledAt(ds, N + 1, take).ds
    BY <1>1, <1>3
  <2>4. FilledAt(ds, N + 1, take).ds = [ds EXCEPT ![N + 1] = x]
    <3> HIDE DEF ds
    <3> QED
      BY <1>1, <2>1, <2>3 DEF FilledAt
  <2>5. [ds EXCEPT ![N + 1] = x] = Append(F, x)
    <3> HIDE DEF x
    <3> QED
      BY <1>1, <2>2, LastSet
  <2> QED
    BY <2>1, <2>2, <2>3, <2>4, <2>5 DEF take
<1>8. CASE d.kind \in {"ankan", "kakan"}
  <2> DEFINE y == Event(d.kind, a, a, d.pai)
             ds == Append(F, y)
  <2>1. DiscardEvent(a, d) = <<y>> /\ PutAs(a, e, d) = <<y>>
    BY <1>8 DEF DiscardEvent, PutAs
  <2>2. y \in MoveEvents /\ y.type \in {"ankan", "kakan"}
    BY <1>8 DEF Event, MoveEvents, DiscardItems
  <2> HIDE DEF y
  <2>3. F \o <<y>> = ds
    BY <2>2, Lengthened
  <2>4. ds[N + 1] = y /\ end(ds) = FilledAt(ds, N + 1, take).ds
    BY <1>3, <2>2
  <2>5. FilledAt(ds, N + 1, take).ds = ds
    <3> HIDE DEF ds
    <3> QED
      BY <2>2, <2>4 DEF FilledAt
  <2> QED
    BY <2>1, <2>3, <2>4, <2>5 DEF take
<1>9. CASE d.kind = "reach"
  <2> DEFINE G == Append(F, reach)
             y == IF d.pai = Other THEN giri ELSE put(d.pai)
             x == put(IF d.pai = Other THEN e.pai ELSE d.pai)
             ds == Append(G, y)
  <2>1. DiscardEvent(a, d) = <<reach, y>> /\ PutAs(a, e, d) = <<reach, x>>
        /\ (d.pai = Other => e.kind = "tile") /\ d.pai \in Tiles \cup {Other}
    BY <1>9 DEF DiscardEvent, PutAs, Fits, Giri, giri, reach, DiscardItems
  <2>2. y \in MoveEvents /\ x \in MoveEvents
    BY <1>1, <1>2, <2>1
  <2>3. /\ d.pai = Other => y.type = "giri" /\ x = put(e.pai)
        /\ d.pai # Other => y = x /\ y.type = "dahai" /\ y.pai # Other
    BY <1>1, <1>2, <2>1
  <2> HIDE DEF x, y
  <2>4. F \o <<reach, y>> = ds /\ F \o <<reach, x>> = Append(G, x)
    BY <1>1, <2>2, Lengthened
  <2>5. ds[N + 2] = y /\ end(ds) = FilledAt(ds, N + 2, take).ds
        /\ G \in Seq(MoveEvents) /\ Len(G) + 1 = N + 2
    BY <1>4, <2>2
  <2> HIDE DEF G
  <2>6. FilledAt(ds, N + 2, take).ds = (IF d.pai = Other THEN [ds EXCEPT ![N + 2] = x] ELSE ds)
    <3> HIDE DEF ds
    <3> QED
      BY <1>1, <2>1, <2>3, <2>5 DEF FilledAt
  <2>7. [ds EXCEPT ![Len(G) + 1] = x] = Append(G, x)
    BY <2>2, <2>5, LastSet
  <2>8. end(ds) = Append(G, x)
    BY <2>3, <2>5, <2>6, <2>7
  <2> QED
    BY <2>1, <2>4, <2>8 DEF take
<1> QED
  BY <1>5, <1>6, <1>7, <1>8, <1>9 DEF DiscardItems

\* A turn more in a log is a turn more in the discards.
LEMMA DiscardsMore ==
  ASSUME NEW a \in Seats, NEW K, NEW D, LegalLists(K, D), NEW d \in DiscardItems,
         NEW L, LegalLists(L, Append(D, d)), \A i \in 1..Len(D) : K[i] = L[i]
  PROVE  DiscardsFrom(a, L, Append(D, d)) = DiscardsFrom(a, K, D) \o PutAs(a, L[Len(D) + 1], d)
<1> DEFINE M == Len(D)
           E == Append(D, d)
           h == Finals(a, L, E)
           k == Finals(a, K, D)
           u == DiscardEvents(a, E)
           v == DiscardEvents(a, D)
           more == DiscardEvent(a, d)
<1>1. /\ D \in Seq(DiscardItems) /\ K \in Seq(TakeItems) /\ L \in Seq(TakeItems)
      /\ M \in Nat /\ Len(K) \in Nat /\ Len(L) \in Nat /\ M <= Len(K)
  BY LenProperties DEF LegalLists
<1>2. /\ E \in Seq(DiscardItems) /\ Len(E) = M + 1 /\ E[M + 1] = d
      /\ \A i \in 1..M : E[i] = D[i]
  BY <1>1, Appended
<1>3. M + 1 <= Len(L) /\ Fits(L[M + 1], d) /\ L[M + 1] \in TakeItems
  <2>1. M + 1 \in 1..Len(E) /\ Len(E) <= Len(L)
    BY <1>1, <1>2 DEF LegalLists
  <2>2. Fits(L[M + 1], E[M + 1])
    BY <2>1 DEF LegalLists
  <2> QED
    BY <1>1, <1>2, <2>1, <2>2, ElementOfSeq
<1>4. /\ u[0] = << >> /\ u[M + 1] = u[M] \o more
      /\ \A n \in 1..M : u[n] = u[n - 1] \o DiscardEvent(a, D[n])
  <2>1. /\ u[0] = << >> /\ \A n \in 1..Len(E) : u[n] = u[n - 1] \o DiscardEvent(a, E[n])
    BY <1>2, DiscardEventsOK
  <2> HIDE DEF u, E, M
  <2>2. M + 1 \in 1..Len(E) /\ (M + 1) - 1 = M /\ \A n \in 1..M : n \in 1..Len(E)
    BY <1>1, <1>2
  <2> QED
    BY <1>2, <2>1, <2>2
<1>5. /\ v[0] = << >> /\ v[M] \in Seq(MoveEvents)
      /\ \A n \in 1..M : v[n] = v[n - 1] \o DiscardEvent(a, D[n])
  <2>1. M \in 0..M
    BY <1>1
  <2> QED
    BY <1>1, <2>1, DiscardEventsOK
<1>6. more \in Seq(MoveEvents) /\ Len(more) \in {1, 2}
  BY DiscardEventType DEF RawWidth
<1>7. /\ h[0] = [di |-> 1, ds |-> u[M + 1]]
      /\ \A n \in 1..Len(L) : h[n] = Finalize(h[n - 1], TakeEvent(a, L[n]))
  <2>1. /\ h[0] = [di |-> 1, ds |-> u[Len(E)]]
        /\ \A n \in 1..Len(L) : h[n] = Finalize(h[n - 1], TakeEvent(a, L[n]))
    <3> HIDE DEF E
    <3> QED
      BY <1>1, <1>2, FinalsRecursion
  <2> HIDE DEF u, h, E, M
  <2> QED
    BY <1>2, <2>1
<1>8. /\ k[0] = [di |-> 1, ds |-> v[M]]
      /\ \A n \in 0..M : k[n] \in [di : Nat \ {0}, ds : Seq(MoveEvents)]
      /\ \A n \in 1..M : k[n] = Finalize(k[n - 1], TakeEvent(a, L[n]))
  <2>1. /\ k[0] = [di |-> 1, ds |-> v[M]]
        /\ \A n \in 0..Len(K) : k[n] \in [di : Nat \ {0}, ds : Seq(MoveEvents)]
        /\ \A n \in 1..Len(K) : k[n] = Finalize(k[n - 1], TakeEvent(a, K[n]))
    BY <1>1, FinalsRecursion
  <2>2. \A n \in 1..M : n \in 1..Len(K)
    BY <1>1
  <2>3. /\ \A n \in 0..M : n \in 0..Len(K)
        /\ \A n \in 1..M : K[n] = L[n]
    BY <1>1
  <2> HIDE DEF k, v, M
  <2> QED
    BY <2>1, <2>2, <2>3
<1>9. /\ k[M].di = Len(k[M].ds) + 1 /\ k[Len(K)] = k[M]
      /\ \A n \in 1..M : /\ k[n - 1].di \in 1..Len(k[n - 1].ds)
                         /\ k[n - 1].ds[k[n - 1].di].type = "reach" => k[n - 1].di < Len(k[n - 1].ds)
  BY FinalsSteps, DiscardInPlace
<1>10. h[Len(L)] = h[M + 1]
  <2>0. LegalLists(L, E)
    OBVIOUS
  <2>1. h[Len(L)] = h[Len(E)]
    <3> HIDE DEF E
    <3> QED
      BY <2>0, FinalsSteps
  <2> QED
    BY <1>2, <2>1
<1> HIDE DEF h, k, u, v, M, E
<1>11. \A n \in 0..M : u[n] = v[n]
  <2> DEFINE T == {n \in 0..M : u[n] = v[n]}
  <2>1. 0 \in T
    BY <1>1, <1>4, <1>5
  <2>2. ASSUME NEW n \in 1..M, n - 1 \in T PROVE n \in T
    <3>1. n \in 0..M /\ u[n - 1] = v[n - 1]
      BY <1>1, <2>2
    <3> QED
      BY <1>4, <1>5, <3>1
  <2> HIDE DEF T
  <2>3. 0..M \subseteq T
    BY <1>1, <2>1, <2>2, UpTo
  <2> QED
    BY <2>3 DEF T
<1>12. u[M + 1] = v[M] \o more
  <2>1. M \in 0..M
    BY <1>1
  <2> QED
    BY <1>4, <1>11, <2>1
<1> HIDE DEF more
<1>13. \A n \in 0..M : h[n] = [di |-> k[n].di, ds |-> k[n].ds \o more]
  <2> DEFINE T == {n \in 0..M : h[n] = [di |-> k[n].di, ds |-> k[n].ds \o more]}
  <2>1. 0 \in T
    <3>1. k[0].di = 1 /\ k[0].ds = v[M] /\ 0 \in 0..M
      BY <1>1, <1>8
    <3> QED
      BY <1>7, <1>12, <3>1
  <2>2. ASSUME NEW n \in 1..M, n - 1 \in T PROVE n \in T
    <3> DEFINE f == k[n - 1]
               take == TakeEvent(a, L[n])
    <3>1. n - 1 \in 0..M /\ n \in 0..M /\ n \in 1..Len(L)
      BY <1>1, <1>3
    <3>2. h[n - 1] = [di |-> f.di, ds |-> f.ds \o more]
      BY <2>2
    <3>3. f \in [di : Nat \ {0}, ds : Seq(MoveEvents)]
      BY <1>8, <3>1
    <3>4. f.di \in 1..Len(f.ds) /\ (f.ds[f.di].type = "reach" => f.di < Len(f.ds))
      BY <1>9
    <3>5. take \in MoveEvents
      BY <1>1, <3>1, ElementOfSeq, TakeEventType
    <3>6. k[n] = Finalize(f, take) /\ h[n] = Finalize(h[n - 1], take)
      BY <1>7, <1>8, <3>1
    <3> HIDE DEF f, take
    <3> DEFINE i == f.di
               ds == f.ds
    <3>7. f = [di |-> i, ds |-> ds] /\ ds \in Seq(MoveEvents) /\ i \in 1..Len(ds)
          /\ (ds[i].type = "reach" => i < Len(ds))
      BY <3>3, <3>4
    <3> HIDE DEF i, ds
    <3>8. Finalize([di |-> i, ds |-> ds \o more], take) =
            [di |-> Finalize([di |-> i, ds |-> ds], take).di,
             ds |-> Finalize([di |-> i, ds |-> ds], take).ds \o more]
      BY <1>6, <3>5, <3>7, FinalizeTurnBefore
    <3>9. h[n] = [di |-> k[n].di, ds |-> k[n].ds \o more]
      BY <3>2, <3>6, <3>7, <3>8 DEF i, ds
    <3> QED
      BY <3>1, <3>9
  <2> HIDE DEF T
  <2>3. 0..M \subseteq T
    BY <1>1, <2>1, <2>2, UpTo
  <2> QED
    BY <2>3 DEF T
<1>14. h[M + 1].ds = k[M].ds \o PutAs(a, L[M + 1], d)
  <2> DEFINE F == k[M].ds
             e == L[M + 1]
  <2>1. M \in 0..M /\ M + 1 \in 1..Len(L) /\ (M + 1) - 1 = M
    BY <1>1, <1>3
  <2>2. F \in Seq(MoveEvents) /\ h[M] = [di |-> Len(F) + 1, ds |-> F \o more]
    BY <1>8, <1>9, <1>13, <2>1
  <2>3. h[M + 1] = Finalize(h[M], TakeEvent(a, e))
    BY <1>7, <2>1
  <2> HIDE DEF F, e
  <2>4. Finalize([di |-> Len(F) + 1, ds |-> F \o DiscardEvent(a, d)], TakeEvent(a, e)).ds
          = F \o PutAs(a, e, d)
    BY <1>3, <2>2, FinalizeLast DEF e
  <2> QED
    BY <2>2, <2>3, <2>4 DEF F, e, more
<1>15. DiscardsFrom(a, L, E) = h[Len(L)].ds /\ DiscardsFrom(a, K, D) = k[Len(K)].ds
  BY DEF DiscardsFrom, Finals, h, k
<1> QED
  BY <1>9, <1>10, <1>14, <1>15 DEF E, M

\* A take without a discard changes nothing.
LEMMA DiscardsSame ==
  ASSUME NEW a \in Seats, NEW K, NEW L, NEW D, LegalLists(K, D), LegalLists(L, D),
         \A i \in 1..Len(D) : K[i] = L[i]
  PROVE  DiscardsFrom(a, L, D) = DiscardsFrom(a, K, D) /\ DiscardsFrom(a, K, D) \in Seq(MoveEvents)
<1> DEFINE M == Len(D)
           h == Finals(a, L, D)
           k == Finals(a, K, D)
<1>1. /\ D \in Seq(DiscardItems) /\ K \in Seq(TakeItems) /\ L \in Seq(TakeItems)
      /\ M \in Nat /\ Len(K) \in Nat /\ Len(L) \in Nat /\ M <= Len(K) /\ M <= Len(L)
  BY LenProperties DEF LegalLists
<1>2. /\ h[0] = k[0] /\ k[Len(K)].ds \in Seq(MoveEvents)
      /\ \A n \in 1..M : h[n] = Finalize(h[n - 1], TakeEvent(a, L[n]))
      /\ \A n \in 1..M : k[n] = Finalize(k[n - 1], TakeEvent(a, L[n]))
  <2>1. /\ h[0] = [di |-> 1, ds |-> DiscardEvents(a, D)[M]]
        /\ \A n \in 1..Len(L) : h[n] = Finalize(h[n - 1], TakeEvent(a, L[n]))
    BY <1>1, FinalsRecursion
  <2>2. /\ k[0] = [di |-> 1, ds |-> DiscardEvents(a, D)[M]]
        /\ \A n \in 0..Len(K) : k[n] \in [di : Nat \ {0}, ds : Seq(MoveEvents)]
        /\ \A n \in 1..Len(K) : k[n] = Finalize(k[n - 1], TakeEvent(a, K[n]))
    BY <1>1, FinalsRecursion
  <2>3. Len(K) \in 0..Len(K) /\ \A n \in 1..M : n \in 1..Len(K) /\ n \in 1..Len(L)
    BY <1>1
  <2> HIDE DEF h, k, M
  <2> QED
    BY <2>1, <2>2, <2>3 DEF M
<1>3. h[Len(L)] = h[M] /\ k[Len(K)] = k[M]
  BY FinalsSteps
<1>4. DiscardsFrom(a, L, D) = h[Len(L)].ds /\ DiscardsFrom(a, K, D) = k[Len(K)].ds
  BY DEF DiscardsFrom, Finals
<1> HIDE DEF h, k, M
<1>5. h[M] = k[M]
  <2> DEFINE T == {n \in 0..M : h[n] = k[n]}
  <2>1. 0 \in T
    BY <1>1, <1>2
  <2>2. ASSUME NEW n \in 1..M, n - 1 \in T PROVE n \in T
    <3>1. n \in 0..M /\ h[n - 1] = k[n - 1]
      BY <1>1, <2>2
    <3> QED
      BY <1>2, <3>1
  <2> HIDE DEF T
  <2>3. 0..M \subseteq T
    BY <1>1, <2>1, <2>2, UpTo
  <2> QED
    BY <1>1, <2>3 DEF T
<1> QED
  BY <1>2, <1>3, <1>4, <1>5

TakeTypes == {"tsumo"} \cup Nakis
PutTypes == {"dahai", "reach", "ankan", "kakan"}
By(a, types) == {e \in RoundEvents : e.actor = a /\ e.type \in types}

ListsInv ==
  \A a \in Seats : /\ TakesOf(a) = Kept(played, By(a, TakeTypes))
                   /\ DiscardsOf(a) = Kept(played, By(a, PutTypes))

\* What is played is added to what was played, whatever of it is looked at, as
\* long as this is not the acceptance of a reach.
LEMMA KeptMore ==
  ASSUME PlayedInv, NEW more \in Seq(RoundEvents), Played(more),
         NEW S, \A e \in S : e.type # "reach_accepted"
  PROVE  /\ Kept(played', S) = Kept(played, S) \o Kept(more, S)
         /\ Kept(played, S) \in Seq(RoundEvents \cap S)
<1> DEFINE T == RoundEvents
           p == played
           q == Accepted
<1>1. p \in Seq(T) /\ q \in Seq(T)
  BY AcceptedType DEF PlayedInv, Chain
<1>2. Kept(q, S) = << >>
  <2>1. CASE table.accept = Nobody
    BY <2>1, KeptEmpty DEF Accepted
  <2>2. CASE table.accept # Nobody
    <3> DEFINE r == Event("reach_accepted", table.accept, table.accept, Other)
    <3>1. r \notin S
      BY DEF Event
    <3> HIDE DEF r
    <3>2. q = <<r>>
      BY <2>2 DEF Accepted, r
    <3> QED
      BY <3>1, <3>2, KeptShort
  <2> QED
    BY <2>1, <2>2
<1>3. played' = (p \o q) \o more
  BY DEF Played
<1> HIDE DEF p, q, T
<1>4. p \o q \in Seq(T) /\ Kept(p \o q, S) = Kept(p, S) \o Kept(q, S)
  BY <1>1, KeptConcat, ConcatProperties
<1>5. Kept(p, S) \in Seq(T \cap S)
  BY <1>1, KeptElements
<1>6. Kept(p, S) \o << >> = Kept(p, S)
  BY <1>5, ConcatEmptySeq
<1> DEFINE s == p \o q
<1>7. Kept(s \o more, S) = Kept(s, S) \o Kept(more, S)
  <2>1. s \in Seq(T) /\ more \in Seq(T)
    BY <1>4 DEF T
  <2> HIDE DEF s
  <2> QED
    BY <2>1, KeptConcat
<1> QED
  BY <1>2, <1>3, <1>4, <1>5, <1>6, <1>7 DEF p, T

\* The lists of a log as convlog reads them.
LEMMA ListsType ==
  ASSUME RoundInv, NEW a \in Seats
  PROVE  /\ LegalLists(takes[a], discards[a])
         /\ TakesFrom(a, takes[a]) \in Seq(MoveEvents)
         /\ DiscardsFrom(a, takes[a], discards[a]) \in Seq(MoveEvents)
<1> DEFINE L == takes[a]
           D == discards[a]
<1>1. LegalLists(L, D) /\ L \in Seq(TakeItems)
  BY DEF RoundInv, SeatOK
<1> HIDE DEF L, D
<1>2. TakesFrom(a, L) \in Seq(MoveEvents)
  BY <1>1, TakesFromOK
<1>3. DiscardsFrom(a, L, D) \in Seq(MoveEvents)
  BY <1>1, DiscardsSame
<1> QED
  BY <1>1, <1>2, <1>3 DEF L, D

LEMMA TakesMore ==
  ASSUME NEW a \in Seats, NEW L \in Seq(TakeItems), NEW e \in TakeItems
  PROVE  TakesFrom(a, Append(L, e)) = TakesFrom(a, L) \o <<TakeEvent(a, e)>>
<1> DEFINE K == Append(L, e)
           s == TakesFrom(a, L)
           t == TakesFrom(a, K)
           x == TakeEvent(a, e)
<1>1. /\ K \in Seq(TakeItems) /\ Len(K) = Len(L) + 1 /\ Len(L) \in Nat
      /\ \A i \in 1..Len(L) : K[i] = L[i]
      /\ K[Len(L) + 1] = e
  BY Appended
<1>2. /\ s \in Seq(MoveEvents) /\ Len(s) = Len(L)
      /\ \A i \in 1..Len(L) : s[i] = TakeEvent(a, L[i])
  BY TakesFromOK
<1>3. /\ t \in Seq(MoveEvents) /\ Len(t) = Len(K)
      /\ \A i \in 1..Len(K) : t[i] = TakeEvent(a, K[i])
  <2> HIDE DEF K
  <2> QED
    BY <1>1, TakesFromOK
<1>4. x \in MoveEvents
  BY TakeEventType
<1> HIDE DEF K, s, t
<1>5. s \o <<x>> = Append(s, x)
  BY <1>2, <1>4, Lengthened
<1>6. /\ Append(s, x) \in Seq(MoveEvents) /\ Len(Append(s, x)) = Len(L) + 1
      /\ \A i \in 1..Len(L) : Append(s, x)[i] = s[i]
      /\ Append(s, x)[Len(L) + 1] = x
  BY <1>2, <1>4, Appended
<1>7. ASSUME NEW i \in 1..(Len(L) + 1) PROVE t[i] = Append(s, x)[i]
  <2>1. i = Len(L) + 1 \/ i \in 1..Len(L)
    BY <1>1
  <2> QED
    BY <1>1, <1>2, <1>3, <1>6, <2>1
<1>8. t = Append(s, x)
  BY <1>1, <1>3, <1>6, <1>7, SeqEqual
<1> QED
  BY <1>5, <1>8 DEF s, t, K

\* One seat acts, and its lists grow by what it does.
LEMMA Listing ==
  ASSUME RoundInv, PlayedInv, ListsInv, NEW b \in Seats, NEW more \in Seq(By(b, TakeTypes \cup PutTypes)),
         Played(more), NEW L, NEW D,
         takes' = [takes EXCEPT ![b] = L], discards' = [discards EXCEPT ![b] = D],
         TakesFrom(b, L) = TakesOf(b) \o Kept(more, By(b, TakeTypes)),
         DiscardsFrom(b, L, D) = DiscardsOf(b) \o Kept(more, By(b, PutTypes))
  PROVE  ListsInv'
<1> SUFFICES ASSUME NEW a \in Seats, NEW types \in {TakeTypes, PutTypes}
             PROVE  /\ types = TakeTypes => TakesOf(a)' = Kept(played', By(a, types))
                    /\ types = PutTypes => DiscardsOf(a)' = Kept(played', By(a, types))
  BY DEF ListsInv
<1> DEFINE S == By(a, types)
<1>1. more \in Seq(RoundEvents)
  <2>1. By(b, TakeTypes \cup PutTypes) \subseteq RoundEvents
    BY DEF By
  <2> QED
    BY <2>1, SeqMonotonic
<1>2. \A e \in S : e.type # "reach_accepted"
  BY DEF By, TakeTypes, PutTypes, Nakis
<1>3. Kept(played', S) = Kept(played, S) \o Kept(more, S) /\ Kept(played, S) \in Seq(RoundEvents \cap S)
  <2> HIDE DEF S
  <2> QED
    BY <1>1, <1>2, KeptMore
<1>4. takes \in [Seats -> Seq(TakeItems)] /\ discards \in [Seats -> Seq(DiscardItems)]
  BY DEF RoundInv
<1>5. CASE a = b
  <2>1. TakesOf(a)' = TakesFrom(b, L) /\ DiscardsOf(a)' = DiscardsFrom(b, L, D)
    BY <1>4, <1>5 DEF TakesOf, DiscardsOf
  <2>2. TakesOf(b) = Kept(played, By(b, TakeTypes)) /\ DiscardsOf(b) = Kept(played, By(b, PutTypes))
    BY DEF ListsInv
  <2> QED
    BY <1>3, <1>5, <2>1, <2>2
<1>6. CASE a # b
  <2>1. TakesOf(a)' = TakesOf(a) /\ DiscardsOf(a)' = DiscardsOf(a)
    BY <1>4, <1>6 DEF TakesOf, DiscardsOf
  <2>2. TakesOf(a) = Kept(played, By(a, TakeTypes)) /\ DiscardsOf(a) = Kept(played, By(a, PutTypes))
    BY DEF ListsInv
  <2>3. Kept(more, S) = << >>
    <3>1. \A e \in By(b, TakeTypes \cup PutTypes) : e \notin S
      BY <1>6 DEF By
    <3> HIDE DEF S
    <3> QED
      BY <3>1, KeptNone
  <2>4. Kept(played, S) \o << >> = Kept(played, S)
    <3> HIDE DEF S
    <3> QED
      BY <1>3, ConcatEmptySeq
  <2> QED
    BY <1>3, <2>1, <2>2, <2>3, <2>4
<1> QED
  BY <1>5, <1>6

LEMMA ListsInit == Init => ListsInv
<1> SUFFICES ASSUME Init, NEW a \in Seats
             PROVE  /\ TakesOf(a) = Kept(played, By(a, TakeTypes))
                    /\ DiscardsOf(a) = Kept(played, By(a, PutTypes))
  BY DEF ListsInv
<1>1. takes[a] = << >> /\ discards[a] = << >> /\ played = << >>
  BY DEF Init
<1>2. /\ TakesFrom(a, << >>) \in Seq(MoveEvents) /\ Len(TakesFrom(a, << >>)) = 0
      /\ << >> \in Seq(TakeItems) /\ Len(<< >>) = 0 /\ << >> \in Seq(DiscardItems)
  BY EmptySeq, TakesFromOK
<1>3. TakesOf(a) = << >>
  BY <1>1, <1>2, EmptySeq DEF TakesOf
<1>4. DiscardsOf(a) = << >>
  <2> DEFINE L == << >>
             D == << >>
             h == Finals(a, L, D)
  <2>1. h[0] = [di |-> 1, ds |-> DiscardEvents(a, D)[Len(D)]]
    BY <1>2, FinalsRecursion
  <2>2. DiscardEvents(a, D)[0] = << >>
    BY <1>2, DiscardEventsOK
  <2>3. DiscardsFrom(a, L, D) = h[Len(L)].ds
    BY DEF DiscardsFrom, Finals
  <2> HIDE DEF h
  <2>4. DiscardsFrom(a, L, D) = << >>
    BY <1>2, <2>1, <2>2, <2>3
  <2> QED
    BY <1>1, <2>4 DEF DiscardsOf
<1> QED
  BY <1>1, <1>3, <1>4, KeptEmpty

\* A turn, a take or a discard more in the log of a seat.
LEMMA ListingTurn ==
  ASSUME RoundInv, RoundInv', PlayedInv, ListsInv, NEW b \in Seats,
         NEW more \in Seq(By(b, TakeTypes \cup PutTypes)), Played(more),
         NEW e \in TakeItems, NEW d \in DiscardItems, Len(takes[b]) = Len(discards[b]),
         takes' = [takes EXCEPT ![b] = Append(takes[b], e)],
         discards' = [discards EXCEPT ![b] = Append(discards[b], d)],
         Kept(more, By(b, TakeTypes)) = <<TakeEvent(b, e)>>,
         Kept(more, By(b, PutTypes)) = PutAs(b, e, d)
  PROVE  ListsInv'
<1> DEFINE K == takes[b]
           D == discards[b]
           L == Append(K, e)
           E == Append(D, d)
<1>1. takes'[b] = L /\ discards'[b] = E
  BY DEF RoundInv
<1>2. LegalLists(K, D) /\ LegalLists(L, E) /\ K \in Seq(TakeItems)
  BY <1>1 DEF RoundInv, SeatOK
<1>3. (\A i \in 1..Len(D) : K[i] = L[i]) /\ L[Len(D) + 1] = e
  BY <1>2, Appended
<1>4. TakesFrom(b, L) = TakesFrom(b, K) \o <<TakeEvent(b, e)>>
  BY <1>2, TakesMore
<1>5. DiscardsFrom(b, L, E) = DiscardsFrom(b, K, D) \o PutAs(b, e, d)
  <2> HIDE DEF K, D, L
  <2>1. DiscardsFrom(b, L, E) = DiscardsFrom(b, K, D) \o PutAs(b, L[Len(D) + 1], d)
    BY <1>2, <1>3, DiscardsMore, SMTT(30)
  <2> QED
    BY <1>3, <2>1
<1>6. TakesOf(b) = TakesFrom(b, K) /\ DiscardsOf(b) = DiscardsFrom(b, K, D)
  BY DEF TakesOf, DiscardsOf
<1>7. takes' = [takes EXCEPT ![b] = L] /\ discards' = [discards EXCEPT ![b] = E]
  OBVIOUS
<1> HIDE DEF K, D, L, E
<1> QED
  <2>1. TakesFrom(b, L) = TakesOf(b) \o Kept(more, By(b, TakeTypes))
    BY <1>4, <1>6
  <2>2. DiscardsFrom(b, L, E) = DiscardsOf(b) \o Kept(more, By(b, PutTypes))
    BY <1>5, <1>6
  <2> QED
    BY <1>7, <2>1, <2>2, Listing, ZenonT(60)

LEMMA ListingTake ==
  ASSUME RoundInv, RoundInv', PlayedInv, ListsInv, NEW b \in Seats,
         NEW more \in Seq(By(b, TakeTypes \cup PutTypes)), Played(more),
         NEW e \in TakeItems,
         takes' = [takes EXCEPT ![b] = Append(takes[b], e)], discards' = discards,
         Kept(more, By(b, TakeTypes)) = <<TakeEvent(b, e)>>,
         Kept(more, By(b, PutTypes)) = << >>
  PROVE  ListsInv'
<1> DEFINE K == takes[b]
           D == discards[b]
           L == Append(K, e)
<1>1. takes'[b] = L /\ discards'[b] = D
  BY DEF RoundInv
<1>2. LegalLists(K, D) /\ LegalLists(L, D) /\ K \in Seq(TakeItems) /\ Len(D) \in Nat /\ Len(D) <= Len(K)
  BY <1>1, LenProperties DEF RoundInv, SeatOK, LegalLists
<1>3. \A i \in 1..Len(D) : K[i] = L[i]
  <2>1. \A i \in 1..Len(K) : K[i] = L[i]
    BY <1>2, Appended
  <2>2. \A i \in 1..Len(D) : i \in 1..Len(K)
    BY <1>2, LenProperties
  <2> HIDE DEF K, L, D
  <2> QED
    BY <2>1, <2>2
<1>4. TakesFrom(b, L) = TakesFrom(b, K) \o <<TakeEvent(b, e)>>
  BY <1>2, TakesMore
<1>5. DiscardsFrom(b, L, D) = DiscardsFrom(b, K, D) \o << >>
  <2> HIDE DEF K, D, L
  <2>1. DiscardsFrom(b, L, D) = DiscardsFrom(b, K, D) /\ DiscardsFrom(b, K, D) \in Seq(MoveEvents)
    BY <1>2, <1>3, DiscardsSame
  <2>2. DiscardsFrom(b, K, D) \o << >> = DiscardsFrom(b, K, D)
    BY <2>1, ConcatEmptySeq
  <2> QED
    BY <2>1, <2>2
<1>6. TakesOf(b) = TakesFrom(b, K) /\ DiscardsOf(b) = DiscardsFrom(b, K, D)
  BY DEF TakesOf, DiscardsOf
<1>7. takes' = [takes EXCEPT ![b] = L] /\ discards' = [discards EXCEPT ![b] = D]
  BY DEF RoundInv
<1> HIDE DEF K, D, L
<1> QED
  <2>1. TakesFrom(b, L) = TakesOf(b) \o Kept(more, By(b, TakeTypes))
    BY <1>4, <1>6
  <2>2. DiscardsFrom(b, L, D) = DiscardsOf(b) \o Kept(more, By(b, PutTypes))
    BY <1>5, <1>6
  <2> QED
    BY <1>7, <2>1, <2>2, Listing, ZenonT(60)

LEMMA ListingDiscard ==
  ASSUME RoundInv, RoundInv', PlayedInv, ListsInv, NEW b \in Seats,
         NEW more \in Seq(By(b, TakeTypes \cup PutTypes)), Played(more),
         NEW d \in DiscardItems, d.kind = "tile",
         takes' = takes, discards' = [discards EXCEPT ![b] = Append(discards[b], d)],
         Kept(more, By(b, TakeTypes)) = << >>,
         Kept(more, By(b, PutTypes)) = <<Event("dahai", b, b, d.pai)>>
  PROVE  ListsInv'
<1> DEFINE L == takes[b]
           D == discards[b]
           E == Append(D, d)
<1>1. takes'[b] = L /\ discards'[b] = E
  BY DEF RoundInv
<1>2. LegalLists(L, D) /\ LegalLists(L, E) /\ L \in Seq(TakeItems)
  BY <1>1 DEF RoundInv, SeatOK
<1>4. TakesFrom(b, L) = TakesFrom(b, L) \o << >>
  <2> HIDE DEF L
  <2>1. TakesFrom(b, L) \in Seq(MoveEvents)
    BY <1>2, TakesFromOK
  <2> QED
    BY <2>1, ConcatEmptySeq
<1>5. DiscardsFrom(b, L, E) = DiscardsFrom(b, L, D) \o <<Event("dahai", b, b, d.pai)>>
  <2>1. \A i \in 1..Len(D) : L[i] = L[i]
    OBVIOUS
  <2> HIDE DEF D, L
  <2>2. DiscardsFrom(b, L, E) = DiscardsFrom(b, L, D) \o PutAs(b, L[Len(D) + 1], d)
    BY <1>2, <2>1, DiscardsMore
  <2>3. PutAs(b, L[Len(D) + 1], d) = <<Event("dahai", b, b, d.pai)>>
    BY DEF PutAs
  <2> QED
    BY <2>2, <2>3
<1>6. TakesOf(b) = TakesFrom(b, L) /\ DiscardsOf(b) = DiscardsFrom(b, L, D)
  BY DEF TakesOf, DiscardsOf
<1>7. takes' = [takes EXCEPT ![b] = L] /\ discards' = [discards EXCEPT ![b] = E]
  BY DEF RoundInv
<1> HIDE DEF D, L, E
<1> QED
  <2>1. TakesFrom(b, L) = TakesOf(b) \o Kept(more, By(b, TakeTypes))
    BY <1>4, <1>6
  <2>2. DiscardsFrom(b, L, E) = DiscardsOf(b) \o Kept(more, By(b, PutTypes))
    BY <1>5, <1>6
  <2> QED
    BY <1>7, <2>1, <2>2, Listing, ZenonT(60)

\* the events that a turn consists of, of the seat b
LEMMA TurnEvents ==
  ASSUME NEW b \in Seats, NEW p \in Tiles \cup {Other}
  PROVE  /\ LET e == Item("tile", 0, p)
                x == Event("tsumo", b, b, p)
            IN /\ e \in TakeItems /\ TakeEvent(b, e) = x
               /\ x \in By(b, TakeTypes) /\ x \notin By(b, PutTypes)
               /\ x \in By(b, TakeTypes \cup PutTypes)
         /\ \A type \in PutTypes :
              LET y == Event(type, b, b, p)
              IN /\ y \in By(b, PutTypes) /\ y \notin By(b, TakeTypes)
                 /\ y \in By(b, TakeTypes \cup PutTypes)
BY DEF Item, Event, TakeItems, TakeEvent, By, TakeTypes, PutTypes, Nakis, RoundEvents, Seats

LEMMA CalledFrom ==
  ASSUME NEW a \in Seats, NEW b \in Seats, NEW kind \in Nakis, NEW t \in Tiles
  PROVE  LET e == Item(kind, (b - a) % 4, t)
             x == Event(kind, a, b, t)
         IN /\ e \in TakeItems /\ TakeEvent(a, e) = x
            /\ x \in By(a, TakeTypes) /\ x \notin By(a, PutTypes)
            /\ x \in By(a, TakeTypes \cup PutTypes)
<1>1. (b - a) % 4 \in Seats /\ (a + ((b - a) % 4)) % 4 = b
  BY DEF Seats
<1>2. kind # "tile"
  BY DEF Nakis
<1> QED
  BY <1>1, <1>2 DEF Item, Event, TakeItems, TakeEvent, By, TakeTypes, PutTypes, Nakis, RoundEvents

LEMMA ListsStep == RoundInv /\ PlayedInv /\ ListsInv /\ Play => ListsInv'
<1> SUFFICES ASSUME RoundInv, PlayedInv, ListsInv, Play PROVE ListsInv'
  OBVIOUS
<1>1. table \in Table /\ (table.stage = "open" => table.last \in Tiles) /\ table.seat \in Seats
  BY DEF RoundInv, Table
<1>2. RoundInv'
  BY RoundStep
<1>3. ASSUME NEW a \in Seats, table.stage \in {"draw", "kakan", "open"}
      PROVE  Len(takes[a]) = Len(discards[a])
  BY <1>3 DEF RoundInv, SeatOK
<1> DEFINE b == table.seat
<1>4. ASSUME NEW t \in Tiles, NEW giri \in BOOLEAN, DrawAndDiscard(t, giri) PROVE ListsInv'
  <2> DEFINE p == IF giri THEN t ELSE Other
             x == Event("tsumo", b, b, p)
             y == Event("dahai", b, b, t)
             e == Item("tile", 0, p)
             d == IF giri THEN Item("giri", 0, Other) ELSE Item("tile", 0, t)
  <2>1. /\ Played(<<x, y>>) /\ Took(b, e) /\ PutDown(b, <<d>>)
        /\ Len(takes[b]) = Len(discards[b])
    BY <1>1, <1>3, <1>4 DEF DrawAndDiscard, Drew, Did, ToDraw
  <2>2. p \in Tiles \cup {Other} /\ "dahai" \in PutTypes
    BY DEF PutTypes
  <2>3. d \in DiscardItems /\ PutAs(b, e, d) = <<y>>
    BY DEF DiscardItems, Item, PutAs
  <2> HIDE DEF p
  <2>4. /\ e \in TakeItems /\ TakeEvent(b, e) = x
        /\ x \in By(b, TakeTypes) /\ x \notin By(b, PutTypes) /\ x \in By(b, TakeTypes \cup PutTypes)
        /\ y \in By(b, PutTypes) /\ y \notin By(b, TakeTypes) /\ y \in By(b, TakeTypes \cup PutTypes)
    BY <1>1, <2>2, TurnEvents
  <2>5. takes' = [takes EXCEPT ![b] = Append(takes[b], e)]
    BY <2>1 DEF Took
  <2>6. discards' = [discards EXCEPT ![b] = Append(discards[b], d)]
    BY <1>1, <2>1, PutDownAs
  <2> HIDE DEF x, y, d, e
  <2>7. <<x, y>> \in Seq(By(b, TakeTypes \cup PutTypes))
    BY <2>4, Pair
  <2>8. Kept(<<x, y>>, By(b, TakeTypes)) = <<x>> /\ Kept(<<x, y>>, By(b, PutTypes)) = <<y>>
    BY <2>4, KeptShort
  <2> DEFINE more == <<x, y>>
  <2>9. /\ more \in Seq(By(b, TakeTypes \cup PutTypes)) /\ Played(more)
        /\ Kept(more, By(b, TakeTypes)) = <<TakeEvent(b, e)>>
        /\ Kept(more, By(b, PutTypes)) = PutAs(b, e, d)
    BY <2>1, <2>3, <2>4, <2>7, <2>8
  <2> HIDE DEF more
  <2> QED
    BY <1>1, <1>2, <2>1, <2>3, <2>4, <2>5, <2>6, <2>9, ListingTurn
<1>5. ASSUME NEW t \in Tiles, NEW giri \in BOOLEAN, DrawAndReach(t, giri) PROVE ListsInv'
  <2> DEFINE p == IF giri THEN t ELSE Other
             x == Event("tsumo", b, b, p)
             z == Event("reach", b, b, Other)
             y == Event("dahai", b, b, t)
             e == Item("tile", 0, p)
             d == Item("reach", 0, IF giri THEN Other ELSE t)
  <2>1. /\ Played(<<x, z, y>>) /\ Took(b, e) /\ PutDown(b, <<d>>)
        /\ Len(takes[b]) = Len(discards[b])
    BY <1>1, <1>3, <1>5 DEF DrawAndReach, Drew, Did, ToDraw
  <2>2. p \in Tiles \cup {Other} /\ {"dahai", "reach"} \subseteq PutTypes
    BY DEF PutTypes
  <2>3. d \in DiscardItems /\ PutAs(b, e, d) = <<z, y>>
    BY TilesAssumption DEF DiscardItems, Item, PutAs
  <2> HIDE DEF p
  <2>4. /\ e \in TakeItems /\ TakeEvent(b, e) = x
        /\ x \in By(b, TakeTypes) /\ x \notin By(b, PutTypes) /\ x \in By(b, TakeTypes \cup PutTypes)
        /\ y \in By(b, PutTypes) /\ y \notin By(b, TakeTypes) /\ y \in By(b, TakeTypes \cup PutTypes)
        /\ z \in By(b, PutTypes) /\ z \notin By(b, TakeTypes) /\ z \in By(b, TakeTypes \cup PutTypes)
    BY <1>1, <2>2, TurnEvents
  <2>5. takes' = [takes EXCEPT ![b] = Append(takes[b], e)]
    BY <2>1 DEF Took
  <2>6. discards' = [discards EXCEPT ![b] = Append(discards[b], d)]
    BY <1>1, <2>1, PutDownAs
  <2> HIDE DEF x, y, z, d, e
  <2> DEFINE U == By(b, TakeTypes \cup PutTypes)
             kept(S) == (IF x \in S THEN <<x>> ELSE << >>) \o
                        (IF z \in S THEN IF y \in S THEN <<z, y>> ELSE <<z>>
                         ELSE IF y \in S THEN <<y>> ELSE << >>)
  <2> HIDE DEF U
  <2>7. <<x, z, y>> \in Seq(U) /\ <<x, z, y>> = <<x>> \o <<z, y>> /\ <<x>> \in Seq(U) /\ <<z, y>> \in Seq(U)
    <3>1. x \in U /\ y \in U /\ z \in U
      BY <2>4 DEF U
    <3>2. /\ <<x, z, y>> \in Seq(U) /\ <<x>> \in Seq(U) /\ <<z, y>> \in Seq(U)
          /\ <<x, z, y>> = Append(Append(<<x>>, z), y)
      BY <3>1, Pair
    <3>3. <<x>> \o <<z, y>> = Append(Append(<<x>>, z), y)
      BY <3>1, <3>2, Lengthened
    <3> QED
      BY <3>2, <3>3
  <2>8. ASSUME NEW S PROVE Kept(<<x, z, y>>, S) = kept(S)
    <3> DEFINE r == <<x>>
               q == <<z, y>>
    <3>1. r \in Seq(U) /\ q \in Seq(U) /\ <<x, z, y>> = r \o q
      BY <2>7
    <3>2. /\ Kept(r, S) = (IF x \in S THEN <<x>> ELSE << >>)
          /\ Kept(q, S) = (IF z \in S THEN IF y \in S THEN <<z, y>> ELSE <<z>>
                            ELSE IF y \in S THEN <<y>> ELSE << >>)
      BY KeptShort
    <3> HIDE DEF r, q
    <3>3. Kept(r \o q, S) = Kept(r, S) \o Kept(q, S)
      BY <3>1, KeptConcat
    <3>4. Kept(<<x, z, y>>, S) = Kept(r, S) \o Kept(q, S)
      BY <3>1, <3>3
    <3> QED
      BY <3>2, <3>4
  <2>9. kept(By(b, TakeTypes)) = <<x>> /\ kept(By(b, PutTypes)) = <<z, y>>
    BY <2>4
  <2> HIDE DEF kept
  <2> DEFINE more == <<x, z, y>>
  <2>10. /\ more \in Seq(By(b, TakeTypes \cup PutTypes)) /\ Played(more)
         /\ Kept(more, By(b, TakeTypes)) = <<TakeEvent(b, e)>>
         /\ Kept(more, By(b, PutTypes)) = PutAs(b, e, d)
    BY <2>1, <2>3, <2>4, <2>7, <2>8, <2>9 DEF U
  <2> HIDE DEF more
  <2> QED
    BY <1>1, <1>2, <2>1, <2>3, <2>4, <2>5, <2>6, <2>10, ListingTurn
<1>6. ASSUME NEW t \in Tiles, DrawAndAnkan(t) \/ DrawAndKakan(t) PROVE ListsInv'
  <2> DEFINE kind == IF DrawAndAnkan(t) THEN "ankan" ELSE "kakan"
             p == IF DrawAndAnkan(t) THEN Other ELSE t
             x == Event("tsumo", b, b, p)
             y == Event(kind, b, b, t)
             e == Item("tile", 0, p)
             d == Item(kind, 0, t)
  <2>1. /\ Played(<<x, y>>) /\ Took(b, e) /\ PutDown(b, <<d>>)
        /\ Len(takes[b]) = Len(discards[b])
    BY <1>1, <1>3, <1>6 DEF DrawAndAnkan, DrawAndKakan, Drew, Did, ToDraw
  <2>2. p \in Tiles \cup {Other} /\ kind \in {"ankan", "kakan"} /\ kind \in PutTypes
    BY DEF PutTypes
  <2> HIDE DEF p, kind
  <2>3. d \in DiscardItems /\ PutAs(b, e, d) = <<y>>
    BY <2>2 DEF DiscardItems, Item, PutAs
  <2>4. /\ e \in TakeItems /\ TakeEvent(b, e) = x
        /\ x \in By(b, TakeTypes) /\ x \notin By(b, PutTypes) /\ x \in By(b, TakeTypes \cup PutTypes)
        /\ y \in By(b, PutTypes) /\ y \notin By(b, TakeTypes) /\ y \in By(b, TakeTypes \cup PutTypes)
    BY <1>1, <2>2, TurnEvents
  <2>5. takes' = [takes EXCEPT ![b] = Append(takes[b], e)]
    BY <2>1 DEF Took
  <2>6. discards' = [discards EXCEPT ![b] = Append(discards[b], d)]
    BY <1>1, <2>1, PutDownAs
  <2> HIDE DEF x, y, d, e
  <2>7. <<x, y>> \in Seq(By(b, TakeTypes \cup PutTypes))
    BY <2>4, Pair
  <2>8. Kept(<<x, y>>, By(b, TakeTypes)) = <<x>> /\ Kept(<<x, y>>, By(b, PutTypes)) = <<y>>
    BY <2>4, KeptShort
  <2> DEFINE more == <<x, y>>
  <2>9. /\ more \in Seq(By(b, TakeTypes \cup PutTypes)) /\ Played(more)
        /\ Kept(more, By(b, TakeTypes)) = <<TakeEvent(b, e)>>
        /\ Kept(more, By(b, PutTypes)) = PutAs(b, e, d)
    BY <2>1, <2>3, <2>4, <2>7, <2>8
  <2> HIDE DEF more
  <2> QED
    BY <1>1, <1>2, <2>1, <2>3, <2>4, <2>5, <2>6, <2>9, ListingTurn
<1>7. ASSUME NEW a \in Seats, NEW kind \in {"chi", "pon", "daiminkan"}, Call(a, kind) PROVE ListsInv'
  <2> DEFINE e == Item(kind, (table.seat - a) % 4, table.last)
             y == Event(kind, a, table.seat, table.last)
             d == Item("zero", 0, Other)
  <2>1. /\ Played(<<y>>) /\ Took(a, e) /\ table.stage = "open"
        /\ PutDown(a, IF kind = "daiminkan" THEN <<d>> ELSE << >>)
    BY <1>7 DEF Call
  <2>2. kind \in Nakis /\ table.last \in Tiles
    BY <1>1, <2>1 DEF Nakis
  <2>3. d \in DiscardItems /\ PutAs(a, e, d) = << >>
    BY DEF DiscardItems, Item, PutAs
  <2>4. /\ e \in TakeItems /\ TakeEvent(a, e) = y
        /\ y \in By(a, TakeTypes) /\ y \notin By(a, PutTypes)
        /\ y \in By(a, TakeTypes \cup PutTypes)
    BY <1>1, <2>2, CalledFrom
  <2>5. takes' = [takes EXCEPT ![a] = Append(takes[a], e)]
    BY <2>1 DEF Took
  <2> HIDE DEF y, e, d
  <2>6. <<y>> \in Seq(By(a, TakeTypes \cup PutTypes))
    BY <2>4, Pair
  <2>7. Kept(<<y>>, By(a, TakeTypes)) = <<y>> /\ Kept(<<y>>, By(a, PutTypes)) = << >>
    BY <2>4, KeptShort
  <2> DEFINE more == <<y>>
  <2>8. /\ more \in Seq(By(a, TakeTypes \cup PutTypes)) /\ Played(more)
        /\ Kept(more, By(a, TakeTypes)) = <<TakeEvent(a, e)>>
        /\ Kept(more, By(a, PutTypes)) = << >>
    BY <2>1, <2>4, <2>6, <2>7
  <2> HIDE DEF more
  <2>9. CASE kind = "daiminkan"
    <3>1. discards' = [discards EXCEPT ![a] = Append(discards[a], d)]
      BY <2>1, <2>9, PutDownAs
    <3>2. Len(takes[a]) = Len(discards[a]) /\ Kept(more, By(a, PutTypes)) = PutAs(a, e, d)
      BY <1>3, <2>1, <2>3, <2>8
    <3> QED
      BY <1>2, <2>3, <2>4, <2>5, <2>8, <3>1, <3>2, ListingTurn
  <2>10. CASE kind # "daiminkan"
    <3> DEFINE G == discards[a]
    <3>1. G \in Seq(DiscardItems) /\ discards \in [Seats -> Seq(DiscardItems)]
      BY DEF RoundInv
    <3>2. G \o << >> = G
      <4> HIDE DEF G
      <4> QED
        BY <3>1, ConcatEmptySeq
    <3>3. discards' = discards
      BY <2>1, <2>10, <3>1, <3>2 DEF PutDown
    <3> QED
      BY <1>2, <2>4, <2>5, <2>8, <3>3, ListingTake
  <2> QED
    BY <2>9, <2>10
<1>8. ASSUME NEW t \in Tiles, Discard(t) PROVE ListsInv'
  <2> DEFINE y == Event("dahai", b, b, t)
             d == Item("tile", 0, t)
  <2>1. Played(<<y>>) /\ PutDown(b, <<d>>) /\ takes' = takes
    BY <1>8 DEF Discard, Did
  <2>2. d \in DiscardItems /\ d.kind = "tile" /\ d.pai = t /\ "dahai" \in PutTypes
    BY DEF DiscardItems, Item, PutTypes
  <2>4. y \in By(b, PutTypes) /\ y \notin By(b, TakeTypes) /\ y \in By(b, TakeTypes \cup PutTypes)
        /\ y = Event("dahai", b, b, d.pai)
    BY <1>1, <2>2, TurnEvents
  <2>6. discards' = [discards EXCEPT ![b] = Append(discards[b], d)]
    BY <1>1, <2>1, PutDownAs
  <2> HIDE DEF y, d
  <2>7. <<y>> \in Seq(By(b, TakeTypes \cup PutTypes))
    BY <2>4, Pair
  <2>8. Kept(<<y>>, By(b, TakeTypes)) = << >> /\ Kept(<<y>>, By(b, PutTypes)) = <<y>>
    BY <2>4, KeptShort
  <2> DEFINE more == <<y>>
  <2>9. /\ more \in Seq(By(b, TakeTypes \cup PutTypes)) /\ Played(more)
        /\ Kept(more, By(b, TakeTypes)) = << >>
        /\ Kept(more, By(b, PutTypes)) = <<Event("dahai", b, b, d.pai)>>
    BY <2>1, <2>4, <2>7, <2>8
  <2> HIDE DEF more
  <2> QED
    BY <1>1, <1>2, <2>1, <2>2, <2>6, <2>9, ListingDiscard
<1>9. CASE EndOnDraw
  <2> DEFINE x == Event("tsumo", b, b, Other)
             e == Item("tile", 0, Other)
  <2>1. Played(<<x>>) /\ Took(b, e) /\ discards' = discards
    BY <1>9 DEF EndOnDraw, Drew
  <2>4. /\ e \in TakeItems /\ TakeEvent(b, e) = x
        /\ x \in By(b, TakeTypes) /\ x \notin By(b, PutTypes)
        /\ x \in By(b, TakeTypes \cup PutTypes)
    BY <1>1, TurnEvents
  <2>5. takes' = [takes EXCEPT ![b] = Append(takes[b], e)]
    BY <2>1 DEF Took
  <2> HIDE DEF x, e
  <2>7. <<x>> \in Seq(By(b, TakeTypes \cup PutTypes))
    BY <2>4, Pair
  <2>8. Kept(<<x>>, By(b, TakeTypes)) = <<x>> /\ Kept(<<x>>, By(b, PutTypes)) = << >>
    BY <2>4, KeptShort
  <2> DEFINE more == <<x>>
  <2>9. /\ more \in Seq(By(b, TakeTypes \cup PutTypes)) /\ Played(more)
        /\ Kept(more, By(b, TakeTypes)) = <<TakeEvent(b, e)>>
        /\ Kept(more, By(b, PutTypes)) = << >>
    BY <2>1, <2>4, <2>7, <2>8
  <2> HIDE DEF more
  <2> QED
    BY <1>1, <1>2, <2>1, <2>4, <2>5, <2>9, ListingTake
<1>10. ASSUME Pass \/ EndOnDiscard PROVE ListsInv'
  <2>1. takes' = takes /\ discards' = discards /\ played' = played
    BY <1>10 DEF Pass, EndOnDiscard
  <2> QED
    BY <2>1 DEF ListsInv, TakesOf, DiscardsOf
<1> QED
  BY <1>4, <1>5, <1>6, <1>7, <1>8, <1>9, <1>10 DEF Play

-----------------------------------------------------------------------------
(***************************************************************************)
(* The order of the turns: which event of which seat may come next, and    *)
(* what indicators are due.                                                *)
(***************************************************************************)

OpenKans == {"kakan", "daiminkan"}
KanEvents == {e \in RoundEvents : e.type \in Kans}

\* Among the first n events the indicator of an open kan is still due, at the
\* next discard, or at the next draw since another kan came first; and how many
\* have been shown.
DueDahai(s, n) ==
  n > 0 /\ (s[n].type \in OpenKans \/ (n > 1 /\ s[n].type = "tsumo" /\ s[n - 1].type \in OpenKans))
DueDraw(s, n) == n > 2 /\ s[n].type = "kakan" /\ s[n - 2].type \in OpenKans
KansUpTo(s, n) == Len(Kept(First(s, n), KanEvents))
ShownIn(s, n) == KansUpTo(s, n) - Num(DueDahai(s, n)) - Num(DueDraw(s, n))
ShownBy(y, dahai, draw) ==
  Num(y.type = "tsumo" /\ draw) + Num(y.type \in {"dahai", "ankan"} /\ dahai) + Num(y.type = "ankan")

\* the event n is the dahai of a reach
Reached(s, n) == n > 1 /\ s[n].type = "dahai" /\ s[n - 1].type = "reach"

\* y may come after the dahai x, and after the first n events of s
AfterDahai(x, y) ==
  /\ y.type = "tsumo" => y.actor = Shimocha(x.actor)
  /\ y.type \in Nakis => y.target = x.actor /\ y.pai = x.pai /\ y.actor # x.actor
Orderly(s, n, y) ==
  /\ y.type \in {"dahai"} \cup Nakis => y.pai \in Tiles
  /\ y.type = "dahai" => y.target = y.actor
  /\ n = 0 => y.actor = 0
  /\ n > 0 =>
       /\ s[n].type \notin {"dahai", "reach_accepted"} => y.actor = s[n].actor
       /\ s[n].type = "dahai" =>
            IF Reached(s, n) THEN y = Event("reach_accepted", s[n].actor, s[n].actor, Other)
            ELSE y.type # "reach_accepted" /\ AfterDahai(s[n], y)
       /\ s[n].type = "reach_accepted" => n > 1 /\ AfterDahai(s[n - 1], y)
  /\ y.type = "reach" => ~DueDahai(s, n)
Ordered(s) == Chain(s) /\ \A n \in 1..Len(s) : Orderly(s, n - 1, s[n])

LEMMA FirstKept ==
  ASSUME NEW T, NEW s \in Seq(T), NEW S
  PROVE  /\ Kept(First(s, 0), S) = << >>
         /\ Kept(First(s, Len(s)), S) = Kept(s, S)
         /\ \A n \in 0..Len(s) : Kept(First(s, n), S) \in Seq(T \cap S)
         /\ \A n \in 1..Len(s) :
              Kept(First(s, n), S) = IF s[n] \in S THEN Append(Kept(First(s, n - 1), S), s[n])
                                     ELSE Kept(First(s, n - 1), S)
<1>1. /\ Len(s) \in Nat /\ First(s, 0) = << >> /\ First(s, Len(s)) = s
      /\ \A n \in 0..Len(s) : First(s, n) \in Seq(T) /\ Len(First(s, n)) = n
      /\ \A n \in 1..Len(s) : s[n] \in T /\ First(s, n) = Append(First(s, n - 1), s[n])
  BY Firsts
<1>2. ASSUME NEW n \in 0..Len(s) PROVE Kept(First(s, n), S) \in Seq(T \cap S)
  <2>1. First(s, n) \in Seq(T)
    BY <1>1
  <2> QED
    BY <2>1, KeptElements
<1>3. ASSUME NEW n \in 1..Len(s)
      PROVE  Kept(First(s, n), S) = IF s[n] \in S THEN Append(Kept(First(s, n - 1), S), s[n])
                                    ELSE Kept(First(s, n - 1), S)
  <2> DEFINE r == First(s, n - 1)
             x == s[n]
  <2>1. r \in Seq(T) /\ x \in T /\ First(s, n) = Append(r, x)
    <3>1. n - 1 \in 0..Len(s)
      BY <1>1
    <3> QED
      BY <1>1, <3>1
  <2> HIDE DEF r, x
  <2>2. Kept(Append(r, x), S) = IF x \in S THEN Append(Kept(r, S), x) ELSE Kept(r, S)
    BY <2>1, KeptAppend
  <2> QED
    BY <2>1, <2>2 DEF r, x
<1> QED
  BY <1>1, <1>2, <1>3, KeptEmpty

\* What each event changes of what is due.
LEMMA DueNext ==
  ASSUME NEW s, Chain(s), NEW n \in 1..Len(s), s[n].type = "reach" => ~DueDahai(s, n - 1)
  PROVE  /\ DueDahai(s, n) <=> \/ s[n].type \in OpenKans
                               \/ s[n].type = "tsumo" /\ DueDahai(s, n - 1)
         /\ DueDraw(s, n) <=> s[n].type = "kakan" /\ DueDahai(s, n - 1)
         /\ ShownIn(s, n) = ShownIn(s, n - 1) + ShownBy(s[n], DueDahai(s, n - 1), DueDraw(s, n - 1))
<1> DEFINE y == s[n]
           x == s[n - 1]
           k == KansUpTo(s, n - 1)
<1>1. s \in Seq(RoundEvents) /\ Len(s) \in Nat /\ n \in Nat /\ y \in RoundEvents
  BY LenProperties, ElementOfSeq DEF Chain
<1>2. n = 1 => y.type = "tsumo"
  <2>1. s # << >>
    BY <1>1, EmptySeq
  <2> QED
    BY <2>1 DEF Chain
<1>3. n > 1 => Follows(x, y) /\ x \in RoundEvents
  <2> SUFFICES ASSUME n > 1 PROVE Follows(x, y) /\ x \in RoundEvents
    OBVIOUS
  <2>1. n \in 2..Len(s) /\ n - 1 \in 1..Len(s)
    BY <1>1
  <2> QED
    BY <1>1, <2>1, ElementOfSeq DEF Chain
<1>4. k \in Nat /\ KansUpTo(s, n) = k + Num(y.type \in Kans)
  <2> DEFINE r == Kept(First(s, n - 1), KanEvents)
  <2>1. /\ r \in Seq(RoundEvents \cap KanEvents)
        /\ Kept(First(s, n), KanEvents) = IF y \in KanEvents THEN Append(r, y) ELSE r
    <3>1. n - 1 \in 0..Len(s) /\ n \in 1..Len(s)
      BY <1>1
    <3> DEFINE S == KanEvents
    <3> HIDE DEF S
    <3>2. /\ \A i \in 0..Len(s) : Kept(First(s, i), S) \in Seq(RoundEvents \cap S)
          /\ \A i \in 1..Len(s) :
               Kept(First(s, i), S) = IF s[i] \in S THEN Append(Kept(First(s, i - 1), S), s[i])
                                      ELSE Kept(First(s, i - 1), S)
      BY <1>1, FirstKept
    <3> QED
      BY <3>1, <3>2 DEF S
  <2> HIDE DEF r
  <2>2. Len(r) \in Nat /\ (y \in KanEvents => Len(Append(r, y)) = Len(r) + 1)
    BY <1>1, <2>1, Appended, LenProperties
  <2>3. y \in KanEvents <=> y.type \in Kans
    BY <1>1 DEF KanEvents
  <2>4. Num(y.type \in Kans) = IF y.type \in Kans THEN 1 ELSE 0
    BY DEF Num
  <2> QED
    BY <2>1, <2>2, <2>3, <2>4 DEF KansUpTo, r
<1>5. n > 2 => Follows(s[n - 2], x)
  <2> SUFFICES ASSUME n > 2 PROVE Follows(s[n - 2], x)
    OBVIOUS
  <2>1. n - 1 \in 2..Len(s) /\ (n - 1) - 1 = n - 2
    BY <1>1
  <2> QED
    BY <2>1 DEF Chain
<1> DEFINE D == DueDahai(s, n - 1)
           W == DueDraw(s, n - 1)
<1>6. D <=> n > 1 /\ (x.type \in OpenKans \/ (n > 2 /\ x.type = "tsumo" /\ s[n - 2].type \in OpenKans))
  <2>1. (n - 1) - 1 = n - 2 /\ (n - 1 > 0 <=> n > 1) /\ (n - 1 > 1 <=> n > 2)
    BY <1>1
  <2> QED
    BY <2>1 DEF DueDahai
<1>7. W => x.type = "kakan" /\ n > 1
  BY <1>1 DEF DueDraw
<1>8. DueDahai(s, n) <=> y.type \in OpenKans \/ (n > 1 /\ y.type = "tsumo" /\ x.type \in OpenKans)
  BY <1>1 DEF DueDahai
<1>9. DueDraw(s, n) <=> n > 2 /\ y.type = "kakan" /\ s[n - 2].type \in OpenKans
  BY DEF DueDraw
<1>10. y.type \in {"tsumo", "dahai", "reach", "reach_accepted", "ankan", "kakan", "chi", "pon", "daiminkan"}
  BY <1>1 DEF RoundEvents, Nakis
<1>11. ShownIn(s, n - 1) = k - Num(D) - Num(W)
       /\ ShownIn(s, n) = KansUpTo(s, n) - Num(DueDahai(s, n)) - Num(DueDraw(s, n))
  BY DEF ShownIn
<1> HIDE DEF x, y, k, D, W
<1>12. DueDahai(s, n) <=> y.type \in OpenKans \/ (y.type = "tsumo" /\ D)
  BY <1>3, <1>5, <1>6, <1>8 DEF Follows, OpenKans
<1>13. DueDraw(s, n) <=> y.type = "kakan" /\ D
  <2>1. CASE y.type # "kakan"
    BY <1>9, <2>1
  <2>2. CASE y.type = "kakan"
    <3>1. n > 1
      BY <1>1, <1>2, <2>2
    <3>2. x.type = "tsumo"
      <4>1. x.type \in {"tsumo", "dahai", "reach", "reach_accepted", "ankan", "kakan", "chi", "pon", "daiminkan"}
        BY <1>3, <3>1 DEF RoundEvents, Nakis
      <4> QED
        BY <1>3, <2>2, <3>1, <4>1 DEF Follows, Nakis
    <3> QED
      BY <1>6, <1>9, <2>2, <3>1, <3>2 DEF OpenKans
  <2> QED
    BY <2>1, <2>2
<1>14. /\ D /\ y.type \notin {"tsumo", "dahai", "ankan", "kakan"} => FALSE
       /\ W => y.type = "tsumo"
       /\ y.type = "tsumo" => (DueDahai(s, n) <=> D)
       /\ D \in BOOLEAN /\ W \in BOOLEAN
  <2>1. D \in BOOLEAN /\ W \in BOOLEAN
    BY DEF D, W, DueDahai, DueDraw
  <2>2. y.type = "reach" => ~D
    BY DEF y, D
  <2>3. W => y.type = "tsumo"
    BY <1>3, <1>7 DEF Follows
  <2>4. x.type \in OpenKans /\ n > 1 => y.type = "tsumo"
    BY <1>3 DEF Follows, OpenKans
  <2>5. x.type = "tsumo" /\ n > 1 => y.type \in {"dahai", "reach", "ankan", "kakan"}
    BY <1>3 DEF Follows
  <2>6. D => n > 1 /\ (x.type \in OpenKans \/ x.type = "tsumo")
    BY <1>1, <1>6
  <2> QED
    BY <1>12, <2>1, <2>2, <2>3, <2>4, <2>5, <2>6 DEF OpenKans
<1>15. ShownIn(s, n) = ShownIn(s, n - 1) + ShownBy(y, D, W)
  <2> DEFINE yt == y.type
  <2>1. ShownBy(y, D, W) = Num(yt = "tsumo" /\ W) + Num(yt \in {"dahai", "ankan"} /\ D) + Num(yt = "ankan")
    BY DEF ShownBy
  <2>2. /\ Num(D) = (IF D THEN 1 ELSE 0) /\ Num(W) = (IF W THEN 1 ELSE 0)
        /\ Num(DueDahai(s, n)) = (IF yt \in OpenKans \/ (yt = "tsumo" /\ D) THEN 1 ELSE 0)
        /\ Num(DueDraw(s, n)) = (IF yt = "kakan" /\ D THEN 1 ELSE 0)
        /\ Num(yt \in Kans) = (IF yt \in Kans THEN 1 ELSE 0)
        /\ Num(yt = "tsumo" /\ W) = (IF yt = "tsumo" /\ W THEN 1 ELSE 0)
        /\ Num(yt \in {"dahai", "ankan"} /\ D) = (IF yt \in {"dahai", "ankan"} /\ D THEN 1 ELSE 0)
        /\ Num(yt = "ankan") = (IF yt = "ankan" THEN 1 ELSE 0)
    BY <1>12, <1>13 DEF Num
  <2> HIDE DEF yt
  <2>3. D /\ yt \notin {"tsumo", "dahai", "ankan", "kakan"} => FALSE
    BY <1>14 DEF yt
  <2>4. W => yt = "tsumo"
    BY <1>14 DEF yt
  <2>5. yt \in {"tsumo", "dahai", "reach", "reach_accepted", "ankan", "kakan", "chi", "pon", "daiminkan"}
    BY <1>10 DEF yt
  <2>6. KansUpTo(s, n) = k + Num(yt \in Kans) /\ k \in Nat
    BY <1>4 DEF yt
  <2>7. CASE yt = "tsumo"
    BY <1>11, <2>1, <2>2, <2>6, <2>7 DEF OpenKans, Kans
  <2>8. CASE yt = "dahai"
    BY <1>11, <2>1, <2>2, <2>4, <2>6, <2>8 DEF OpenKans, Kans
  <2>9. CASE yt = "ankan"
    BY <1>11, <2>1, <2>2, <2>4, <2>6, <2>9 DEF OpenKans, Kans
  <2>10. CASE yt = "kakan"
    BY <1>11, <2>1, <2>2, <2>4, <2>6, <2>10 DEF OpenKans, Kans
  <2>11. CASE yt \in {"reach", "reach_accepted", "chi", "pon", "daiminkan"}
    BY <1>11, <2>1, <2>2, <2>3, <2>4, <2>6, <2>11 DEF OpenKans, Kans
  <2> QED
    BY <2>5, <2>7, <2>8, <2>9, <2>10, <2>11
<1> QED
  BY <1>12, <1>13, <1>15 DEF y, D, W

\* One event more changes nothing of what was before.
LEMMA SameBefore ==
  ASSUME NEW s \in Seq(RoundEvents), NEW e \in RoundEvents, NEW n \in 0..Len(s)
  PROVE  LET t == Append(s, e)
         IN /\ DueDahai(t, n) = DueDahai(s, n) /\ DueDraw(t, n) = DueDraw(s, n)
            /\ ShownIn(t, n) = ShownIn(s, n)
            /\ Reached(t, n) = Reached(s, n)
            /\ \A y : Orderly(t, n, y) = Orderly(s, n, y)
<1> DEFINE t == Append(s, e)
<1>1. /\ t \in Seq(RoundEvents) /\ Len(t) = Len(s) + 1 /\ Len(s) \in Nat /\ n \in Nat
      /\ \A i \in 1..Len(s) : t[i] = s[i]
  BY Appended
<1> HIDE DEF t
<1>2. (n > 0 => t[n] = s[n]) /\ (n > 1 => t[n - 1] = s[n - 1]) /\ (n > 2 => t[n - 2] = s[n - 2])
  <2>1. (n > 0 => n \in 1..Len(s)) /\ (n > 1 => n - 1 \in 1..Len(s)) /\ (n > 2 => n - 2 \in 1..Len(s))
    BY <1>1
  <2> QED
    BY <1>1, <2>1
<1>3. First(t, n) = First(s, n)
  <2>1. /\ First(t, n) \in Seq(RoundEvents) /\ Len(First(t, n)) = n
        /\ First(s, n) \in Seq(RoundEvents) /\ Len(First(s, n)) = n
    <3>1. n \in 0..Len(t)
      BY <1>1
    <3> QED
      BY <1>1, <3>1, Firsts
  <2>2. ASSUME NEW i \in 1..n PROVE First(t, n)[i] = First(s, n)[i]
    <3>1. i \in 1..Len(s) /\ i \in 1..Len(t) /\ n \in 1..Len(t)
      BY <1>1
    <3>2. First(t, n)[i] = t[i] /\ First(s, n)[i] = s[i]
      BY <1>1, <3>1 DEF First
    <3> QED
      BY <1>1, <3>1, <3>2
  <2> QED
    BY <2>1, <2>2, SeqEqual
<1>4. DueDahai(t, n) = DueDahai(s, n) /\ DueDraw(t, n) = DueDraw(s, n) /\ Reached(t, n) = Reached(s, n)
  BY <1>2 DEF DueDahai, DueDraw, Reached
<1>5. ShownIn(t, n) = ShownIn(s, n)
  BY <1>3, <1>4 DEF ShownIn, KansUpTo
<1>6. ASSUME NEW y PROVE Orderly(t, n, y) = Orderly(s, n, y)
  BY <1>2, <1>4 DEF Orderly
<1> QED
  BY <1>4, <1>5, <1>6 DEF t

LEMMA OrderedAppend ==
  ASSUME NEW s, Ordered(s), NEW e \in RoundEvents, Chain(Append(s, e)), Orderly(s, Len(s), e)
  PROVE  LET t == Append(s, e)
             N == Len(s)
         IN /\ Ordered(t) /\ t # << >> /\ Len(t) = N + 1 /\ N \in Nat /\ t[N + 1] = e
            /\ DueDahai(t, N + 1) <=> e.type \in OpenKans \/ (e.type = "tsumo" /\ DueDahai(s, N))
            /\ DueDraw(t, N + 1) <=> e.type = "kakan" /\ DueDahai(s, N)
            /\ ShownIn(t, N + 1) = ShownIn(s, N) + ShownBy(e, DueDahai(s, N), DueDraw(s, N))
            /\ Reached(t, N + 1) <=> N > 0 /\ e.type = "dahai" /\ s[N].type = "reach"
<1> DEFINE t == Append(s, e)
           N == Len(s)
<1>1. /\ s \in Seq(RoundEvents) /\ \A n \in 1..N : Orderly(s, n - 1, s[n])
  BY DEF Ordered, Chain
<1>2. /\ t \in Seq(RoundEvents) /\ Len(t) = N + 1 /\ N \in Nat /\ t[N + 1] = e
      /\ \A i \in 1..N : t[i] = s[i]
  BY <1>1, Appended
<1>3. t # << >>
  BY <1>2, EmptySeq
<1>4. ASSUME NEW n \in 0..N
      PROVE  /\ DueDahai(t, n) = DueDahai(s, n) /\ DueDraw(t, n) = DueDraw(s, n)
             /\ ShownIn(t, n) = ShownIn(s, n) /\ Reached(t, n) = Reached(s, n)
             /\ \A y : Orderly(t, n, y) = Orderly(s, n, y)
  BY <1>1, SameBefore
<1>5. Chain(t)
  OBVIOUS
<1> HIDE DEF t, N
<1>6. ASSUME NEW n \in 1..(N + 1) PROVE Orderly(t, n - 1, t[n])
  <2>1. n - 1 \in 0..N /\ (n = N + 1 \/ n \in 1..N)
    BY <1>2
  <2>2. Orderly(t, n - 1, t[n]) = Orderly(s, n - 1, t[n])
    BY <1>4, <2>1
  <2>3. CASE n = N + 1
    <3>1. n - 1 = N /\ t[n] = e
      BY <1>2, <2>3
    <3> QED
      BY <2>2, <3>1 DEF N
  <2>4. CASE n \in 1..N
    BY <1>1, <1>2, <2>2, <2>4
  <2> QED
    BY <2>1, <2>3, <2>4
<1>7. Ordered(t)
  BY <1>2, <1>5, <1>6 DEF Ordered
<1>8. N + 1 \in 1..Len(t) /\ (N + 1) - 1 = N /\ N \in 0..N
  BY <1>2
<1>9. e.type = "reach" => ~DueDahai(s, N)
  BY DEF Orderly, N
<1>10. /\ DueDahai(t, N + 1) <=> \/ t[N + 1].type \in OpenKans
                                 \/ t[N + 1].type = "tsumo" /\ DueDahai(t, N)
       /\ DueDraw(t, N + 1) <=> t[N + 1].type = "kakan" /\ DueDahai(t, N)
       /\ ShownIn(t, N + 1) = ShownIn(t, N) + ShownBy(t[N + 1], DueDahai(t, N), DueDraw(t, N))
  <2>1. t[N + 1].type = "reach" => ~DueDahai(t, N)
    BY <1>2, <1>4, <1>8, <1>9
  <2> DEFINE M == N + 1
  <2>2. M \in 1..Len(t) /\ M - 1 = N
    BY <1>8
  <2> HIDE DEF M
  <2>3. /\ DueDahai(t, M) <=> \/ t[M].type \in OpenKans
                              \/ t[M].type = "tsumo" /\ DueDahai(t, M - 1)
        /\ DueDraw(t, M) <=> t[M].type = "kakan" /\ DueDahai(t, M - 1)
        /\ ShownIn(t, M) = ShownIn(t, M - 1) + ShownBy(t[M], DueDahai(t, M - 1), DueDraw(t, M - 1))
    <3>1. t[M].type = "reach" => ~DueDahai(t, M - 1)
      BY <2>1, <2>2 DEF M
    <3> QED
      BY <1>5, <2>2, <3>1, DueNext
  <2> QED
    BY <2>2, <2>3 DEF M
<1>11. Reached(t, N + 1) <=> N > 0 /\ e.type = "dahai" /\ s[N].type = "reach"
  <2>1. N > 0 => t[N] = s[N]
    BY <1>2
  <2> QED
    BY <1>2, <1>8, <2>1 DEF Reached
<1> QED
  BY <1>2, <1>3, <1>4, <1>7, <1>8, <1>10, <1>11 DEF t, N

\* How the table goes with the events so far.
TableFits(s, t, shown) ==
  LET n == Len(s)
  IN /\ n = 0 => t.stage = "draw" /\ t.seat = 0
     /\ n > 0 /\ t.stage = "draw" =>
          t.seat = IF s[n].type = "dahai" THEN Shimocha(s[n].actor) ELSE s[n].actor
     /\ t.stage = "open" => t.last = s[n].pai
     /\ t.stage # "over" => t.accept = IF Reached(s, n) THEN s[n].actor ELSE Nobody
     /\ n > 0 /\ t.stage \in {"draw", "kakan"} /\ s[n].type \in OpenKans => t.seat \in t.opened
     /\ \A a \in Seats : t.pons[a] # {} => a \in t.opened
     /\ t.atDiscard = Num(DueDahai(s, n)) /\ t.atDraw = Num(DueDraw(s, n))
     /\ ShownIn(s, n) = shown - 1
TurnsInv == Ordered(played) /\ TableFits(played, table, indicators)

LEMMA TurnsInit == Init => TurnsInv
<1> SUFFICES ASSUME Init PROVE TurnsInv
  OBVIOUS
<1>1. played = << >> /\ Len(played) = 0 /\ indicators = 1
  BY EmptySeq DEF Init
<1>2. /\ table.stage = "draw" /\ table.seat = 0 /\ table.accept = Nobody
      /\ table.atDiscard = 0 /\ table.atDraw = 0 /\ \A a \in Seats : table.pons[a] = {}
  BY DEF Init
<1>3. Ordered(played)
  BY <1>1, PlayedInit DEF PlayedInv, Ordered
<1>4. ~DueDahai(played, 0) /\ ~DueDraw(played, 0) /\ ~Reached(played, 0)
  BY DEF DueDahai, DueDraw, Reached
<1>5. KansUpTo(played, 0) = 0
  <2>1. played \in Seq(RoundEvents)
    BY <1>3 DEF Ordered, Chain
  <2>2. Kept(First(played, 0), KanEvents) = << >>
    <3>1. First(played, 0) = << >>
      BY <2>1, Firsts
    <3> QED
      BY <3>1, KeptEmpty
  <2> QED
    BY <1>1, <2>2 DEF KansUpTo
<1>6. ShownIn(played, 0) = 0
  BY <1>4, <1>5 DEF ShownIn, Num
<1> QED
  BY <1>1, <1>2, <1>3, <1>4, <1>6 DEF TurnsInv, TableFits, Num

\* What the last event says.
LEMMA LastPlayed ==
  ASSUME RoundInv, PlayedInv, TurnsInv
  PROVE  LET s == played
             n == Len(s)
             q == s[n]
         IN /\ s \in Seq(RoundEvents) /\ n \in Nat
            /\ n > 0 => q \in RoundEvents
            /\ n = 0 => table.stage = "draw" /\ table.seat = 0
            /\ n > 0 /\ table.stage = "draw" =>
                 /\ q.type \in {"dahai", "ankan", "daiminkan"}
                 /\ table.seat = IF q.type = "dahai" THEN Shimocha(q.actor) ELSE q.actor
            /\ table.stage = "kakan" => q.type = "kakan" /\ q.actor = table.seat
            /\ table.stage = "open" => q.type = "dahai" /\ q.actor = table.seat /\ table.last = q.pai
            /\ table.stage = "hold" => q.type \in {"chi", "pon"} /\ q.actor = table.seat
            /\ table.stage # "over" => table.accept = IF Reached(s, n) THEN q.actor ELSE Nobody
            /\ table.accept # Nobody => table.accept \in Seats /\ n > 0 /\ q.type = "dahai"
            /\ DueDahai(s, n) <=> table.atDiscard = 1
            /\ DueDraw(s, n) <=> table.atDraw = 1
            /\ table.atDiscard \in {0, 1} /\ table.atDraw \in {0, 1}
            /\ ShownIn(s, n) = indicators - 1 /\ indicators - 1 \in Int
<1> DEFINE n == Len(played)
           q == played[n]
<1>1. /\ played \in Seq(RoundEvents) /\ n \in Nat /\ indicators \in Nat
      /\ (n = 0 <=> played = << >>) /\ (n > 0 => q \in RoundEvents)
  <2>1. played \in Seq(RoundEvents) /\ indicators \in Nat
    BY DEF PlayedInv, Chain, RoundInv
  <2>2. n \in Nat /\ (n = 0 <=> played = << >>)
    BY <2>1, EmptySeq, LenProperties
  <2>3. n > 0 => n \in 1..n
    BY <2>2
  <2> QED
    BY <2>1, <2>2, <2>3, ElementOfSeq
<1>2. LastFits(played, table) /\ TableFits(played, table, indicators)
  BY DEF PlayedInv, TurnsInv
<1>3. n = 0 => table.stage = "draw" /\ table.seat = 0
  BY <1>2 DEF TableFits
<1>4. n > 0 /\ table.stage = "draw" =>
        /\ q.type \in {"dahai", "ankan", "daiminkan"}
        /\ table.seat = IF q.type = "dahai" THEN Shimocha(q.actor) ELSE q.actor
  BY <1>1, <1>2 DEF LastFits, LastIs, TableFits
<1>5. /\ table.stage = "kakan" => q.type = "kakan" /\ q.actor = table.seat
      /\ table.stage = "open" => q.type = "dahai" /\ q.actor = table.seat /\ table.last = q.pai
      /\ table.stage = "hold" => q.type \in {"chi", "pon"} /\ q.actor = table.seat
      /\ table.accept # Nobody => table.accept \in Seats /\ n > 0 /\ q.type = "dahai"
  BY <1>1, <1>2 DEF LastFits, LastIs, TableFits
<1>6. table.stage # "over" => table.accept = IF Reached(played, n) THEN q.actor ELSE Nobody
  BY <1>2 DEF TableFits
<1>7. /\ table.atDiscard = Num(DueDahai(played, n)) /\ table.atDraw = Num(DueDraw(played, n))
      /\ ShownIn(played, n) = indicators - 1
  BY <1>2 DEF TableFits
<1>8. /\ DueDahai(played, n) <=> table.atDiscard = 1
      /\ DueDraw(played, n) <=> table.atDraw = 1
      /\ table.atDiscard \in {0, 1} /\ table.atDraw \in {0, 1}
  BY <1>7 DEF Num
<1> HIDE DEF n, q
<1>9. indicators - 1 \in Int
  BY <1>1
<1> QED
  BY <1>1, <1>3, <1>4, <1>5, <1>6, <1>7, <1>8, <1>9 DEF n, q

\* The next event, after the acceptance of a reach that waits for it.
LEMMA TurnsBegin ==
  ASSUME RoundInv, PlayedInv, TurnsInv, NEW e \in RoundEvents,
         \/ table.stage \in {"draw", "kakan"} /\ e.type = "tsumo" /\ e.actor = table.seat
         \/ /\ table.stage = "open" /\ e.type \in Nakis
            /\ e.target = table.seat /\ e.pai = table.last /\ e.actor # table.seat
         \/ /\ table.stage = "hold" /\ e.type = "dahai"
            /\ e.actor = table.seat /\ e.target = table.seat /\ e.pai \in Tiles
  PROVE  LET t == Append(played \o Accepted, e)
             n == Len(t)
             d == table.atDiscard = 1
             w == table.atDraw = 1
         IN /\ played \o Accepted \in Seq(RoundEvents)
            /\ Ordered(t) /\ n \in Nat \ {0} /\ t[n] = e
            /\ DueDahai(t, n) <=> e.type \in OpenKans \/ (e.type = "tsumo" /\ d)
            /\ ~DueDraw(t, n) /\ ~Reached(t, n)
            /\ ShownIn(t, n) = indicators - 1 + ShownBy(e, d, w)
<1> DEFINE s == played
           N == Len(s)
           q == s[N]
           d == table.atDiscard = 1
           w == table.atDraw = 1
           b == table.seat
<1>1. /\ s \in Seq(RoundEvents) /\ N \in Nat
      /\ N > 0 => q \in RoundEvents
      /\ N = 0 => table.stage = "draw" /\ b = 0
      /\ N > 0 /\ table.stage = "draw" =>
           /\ q.type \in {"dahai", "ankan", "daiminkan"}
           /\ b = IF q.type = "dahai" THEN Shimocha(q.actor) ELSE q.actor
      /\ table.stage = "kakan" => q.type = "kakan" /\ q.actor = b
      /\ table.stage = "open" => q.type = "dahai" /\ q.actor = b /\ table.last = q.pai
      /\ table.stage = "hold" => q.type \in {"chi", "pon"} /\ q.actor = b
      /\ table.stage # "over" => table.accept = IF Reached(s, N) THEN q.actor ELSE Nobody
      /\ table.accept # Nobody => table.accept \in Seats /\ N > 0 /\ q.type = "dahai"
      /\ DueDahai(s, N) <=> d
      /\ DueDraw(s, N) <=> w
      /\ ShownIn(s, N) = indicators - 1 /\ indicators - 1 \in Int
  BY LastPlayed
<1>2. table.stage \in {"draw", "kakan", "open", "hold"} /\ table \in Table
      /\ (table.stage = "open" => table.last \in Tiles)
  BY DEF RoundInv
<1>3. Ordered(s)
  BY DEF TurnsInv
<1>4. /\ s \o Accepted \in Seq(RoundEvents) /\ Chain(Append(s \o Accepted, e))
  <2>1. \/ table.stage \in {"draw", "kakan"} /\ e.type = "tsumo"
        \/ table.stage = "open" /\ e.type \in Nakis
        \/ table.stage = "hold" /\ e.type = "dahai"
    OBVIOUS
  <2> QED
    BY <1>2, <2>1, AfterAccepted
<1>5. e.type \notin {"reach", "reach_accepted", "kakan"} /\ (e.type \in {"dahai"} \cup Nakis => e.pai \in Tiles)
      /\ (e.type = "dahai" => e.target = e.actor)
  BY <1>2 DEF Nakis
<1> HIDE DEF s, N, q, d, w, b
<1>6. CASE table.accept = Nobody
  <2>1. s \o Accepted = s
    BY <1>1, <1>6, Lengthened DEF Accepted
  <2>2. ~(N > 0 /\ Reached(s, N))
    <3>1. Reached(s, N) => table.accept = q.actor
      BY <1>1, <1>2
    <3>2. N > 0 => q.actor \in Seats
      BY <1>1 DEF RoundEvents
    <3> QED
      BY <1>6, <3>1, <3>2, NobodyAssumption
  <2>3. N > 0 => /\ s[N].type \notin {"dahai", "reach_accepted"} => e.actor = s[N].actor
                 /\ s[N].type = "dahai" => AfterDahai(s[N], e)
                 /\ s[N].type # "reach_accepted"
    <3> SUFFICES ASSUME N > 0
                 PROVE  /\ q.type \notin {"dahai", "reach_accepted"} => e.actor = q.actor
                        /\ q.type = "dahai" => AfterDahai(q, e)
                        /\ q.type # "reach_accepted"
      BY DEF q
    <3>1. CASE table.stage = "draw"
      BY <1>1, <3>1 DEF AfterDahai, b, Nakis
    <3>2. CASE table.stage = "kakan"
      BY <1>1, <3>2 DEF b
    <3>3. CASE table.stage = "open"
      BY <1>1, <3>3 DEF AfterDahai, b, Nakis
    <3>4. CASE table.stage = "hold"
      BY <1>1, <3>4 DEF b
    <3> QED
      BY <1>2, <3>1, <3>2, <3>3, <3>4
  <2>4. N = 0 => e.actor = 0
    BY <1>1 DEF b
  <2>5. Orderly(s, N, e)
    BY <1>5, <2>2, <2>3, <2>4 DEF Orderly
  <2>6. LET t == Append(s, e)
        IN /\ Ordered(t) /\ t # << >> /\ Len(t) = N + 1 /\ N \in Nat /\ t[N + 1] = e
           /\ DueDahai(t, N + 1) <=> e.type \in OpenKans \/ (e.type = "tsumo" /\ DueDahai(s, N))
           /\ DueDraw(t, N + 1) <=> e.type = "kakan" /\ DueDahai(s, N)
           /\ ShownIn(t, N + 1) = ShownIn(s, N) + ShownBy(e, DueDahai(s, N), DueDraw(s, N))
           /\ Reached(t, N + 1) <=> N > 0 /\ e.type = "dahai" /\ s[N].type = "reach"
    BY <1>3, <1>4, <2>1, <2>5, OrderedAppend DEF N
  <2> DEFINE t == Append(s, e)
  <2>7. ~Reached(t, N + 1) /\ ~DueDraw(t, N + 1)
    <3>1. N > 0 /\ e.type = "dahai" => s[N].type # "reach"
      BY <1>1, <1>2 DEF q, Nakis
    <3> QED
      BY <1>5, <2>6, <3>1
  <2>8. ShownBy(e, DueDahai(s, N), DueDraw(s, N)) = ShownBy(e, d, w)
    BY <1>1 DEF ShownBy, d, w, Num, DueDahai, DueDraw
  <2> HIDE DEF t
  <2>9. /\ Ordered(t) /\ Len(t) = N + 1 /\ t[N + 1] = e
        /\ DueDahai(t, N + 1) <=> e.type \in OpenKans \/ (e.type = "tsumo" /\ d)
        /\ ShownIn(t, N + 1) = indicators - 1 + ShownBy(e, d, w)
    BY <1>1, <2>6, <2>8 DEF t
  <2>10. N + 1 \in Nat \ {0} /\ t = Append(s \o Accepted, e)
    BY <1>1, <2>1 DEF t
  <2> QED
    BY <1>4, <2>7, <2>9, <2>10 DEF t, s, d, w
<1>7. CASE table.accept # Nobody
  <2> DEFINE a == q.actor
             r == Event("reach_accepted", a, a, Other)
             u == Append(s, r)
  <2>1. N > 0 /\ q.type = "dahai" /\ Reached(s, N) /\ table.accept = a /\ a \in Seats /\ q \in RoundEvents
    BY <1>1, <1>2, <1>7
  <2>2. r \in RoundEvents /\ r.type = "reach_accepted" /\ r.actor = a
    BY <2>1 DEF Event, RoundEvents
  <2>3. s \o Accepted = u
    BY <1>1, <1>7, <2>1, <2>2, Lengthened DEF Accepted
  <2>4. /\ Chain(u) /\ s # << >>
    <3>1. s # << >> /\ Follows(s[Len(s)], r)
      <4>1. s # << >>
        BY <1>1, <2>1, EmptySeq DEF N
      <4> QED
        BY <2>1, <2>2, <4>1 DEF Follows, q, N
    <3> QED
      BY <1>3, <2>2, <3>1, ChainAppend DEF Ordered
  <2>5. Orderly(s, N, r)
    <3>1. s[N].type = "dahai" /\ s[N].actor = a
      BY <2>1 DEF q
    <3> HIDE DEF a
    <3>2. r.type = "reach_accepted" /\ r.type \notin {"dahai", "reach"} \cup Nakis
      BY <2>2 DEF Nakis
    <3> QED
      BY <1>1, <2>1, <3>1, <3>2 DEF Orderly
  <2> HIDE DEF a, r
  <2>6. /\ Ordered(u) /\ Len(u) = N + 1 /\ u[N + 1] = r
        /\ DueDahai(u, N + 1) <=> r.type \in OpenKans \/ (r.type = "tsumo" /\ DueDahai(s, N))
        /\ DueDraw(u, N + 1) <=> r.type = "kakan" /\ DueDahai(s, N)
        /\ ShownIn(u, N + 1) = ShownIn(s, N) + ShownBy(r, DueDahai(s, N), DueDraw(s, N))
        /\ u \in Seq(RoundEvents) /\ u[N] = s[N]
    <3>1. u \in Seq(RoundEvents) /\ u[N] = s[N]
      <4>1. N \in 1..N
        BY <1>1, <2>1
      <4> QED
        BY <1>1, <2>2, <4>1, Appended DEF N
    <3> QED
      BY <1>3, <2>2, <2>4, <2>5, <3>1, OrderedAppend DEF N
  <2>7. /\ ~DueDahai(u, N + 1) /\ ~DueDraw(u, N + 1) /\ ShownIn(u, N + 1) = indicators - 1
        /\ ~DueDahai(s, N) /\ ~DueDraw(s, N)
    <3>1. ~DueDahai(s, N) /\ ~DueDraw(s, N)
      BY <2>1 DEF DueDahai, DueDraw, OpenKans, q
    <3>2. ShownBy(r, DueDahai(s, N), DueDraw(s, N)) = 0
      BY <2>2 DEF ShownBy, Num
    <3> QED
      BY <1>1, <2>2, <2>6, <3>1, <3>2 DEF OpenKans
  <2>8. ~d /\ ~w
    BY <1>1, <2>7
  <2> DEFINE M == N + 1
  <2>9. M = Len(u) /\ M > 1 /\ M - 1 = N /\ M \in Nat /\ u[M] = r
    BY <1>1, <2>1, <2>6
  <2>10. AfterDahai(q, e)
    <3>1. table.stage \in {"draw", "open"}
      BY <1>1, <1>2, <2>1
    <3> QED
      BY <1>1, <2>1, <3>1 DEF AfterDahai, b, Nakis
  <2>11. Orderly(u, M, e)
    <3>1. /\ u[M].type = "reach_accepted" /\ u[M - 1] = q
      BY <2>2, <2>6, <2>9 DEF q
    <3> HIDE DEF M, u
    <3> QED
      BY <1>5, <2>9, <2>10, <3>1 DEF Orderly
  <2>12. Chain(Append(u, e))
    BY <1>4, <2>3
  <2> DEFINE t == Append(u, e)
  <2>13. /\ Ordered(t) /\ Len(t) = M + 1 /\ t[M + 1] = e
         /\ DueDahai(t, M + 1) <=> e.type \in OpenKans \/ (e.type = "tsumo" /\ DueDahai(u, M))
         /\ DueDraw(t, M + 1) <=> e.type = "kakan" /\ DueDahai(u, M)
         /\ ShownIn(t, M + 1) = ShownIn(u, M) + ShownBy(e, DueDahai(u, M), DueDraw(u, M))
         /\ Reached(t, M + 1) <=> M > 0 /\ e.type = "dahai" /\ u[M].type = "reach"
    <3> DEFINE L == Len(u)
    <3>1. L = M
      BY <2>9
    <3>2. Orderly(u, L, e)
      BY <2>11, <3>1
    <3> HIDE DEF M, u, L
    <3>3. /\ Ordered(t) /\ Len(t) = L + 1 /\ t[L + 1] = e
          /\ DueDahai(t, L + 1) <=> e.type \in OpenKans \/ (e.type = "tsumo" /\ DueDahai(u, L))
          /\ DueDraw(t, L + 1) <=> e.type = "kakan" /\ DueDahai(u, L)
          /\ ShownIn(t, L + 1) = ShownIn(u, L) + ShownBy(e, DueDahai(u, L), DueDraw(u, L))
          /\ Reached(t, L + 1) <=> L > 0 /\ e.type = "dahai" /\ u[L].type = "reach"
      BY <2>6, <2>12, <3>2, OrderedAppend DEF L
    <3> QED
      BY <3>1, <3>3
  <2>14. ShownBy(e, DueDahai(u, M), DueDraw(u, M)) = ShownBy(e, d, w)
    BY <2>7, <2>8 DEF ShownBy, Num
  <2>15. M + 1 \in Nat \ {0} /\ t = Append(s \o Accepted, e)
    BY <2>3, <2>9
  <2>16. /\ ~Reached(t, M + 1) /\ ~DueDraw(t, M + 1)
         /\ DueDahai(t, M + 1) <=> e.type \in OpenKans \/ (e.type = "tsumo" /\ d)
         /\ ShownIn(t, M + 1) = indicators - 1 + ShownBy(e, d, w)
    <3> HIDE DEF t, M
    <3> QED
      BY <1>5, <2>2, <2>7, <2>8, <2>9, <2>13, <2>14 DEF M
  <2> HIDE DEF t, M, u
  <2> QED
    BY <1>4, <2>13, <2>15, <2>16 DEF s, d, w
<1> QED
  BY <1>6, <1>7

\* What the seat does next that has drawn, called or declared reach.
LEMMA TurnGoesOn ==
  ASSUME NEW t, Ordered(t), NEW n \in Nat \ {0}, n = Len(t),
         t[n].type \notin {"dahai", "reach_accepted"}, NEW y \in RoundEvents,
         Follows(t[n], y), y.actor = t[n].actor,
         y.type \in {"dahai", "reach", "ankan", "kakan"},
         y.type = "dahai" => y.pai \in Tiles /\ y.target = y.actor,
         y.type = "reach" => ~DueDahai(t, n)
  PROVE  LET u == Append(t, y)
         IN /\ Ordered(u) /\ n + 1 \in Nat \ {0} /\ n + 1 = Len(u) /\ u[n + 1] = y
            /\ DueDahai(u, n + 1) <=> y.type = "kakan"
            /\ DueDraw(u, n + 1) <=> y.type = "kakan" /\ DueDahai(t, n)
            /\ ShownIn(u, n + 1) = ShownIn(t, n) + ShownBy(y, DueDahai(t, n), DueDraw(t, n))
            /\ Reached(u, n + 1) <=> y.type = "dahai" /\ t[n].type = "reach"
<1> DEFINE u == Append(t, y)
           N == Len(t)
<1>1. N = n /\ N > 0
  OBVIOUS
<1>2. Orderly(t, N, y)
  <2>1. y.type \notin Nakis
    BY DEF Nakis
  <2> QED
    BY <1>1, <2>1 DEF Orderly
<1>3. Chain(u)
  <2>1. t # << >>
    BY <1>1, EmptySeq
  <2> QED
    BY <2>1, ChainAppend DEF Ordered
<1> HIDE DEF u, N
<1>4. /\ Ordered(u) /\ Len(u) = N + 1 /\ u[N + 1] = y
      /\ DueDahai(u, N + 1) <=> y.type \in OpenKans \/ (y.type = "tsumo" /\ DueDahai(t, N))
      /\ DueDraw(u, N + 1) <=> y.type = "kakan" /\ DueDahai(t, N)
      /\ ShownIn(u, N + 1) = ShownIn(t, N) + ShownBy(y, DueDahai(t, N), DueDraw(t, N))
      /\ Reached(u, N + 1) <=> N > 0 /\ y.type = "dahai" /\ t[N].type = "reach"
  BY <1>2, <1>3, OrderedAppend DEF u, N
<1>5. DueDahai(u, n + 1) <=> y.type = "kakan"
  BY <1>1, <1>4 DEF OpenKans
<1>6. n + 1 \in Nat \ {0}
  OBVIOUS
<1> QED
  BY <1>1, <1>4, <1>5, <1>6 DEF u

\* A seat that declares reach has no kan whose indicator is due.
LEMMA NoneDue ==
  ASSUME RoundInv, PlayedInv, TurnsInv, table.stage \in {"draw", "kakan"}, table.seat \notin table.opened
  PROVE  table.atDiscard = 0
<1> DEFINE n == Len(played)
           q == played[n]
<1>1. /\ n \in Nat
      /\ n > 0 /\ table.stage = "draw" => q.type \in {"dahai", "ankan", "daiminkan"}
      /\ table.stage = "kakan" => q.type = "kakan"
      /\ DueDahai(played, n) <=> table.atDiscard = 1
      /\ table.atDiscard \in {0, 1}
  BY LastPlayed
<1>2. n > 0 => q.type \notin OpenKans
  BY DEF TurnsInv, TableFits
<1>3. n > 0 => q.type # "tsumo"
  BY <1>1
<1>4. ~DueDahai(played, n)
  BY <1>2, <1>3 DEF DueDahai
<1> QED
  BY <1>1, <1>4

LEMMA TurnsStep == RoundInv /\ PlayedInv /\ TurnsInv /\ Play => TurnsInv'
<1> SUFFICES ASSUME RoundInv, PlayedInv, TurnsInv, Play PROVE TurnsInv'
  OBVIOUS
<1>1. /\ table \in Table /\ (table.stage = "open" => table.last \in Tiles) /\ table.seat \in Seats
      /\ indicators \in Nat
  BY DEF RoundInv, Table
<1>2. RoundInv' /\ PlayedInv'
  BY RoundStep, PlayedStep
<1>3. \A a \in Seats : table.pons[a] # {} => a \in table.opened
  BY DEF TurnsInv, TableFits
<1> DEFINE b == table.seat
           d == table.atDiscard = 1
           w == table.atDraw = 1
           s == played \o Accepted
<1>4. /\ table.atDiscard \in {0, 1} /\ table.atDraw \in {0, 1}
      /\ table.atDiscard = Num(d) /\ table.atDraw = Num(w) /\ d \in BOOLEAN /\ w \in BOOLEAN
  <2>1. table.atDiscard \in {0, 1} /\ table.atDraw \in {0, 1}
    BY LastPlayed
  <2> QED
    BY <2>1 DEF Num
\* What is left to show of each action.
<1>5. ASSUME NEW u, played' = u, Ordered(u), NEW n \in Nat \ {0}, n = Len(u),
             table'.stage = "draw" =>
               table'.seat = IF u[n].type = "dahai" THEN Shimocha(u[n].actor) ELSE u[n].actor,
             table'.stage = "open" => table'.last = u[n].pai,
             table'.stage # "over" => table'.accept = IF Reached(u, n) THEN u[n].actor ELSE Nobody,
             table'.stage \in {"draw", "kakan"} /\ u[n].type \in OpenKans => table'.seat \in table'.opened,
             \A a \in Seats : table'.pons[a] # {} => a \in table'.opened,
             table'.atDiscard = Num(DueDahai(u, n)), table'.atDraw = Num(DueDraw(u, n)),
             ShownIn(u, n) = indicators' - 1
      PROVE  TurnsInv'
  BY <1>5 DEF TurnsInv, TableFits
\* Turns that begin with a draw.
<1>6. ASSUME NEW p \in Tiles \cup {Other}, ToDraw
      PROVE  LET x == Event("tsumo", b, b, p)
                 t == Append(s, x)
             IN /\ x \in RoundEvents /\ x.type = "tsumo" /\ x.actor = b
                /\ s \in Seq(RoundEvents)
                /\ Ordered(t) /\ Len(t) \in Nat \ {0} /\ t[Len(t)] = x
                /\ DueDahai(t, Len(t)) <=> d
                /\ ~DueDraw(t, Len(t)) /\ ~Reached(t, Len(t))
                /\ ShownIn(t, Len(t)) = indicators - 1 + table.atDraw
  <2> DEFINE x == Event("tsumo", b, b, p)
  <2>1. x \in RoundEvents /\ x.type = "tsumo" /\ x.actor = b
    BY <1>1 DEF Event, RoundEvents
  <2>2. table.stage \in {"draw", "kakan"}
    BY <1>6 DEF ToDraw
  <2> HIDE DEF x, b
  <2>3. LET t == Append(s, x)
            n == Len(t)
        IN /\ s \in Seq(RoundEvents)
           /\ Ordered(t) /\ n \in Nat \ {0} /\ t[n] = x
           /\ DueDahai(t, n) <=> x.type \in OpenKans \/ (x.type = "tsumo" /\ d)
           /\ ~DueDraw(t, n) /\ ~Reached(t, n)
           /\ ShownIn(t, n) = indicators - 1 + ShownBy(x, d, w)
    BY <2>1, <2>2, TurnsBegin DEF b
  <2> HIDE DEF s, d, w
  <2>4. ShownBy(x, d, w) = table.atDraw
    BY <1>4, <2>1 DEF ShownBy, Num
  <2> QED
    BY <2>1, <2>3, <2>4 DEF OpenKans, x
<1>7. ASSUME NEW t \in Tiles, NEW giri \in BOOLEAN, DrawAndDiscard(t, giri) PROVE TurnsInv'
  <2> DEFINE p == IF giri THEN t ELSE Other
             x == Event("tsumo", b, b, p)
             y == Event("dahai", b, b, t)
             v == Append(s, x)
             n == Len(v)
             u == Append(v, y)
  <2>1. /\ Played(<<x, y>>) /\ ToDraw /\ p \in Tiles \cup {Other}
        /\ indicators' = indicators + table.atDraw + table.atDiscard
    BY <1>7 DEF DrawAndDiscard, Drew, Did
  <2>2. /\ table'.stage = "open" /\ table'.last = t /\ table'.accept = Nobody
        /\ table'.atDiscard = 0 /\ table'.atDraw = 0
        /\ table'.opened = table.opened /\ table'.pons = table.pons
    BY <1>1, <1>7 DEF DrawAndDiscard, Table
  <2> HIDE DEF p
  <2>3. /\ x \in RoundEvents /\ x.type = "tsumo" /\ x.actor = b
        /\ s \in Seq(RoundEvents)
        /\ Ordered(v) /\ n \in Nat \ {0} /\ v[n] = x
        /\ DueDahai(v, n) <=> d
        /\ ~DueDraw(v, n) /\ ~Reached(v, n)
        /\ ShownIn(v, n) = indicators - 1 + table.atDraw
    BY <1>6, <2>1
  <2>4. /\ y \in RoundEvents /\ y.type = "dahai" /\ y.actor = b /\ y.target = y.actor /\ y.pai = t
    BY <1>1 DEF Event, RoundEvents
  <2> HIDE DEF x, y, b, d, w
  <2>5. played' = u
    BY <2>1, <2>3, <2>4, Lengthened DEF Played
  <2> HIDE DEF s, v, n
  <2>6. Follows(v[n], y) /\ v[n].type \notin {"dahai", "reach_accepted"} /\ y.actor = v[n].actor
    BY <2>3, <2>4 DEF Follows
  <2>7. /\ Ordered(u) /\ n + 1 \in Nat \ {0} /\ n + 1 = Len(u) /\ u[n + 1] = y
        /\ DueDahai(u, n + 1) <=> y.type = "kakan"
        /\ DueDraw(u, n + 1) <=> y.type = "kakan" /\ DueDahai(v, n)
        /\ ShownIn(u, n + 1) = ShownIn(v, n) + ShownBy(y, DueDahai(v, n), DueDraw(v, n))
        /\ Reached(u, n + 1) <=> y.type = "dahai" /\ v[n].type = "reach"
    BY <2>3, <2>4, <2>6, TurnGoesOn DEF n
  <2>8. ShownBy(y, DueDahai(v, n), DueDraw(v, n)) = table.atDiscard
    BY <1>4, <2>3, <2>4 DEF ShownBy, Num
  <2>9. ShownIn(u, n + 1) = indicators' - 1
    BY <1>1, <1>4, <2>1, <2>3, <2>7, <2>8
  <2>10. ~DueDahai(u, n + 1) /\ ~DueDraw(u, n + 1) /\ ~Reached(u, n + 1) /\ Num(FALSE) = 0
    BY <2>3, <2>4, <2>7 DEF Num
  <2>11. table'.atDiscard = Num(DueDahai(u, n + 1)) /\ table'.atDraw = Num(DueDraw(u, n + 1))
    BY <2>2, <2>10 DEF Num
  <2> DEFINE m == n + 1
  <2> HIDE DEF u, m
  <2>12. m \in Nat \ {0} /\ m = Len(u) /\ u[m] = y /\ ~Reached(u, m) /\ ShownIn(u, m) = indicators' - 1
         /\ table'.atDiscard = Num(DueDahai(u, m)) /\ table'.atDraw = Num(DueDraw(u, m))
    BY <2>7, <2>9, <2>10, <2>11 DEF m
  <2> QED
    BY <1>3, <1>5, <2>2, <2>4, <2>5, <2>7, <2>12
<1>8. ASSUME NEW t \in Tiles, NEW giri \in BOOLEAN, DrawAndReach(t, giri) PROVE TurnsInv'
  <2> DEFINE p == IF giri THEN t ELSE Other
             x == Event("tsumo", b, b, p)
             z == Event("reach", b, b, Other)
             y == Event("dahai", b, b, t)
             v == Append(s, x)
             n == Len(v)
             r == Append(v, z)
             u == Append(r, y)
  <2>1. /\ Played(<<x, z, y>>) /\ ToDraw /\ p \in Tiles \cup {Other}
        /\ indicators' = indicators + table.atDraw + table.atDiscard
        /\ table.stage \in {"draw", "kakan"} /\ table.seat \notin table.opened
    BY <1>8 DEF DrawAndReach, Drew, Did, ToDraw
  <2>2. /\ table'.stage = "open" /\ table'.last = t /\ table'.accept = b
        /\ table'.atDiscard = 0 /\ table'.atDraw = 0
        /\ table'.opened = table.opened /\ table'.pons = table.pons
    BY <1>1, <1>8 DEF DrawAndReach, Table
  <2> HIDE DEF p
  <2>3. /\ x \in RoundEvents /\ x.type = "tsumo" /\ x.actor = b
        /\ s \in Seq(RoundEvents)
        /\ Ordered(v) /\ n \in Nat \ {0} /\ v[n] = x
        /\ DueDahai(v, n) <=> d
        /\ ~DueDraw(v, n) /\ ~Reached(v, n)
        /\ ShownIn(v, n) = indicators - 1 + table.atDraw
    BY <1>6, <2>1
  <2>4. /\ y \in RoundEvents /\ y.type = "dahai" /\ y.actor = b /\ y.target = y.actor /\ y.pai = t
        /\ z \in RoundEvents /\ z.type = "reach" /\ z.actor = b /\ Follows(z, y)
    BY <1>1 DEF Event, RoundEvents, Follows
  <2>5. table.atDiscard = 0 /\ ~d
    BY <2>1, NoneDue
  <2> HIDE DEF x, y, z, b, d, w
  <2>6. played' = u
    BY <2>1, <2>3, <2>4, Lengthened DEF Played
  <2> HIDE DEF s, v, n
  <2>7. Follows(v[n], z) /\ v[n].type \notin {"dahai", "reach_accepted"} /\ z.actor = v[n].actor
    BY <2>3, <2>4 DEF Follows
  <2>8. /\ Ordered(r) /\ n + 1 \in Nat \ {0} /\ n + 1 = Len(r) /\ r[n + 1] = z
        /\ DueDahai(r, n + 1) <=> z.type = "kakan"
        /\ DueDraw(r, n + 1) <=> z.type = "kakan" /\ DueDahai(v, n)
        /\ ShownIn(r, n + 1) = ShownIn(v, n) + ShownBy(z, DueDahai(v, n), DueDraw(v, n))
        /\ Reached(r, n + 1) <=> z.type = "dahai" /\ v[n].type = "reach"
    BY <2>3, <2>4, <2>5, <2>7, TurnGoesOn DEF n
  <2> DEFINE k == n + 1
  <2> HIDE DEF r, k
  <2>9. /\ k \in Nat \ {0} /\ k = Len(r) /\ r[k] = z /\ ~DueDahai(r, k) /\ ~DueDraw(r, k)
        /\ ShownIn(r, k) = indicators - 1 + table.atDraw
    <3>1. ShownBy(z, DueDahai(v, n), DueDraw(v, n)) = 0
      BY <2>4 DEF ShownBy, Num
    <3> QED
      BY <1>1, <1>4, <2>3, <2>4, <2>8, <3>1 DEF k
  <2>10. /\ Ordered(u) /\ k + 1 \in Nat \ {0} /\ k + 1 = Len(u) /\ u[k + 1] = y
         /\ DueDahai(u, k + 1) <=> y.type = "kakan"
         /\ DueDraw(u, k + 1) <=> y.type = "kakan" /\ DueDahai(r, k)
         /\ ShownIn(u, k + 1) = ShownIn(r, k) + ShownBy(y, DueDahai(r, k), DueDraw(r, k))
         /\ Reached(u, k + 1) <=> y.type = "dahai" /\ r[k].type = "reach"
    <3>1. Follows(r[k], y) /\ r[k].type \notin {"dahai", "reach_accepted"} /\ y.actor = r[k].actor
      BY <2>4, <2>9
    <3> QED
      BY <2>4, <2>8, <2>9, <3>1, TurnGoesOn
  <2>11. ShownBy(y, DueDahai(r, k), DueDraw(r, k)) = 0
    BY <2>4, <2>9 DEF ShownBy, Num
  <2> DEFINE m == k + 1
  <2> HIDE DEF u, m
  <2>12. m \in Nat \ {0} /\ m = Len(u) /\ u[m] = y /\ Reached(u, m) /\ ShownIn(u, m) = indicators' - 1
         /\ ~DueDahai(u, m) /\ ~DueDraw(u, m)
    BY <1>1, <1>4, <2>1, <2>4, <2>5, <2>9, <2>10, <2>11 DEF m
  <2>13. table'.atDiscard = Num(DueDahai(u, m)) /\ table'.atDraw = Num(DueDraw(u, m))
    BY <2>2, <2>12 DEF Num
  <2> QED
    BY <1>3, <1>5, <2>2, <2>4, <2>6, <2>10, <2>12, <2>13
<1>9. ASSUME NEW t \in Tiles, DrawAndAnkan(t) \/ DrawAndKakan(t) PROVE TurnsInv'
  <2> DEFINE kind == IF DrawAndAnkan(t) THEN "ankan" ELSE "kakan"
             p == IF DrawAndAnkan(t) THEN Other ELSE t
             x == Event("tsumo", b, b, p)
             y == Event(kind, b, b, t)
             v == Append(s, x)
             n == Len(v)
             u == Append(v, y)
  <2>1. /\ Played(<<x, y>>) /\ ToDraw
    BY <1>9 DEF DrawAndAnkan, DrawAndKakan, Drew, Did
  <2>2. /\ indicators' = indicators + table.atDraw + (IF kind = "ankan" THEN table.atDiscard + 1 ELSE 0)
        /\ table'.stage = (IF kind = "ankan" THEN "draw" ELSE "kakan")
        /\ table'.seat = table.seat /\ table'.accept = Nobody
        /\ table'.atDiscard = (IF kind = "ankan" THEN 0 ELSE 1)
        /\ table'.atDraw = (IF kind = "ankan" THEN 0 ELSE table.atDiscard)
        /\ table'.opened = table.opened /\ table'.pons = table.pons
        /\ (kind = "kakan" => table.seat \in table.opened)
        /\ p \in Tiles \cup {Other} /\ kind \in {"ankan", "kakan"}
    <3>1. CASE DrawAndAnkan(t)
      BY <1>1, <1>4, <3>1 DEF DrawAndAnkan, Table
    <3>2. CASE ~DrawAndAnkan(t)
      <4>1. DrawAndKakan(t) /\ kind = "kakan" /\ p = t
        BY <1>9, <3>2
      <4>2. table.pons[table.seat] # {}
        BY <4>1 DEF DrawAndKakan
      <4> HIDE DEF kind, p
      <4> QED
        BY <1>1, <1>3, <1>4, <4>1, <4>2 DEF DrawAndKakan, Table
    <3> QED
      BY <3>1, <3>2
  <2> HIDE DEF p, kind
  <2>3. /\ x \in RoundEvents /\ x.type = "tsumo" /\ x.actor = b
        /\ s \in Seq(RoundEvents)
        /\ Ordered(v) /\ n \in Nat \ {0} /\ v[n] = x
        /\ DueDahai(v, n) <=> d
        /\ ~DueDraw(v, n) /\ ~Reached(v, n)
        /\ ShownIn(v, n) = indicators - 1 + table.atDraw
    BY <1>6, <2>1, <2>2
  <2>4. /\ y \in RoundEvents /\ y.type = kind /\ y.actor = b /\ y.pai = t
    BY <1>1, <2>2 DEF Event, RoundEvents
  <2> HIDE DEF x, y, b, d, w
  <2>5. played' = u
    BY <2>1, <2>3, <2>4, Lengthened DEF Played
  <2> HIDE DEF s, v, n
  <2>6. Follows(v[n], y) /\ v[n].type \notin {"dahai", "reach_accepted"} /\ y.actor = v[n].actor
    BY <2>2, <2>3, <2>4 DEF Follows
  <2>7. /\ Ordered(u) /\ n + 1 \in Nat \ {0} /\ n + 1 = Len(u) /\ u[n + 1] = y
        /\ DueDahai(u, n + 1) <=> y.type = "kakan"
        /\ DueDraw(u, n + 1) <=> y.type = "kakan" /\ DueDahai(v, n)
        /\ ShownIn(u, n + 1) = ShownIn(v, n) + ShownBy(y, DueDahai(v, n), DueDraw(v, n))
        /\ Reached(u, n + 1) <=> y.type = "dahai" /\ v[n].type = "reach"
    BY <2>2, <2>3, <2>4, <2>6, TurnGoesOn DEF n
  <2>8. ShownBy(y, DueDahai(v, n), DueDraw(v, n)) = (IF kind = "ankan" THEN table.atDiscard + 1 ELSE 0)
    BY <1>4, <2>2, <2>3, <2>4 DEF ShownBy, Num
  <2>9. ShownIn(u, n + 1) = indicators' - 1
    BY <1>1, <1>4, <2>2, <2>3, <2>7, <2>8
  <2>10. table'.atDiscard = Num(DueDahai(u, n + 1)) /\ table'.atDraw = Num(DueDraw(u, n + 1))
    BY <1>4, <2>2, <2>3, <2>4, <2>7 DEF Num
  <2> DEFINE m == n + 1
  <2>11. ~Reached(u, m) /\ table'.seat = b
    BY <2>2, <2>3, <2>4, <2>7 DEF b
  <2> HIDE DEF u, m
  <2>12. m \in Nat \ {0} /\ m = Len(u) /\ u[m] = y /\ ShownIn(u, m) = indicators' - 1
         /\ table'.atDiscard = Num(DueDahai(u, m)) /\ table'.atDraw = Num(DueDraw(u, m))
    BY <2>7, <2>9, <2>10 DEF m
  <2> QED
    BY <1>3, <1>5, <2>2, <2>4, <2>5, <2>7, <2>11, <2>12 DEF OpenKans, b
<1>10. ASSUME NEW a \in Seats, NEW kind \in {"chi", "pon", "daiminkan"}, Call(a, kind) PROVE TurnsInv'
  <2> DEFINE e == Event(kind, a, table.seat, table.last)
             u == Append(s, e)
             n == Len(u)
  <2>1. /\ table.stage = "open" /\ Played(<<e>>) /\ indicators' = indicators /\ a # table.seat
    BY <1>10 DEF Call
  <2>2. /\ table'.stage = (IF kind = "daiminkan" THEN "draw" ELSE "hold")
        /\ table'.seat = a /\ table'.accept = Nobody
        /\ table'.opened = table.opened \cup {a}
        /\ \A c \in Seats : c # a => table'.pons[c] = table.pons[c]
        /\ table'.atDiscard = (IF kind = "daiminkan" THEN 1 ELSE table.atDiscard)
        /\ table'.atDraw = table.atDraw
    BY <1>1, <1>10 DEF Call, Table
  <2>3. e \in RoundEvents /\ e.type \in Nakis /\ e.actor = a /\ e.type = kind /\ e.target = table.seat
        /\ e.pai = table.last
    BY <1>1, <2>1 DEF Event, RoundEvents, Nakis
  <2> HIDE DEF e
  <2>4. /\ s \in Seq(RoundEvents)
        /\ Ordered(u) /\ n \in Nat \ {0} /\ u[n] = e
        /\ DueDahai(u, n) <=> e.type \in OpenKans \/ (e.type = "tsumo" /\ d)
        /\ ~DueDraw(u, n) /\ ~Reached(u, n)
        /\ ShownIn(u, n) = indicators - 1 + ShownBy(e, d, w)
    BY <2>1, <2>3, TurnsBegin
  <2>5. table.atDiscard = 0 /\ table.atDraw = 0
    <3>1. /\ Len(played) \in Nat /\ played[Len(played)].type = "dahai"
          /\ DueDahai(played, Len(played)) <=> table.atDiscard = 1
          /\ DueDraw(played, Len(played)) <=> table.atDraw = 1
      BY <2>1, LastPlayed
    <3>2. ~DueDahai(played, Len(played)) /\ ~DueDraw(played, Len(played))
      BY <3>1 DEF DueDahai, DueDraw, OpenKans
    <3> QED
      BY <1>4, <3>1, <3>2
  <2>6. played' = u
    BY <2>1, <2>3, <2>4, Lengthened DEF Played
  <2> HIDE DEF s, d, w, u, n
  <2>7. ShownIn(u, n) = indicators' - 1
    <3>1. ShownBy(e, d, w) = 0
      BY <2>3 DEF ShownBy, Num, Nakis
    <3> QED
      BY <1>1, <2>1, <2>4, <3>1
  <2>8. DueDahai(u, n) <=> kind = "daiminkan"
    BY <2>3, <2>4 DEF OpenKans, Nakis
  <2>9. table'.atDiscard = Num(DueDahai(u, n)) /\ table'.atDraw = Num(DueDraw(u, n))
    BY <2>2, <2>4, <2>5, <2>8 DEF Num
  <2>10. \A c \in Seats : table'.pons[c] # {} => c \in table'.opened
    BY <1>3, <2>2
  <2> QED
    BY <1>5, <2>2, <2>3, <2>4, <2>6, <2>7, <2>9, <2>10 DEF n
<1>11. ASSUME NEW t \in Tiles, Discard(t) PROVE TurnsInv'
  <2> DEFINE e == Event("dahai", b, b, t)
             u == Append(s, e)
             n == Len(u)
  <2>1. table.stage = "hold" /\ Played(<<e>>) /\ indicators' = indicators
    BY <1>11 DEF Discard, Did
  <2>2. /\ table'.stage = "open" /\ table'.last = t /\ table'.accept = table.accept
        /\ table'.atDiscard = table.atDiscard /\ table'.atDraw = table.atDraw
        /\ table'.opened = table.opened /\ table'.pons = table.pons
    BY <1>1, <1>11 DEF Discard, Table
  <2>3. /\ e \in RoundEvents /\ e.type = "dahai" /\ e.actor = table.seat /\ e.target = table.seat /\ e.pai = t
    BY <1>1 DEF Event, RoundEvents
  <2> HIDE DEF e
  <2>4. /\ s \in Seq(RoundEvents)
        /\ Ordered(u) /\ n \in Nat \ {0} /\ u[n] = e
        /\ DueDahai(u, n) <=> e.type \in OpenKans \/ (e.type = "tsumo" /\ d)
        /\ ~DueDraw(u, n) /\ ~Reached(u, n)
        /\ ShownIn(u, n) = indicators - 1 + ShownBy(e, d, w)
    BY <2>1, <2>3, TurnsBegin
  <2>5. table.atDiscard = 0 /\ table.atDraw = 0 /\ table.accept = Nobody
    <3>1. /\ Len(played) \in Nat /\ played[Len(played)].type \in {"chi", "pon"}
          /\ DueDahai(played, Len(played)) <=> table.atDiscard = 1
          /\ DueDraw(played, Len(played)) <=> table.atDraw = 1
          /\ table.accept # Nobody => played[Len(played)].type = "dahai"
      BY <2>1, LastPlayed
    <3>2. ~DueDahai(played, Len(played)) /\ ~DueDraw(played, Len(played))
      BY <3>1 DEF DueDahai, DueDraw, OpenKans
    <3> QED
      BY <1>4, <3>1, <3>2
  <2>6. played' = u
    BY <2>1, <2>3, <2>4, Lengthened DEF Played
  <2>7. ~d
    BY <2>5
  <2> HIDE DEF s, d, w, u, n
  <2>8. ShownIn(u, n) = indicators' - 1
    <3>1. ShownBy(e, d, w) = 0
      BY <2>3, <2>7 DEF ShownBy, Num
    <3> QED
      BY <1>1, <2>1, <2>4, <3>1
  <2>9. ~DueDahai(u, n)
    BY <2>3, <2>4 DEF OpenKans
  <2>10. table'.atDiscard = Num(DueDahai(u, n)) /\ table'.atDraw = Num(DueDraw(u, n))
    BY <2>2, <2>4, <2>5, <2>9 DEF Num
  <2> QED
    BY <1>3, <1>5, <2>2, <2>3, <2>4, <2>5, <2>6, <2>8, <2>10 DEF n
<1>12. CASE EndOnDraw
  <2> DEFINE x == Event("tsumo", b, b, Other)
             u == Append(s, x)
             n == Len(u)
  <2>1. Played(<<x>>) /\ ToDraw /\ indicators' = indicators + table.atDraw
    BY <1>12 DEF EndOnDraw, Drew
  <2>2. /\ table'.stage = "over" /\ table'.atDiscard = table.atDiscard /\ table'.atDraw = 0
        /\ table'.opened = table.opened /\ table'.pons = table.pons
    BY <1>1, <1>12 DEF EndOnDraw, Table
  <2>3. /\ x \in RoundEvents
        /\ s \in Seq(RoundEvents)
        /\ Ordered(u) /\ n \in Nat \ {0} /\ u[n] = x
        /\ DueDahai(u, n) <=> d
        /\ ~DueDraw(u, n) /\ ~Reached(u, n)
        /\ ShownIn(u, n) = indicators - 1 + table.atDraw
    BY <1>6, <2>1
  <2> HIDE DEF x
  <2>4. played' = u
    BY <2>1, <2>3, Lengthened DEF Played
  <2> HIDE DEF s, u, n
  <2>5. table'.atDiscard = Num(DueDahai(u, n)) /\ table'.atDraw = Num(DueDraw(u, n))
    BY <1>4, <2>2, <2>3 DEF Num
  <2>6. ShownIn(u, n) = indicators' - 1
    BY <1>1, <1>4, <2>1, <2>3
  <2> QED
    BY <1>3, <1>5, <2>2, <2>3, <2>4, <2>5, <2>6 DEF n
<1>13. ASSUME Pass \/ EndOnDiscard PROVE TurnsInv'
  <2> DEFINE n == Len(played)
             q == played[n]
  <2>1. /\ played' = played /\ indicators' = indicators
        /\ table'.atDiscard = table.atDiscard /\ table'.atDraw = table.atDraw
        /\ table'.opened = table.opened /\ table'.pons = table.pons /\ table'.accept = table.accept
        /\ table'.stage \in {"draw", "over"}
        /\ table'.stage = "draw" => table.stage = "open" /\ table'.seat = Shimocha(table.seat)
        /\ table.stage \in {"open", "kakan"}
    BY <1>1, <1>13 DEF Pass, EndOnDiscard, Table
  <2>2. /\ n \in Nat
        /\ n = 0 => table.stage = "draw"
        /\ table.stage = "open" => q.type = "dahai" /\ q.actor = table.seat
        /\ table.stage # "over" => table.accept = IF Reached(played, n) THEN q.actor ELSE Nobody
    BY LastPlayed
  <2>3. Ordered(played) /\ n \in Nat \ {0}
    BY <2>1, <2>2 DEF TurnsInv
  <2>4. table.atDiscard = Num(DueDahai(played, n)) /\ table.atDraw = Num(DueDraw(played, n))
        /\ ShownIn(played, n) = indicators - 1
    BY DEF TurnsInv, TableFits
  <2>5. table'.stage = "draw" =>
          /\ table'.seat = IF q.type = "dahai" THEN Shimocha(q.actor) ELSE q.actor
          /\ q.type \notin OpenKans
    BY <2>1, <2>2 DEF OpenKans
  <2> HIDE DEF n
  <2>6. table'.stage # "over" => table'.accept = IF Reached(played, n) THEN q.actor ELSE Nobody
    BY <2>1, <2>2
  <2> DEFINE u == played
  <2>7. played' = u /\ Ordered(u) /\ n = Len(u)
    BY <2>1, <2>3 DEF n
  <2> QED
    BY <1>3, <1>5, <2>1, <2>3, <2>4, <2>5, <2>6, <2>7
<1> QED
  BY <1>7, <1>8, <1>9, <1>10, <1>11, <1>12, <1>13 DEF Play
=============================================================================
