---------------------------- MODULE KyokuConvProofs ----------------------------
(***************************************************************************)
(* Proofs about KyokuConv.                                                 *)
(*                                                                         *)
(* The search for an order of the events ends, because no attempt begins   *)
(* with the backtracks of an earlier one.  An attempt is a function of the *)
(* log and of backtracks, and so is what it leaves in backtracks.  The     *)
(* proof runs this function backwards: an attempt asks for each key at     *)
(* most once, and changes its entry by one step of the cycle absent,       *)
(* first, second; so the entries that it leaves tell every choice it made, *)
(* and with them the entries it began with.                                *)
(*                                                                         *)
(* What the search returns is legal.  The two lists of a seat that a round *)
(* leaves are aligned (KyokuRoundProofs): there is a place in the discards *)
(* for each take.  An attempt keeps to these places, whichever way it      *)
(* guesses; from this follow what may come after the last move, and which  *)
(* indicators are still to be shown.                                       *)
(*                                                                         *)
(* Until it guesses, an attempt goes through the events in the order in    *)
(* which they were played (Track): a call that fits no later discard of    *)
(* the same tile is the call that was played.                              *)
(***************************************************************************)
EXTENDS KyokuRoundProofs, FiniteSetTheorems

-----------------------------------------------------------------------------
(***************************************************************************)
(* Backtracks.                                                             *)
(***************************************************************************)

\* The entry of a key: absent, the first branch, the second branch.
Value(B, k) == IF k \notin DOMAIN B THEN 0 ELSE IF B[k] THEN 1 ELSE 2

\* What asking for a key makes of its entry.
Turned(v) == IF v = 2 THEN 0 ELSE v + 1

\* D is what B becomes when the keys of S are asked for.
Asking(B, D, S) ==
  \A k : Value(D, k) = IF k \in S THEN Turned(Value(B, k)) ELSE Value(B, k)

IsBacktracks(B) == B \in [DOMAIN B -> BOOLEAN]

LEMMA ValueRange == \A B, k : Value(B, k) \in {0, 1, 2}
  BY DEF Value

\* The entries make up the backtracks.
LEMMA SameValues ==
  ASSUME NEW B, NEW C, IsBacktracks(B), IsBacktracks(C),
         \A k : Value(B, k) = Value(C, k)
  PROVE  B = C
<1>1. DOMAIN B = DOMAIN C
  <2>1. \A k : k \in DOMAIN B <=> Value(B, k) # 0
    BY DEF Value
  <2>2. \A k : k \in DOMAIN C <=> Value(C, k) # 0
    BY DEF Value
  <2> QED
    BY <2>1, <2>2
<1>2. \A k \in DOMAIN B : B[k] = C[k]
  <2> SUFFICES ASSUME NEW k \in DOMAIN B PROVE B[k] = C[k]
    OBVIOUS
  <2>1. B[k] \in BOOLEAN /\ C[k] \in BOOLEAN
    BY <1>1 DEF IsBacktracks
  <2>2. (B[k] <=> Value(B, k) = 1) /\ (C[k] <=> Value(C, k) = 1)
    BY <1>1 DEF Value
  <2>3. B[k] <=> C[k]
    BY <2>2
  <2> QED
    BY <2>1, <2>3
<1> QED
  BY <1>1, <1>2 DEF IsBacktracks

\* What the asked keys make of two backtracks is the same only if they are.
LEMMA AskingInjective ==
  ASSUME NEW B, NEW C, NEW D, NEW S, IsBacktracks(B), IsBacktracks(C),
         Asking(B, D, S), Asking(C, D, S)
  PROVE  B = C
<1>1. \A k : Value(B, k) = Value(C, k)
  <2> SUFFICES ASSUME NEW k PROVE Value(B, k) = Value(C, k)
    OBVIOUS
  <2>1. Value(B, k) \in {0, 1, 2} /\ Value(C, k) \in {0, 1, 2}
    BY ValueRange
  <2>2. CASE k \in S
    <3>1. Turned(Value(B, k)) = Turned(Value(C, k))
      BY <2>2 DEF Asking
    <3> QED
      BY <2>1, <3>1 DEF Turned
  <2>3. CASE k \notin S
    BY <2>3 DEF Asking
  <2> QED
    BY <2>2, <2>3
<1> QED
  BY <1>1, SameValues

\* The three things that asking for a key does to backtracks.
LEMMA AskVacant ==
  ASSUME NEW B, NEW g, g \notin DOMAIN B
  PROVE  LET D == [k \in DOMAIN B \cup {g} |-> IF k = g THEN TRUE ELSE B[k]]
         IN Asking(B, D, {g}) /\ Value(D, g) = 1
<1> DEFINE D == [k \in DOMAIN B \cup {g} |-> IF k = g THEN TRUE ELSE B[k]]
<1> SUFFICES Asking(B, D, {g}) /\ Value(D, g) = 1
  OBVIOUS
<1>1. Value(D, g) = 1 /\ Value(B, g) = 0
  BY DEF Value
<1>2. ASSUME NEW k, k # g PROVE Value(D, k) = Value(B, k)
  <2>1. k \in DOMAIN D <=> k \in DOMAIN B
    BY <1>2
  <2>2. k \in DOMAIN B => D[k] = B[k]
    BY <1>2
  <2> HIDE DEF D
  <2> QED
    BY <2>1, <2>2 DEF Value
<1> HIDE DEF D
<1> QED
  BY <1>1, <1>2 DEF Asking, Turned

LEMMA AskFirst ==
  ASSUME NEW B, NEW g \in DOMAIN B, B[g]
  PROVE  LET D == [B EXCEPT ![g] = FALSE]
         IN Asking(B, D, {g}) /\ Value(D, g) = 2
  BY DEF Asking, Value, Turned

LEMMA AskSecond ==
  ASSUME NEW B, NEW g \in DOMAIN B, ~B[g]
  PROVE  LET D == [k \in DOMAIN B \ {g} |-> B[k]]
         IN Asking(B, D, {g}) /\ Value(D, g) = 0
  BY DEF Asking, Value, Turned

-----------------------------------------------------------------------------
(***************************************************************************)
(* The course of an attempt.                                               *)
(***************************************************************************)

State(x, ph) == [attempt |-> x, phase |-> ph]

\* Who acts next, told from the entry that the guess leaves in D.
Chosen(D, x) ==
  IF Certain(x) \/ (Doubtful(x) /\ Value(D, Guess(x)) = 1) THEN Caller(x)
  ELSE Shimocha(x.actor)

\* The state that follows s in an attempt that leaves D.
Follow(D, s) ==
  IF s.phase = "take"
  THEN IF TakeFails(s.attempt) THEN State(s.attempt, "failed")
       ELSE State(Taken(s.attempt), PhaseAfterTake(s.attempt))
  ELSE IF s.phase = "discard"
  THEN IF DiscardFails(s.attempt) THEN State(s.attempt, "failed")
       ELSE State(Thrown(s.attempt), PhaseAfterDiscard(s.attempt))
  ELSE IF s.phase = "next" THEN State(PassTo(s.attempt, Chosen(D, s.attempt)), "take")
  ELSE s

Guesses(s) == s.phase = "next" /\ Doubtful(s.attempt)

\* r is the course of n steps of the attempt that starts with f and leaves D.
Path(f, D, r, n) ==
  /\ r[0] = State(f, "take")
  /\ \A i \in 0..(n - 1) :
       r[i].phase \notin {"failed", "done"} /\ r[i + 1] = Follow(D, r[i])

\* The keys it asks for.
Asked(r, n) == {Guess(r[i].attempt) : i \in {j \in 0..(n - 1) : Guesses(r[j])}}

\* These keys are behind the attempt: where it guesses next, the key is new.
Behind(S, x, ph) ==
  \A k \in S :
    /\ k[2] \in Seats /\ k[3] \in Nat /\ k[3] <= x.discardIdx[k[2]]
    /\ ph = "next" /\ x.actor = k[2] => k[3] < x.discardIdx[k[2]]

\* An attempt that began with C has come to x and ph, and to backtracks B.
Run(f, C, B, x, ph) ==
  \E n \in Nat : \E r :
    /\ Path(f, B, r, n) /\ r[n] = State(x, ph)
    /\ Asking(C, B, Asked(r, n)) /\ Behind(Asked(r, n), x, ph)

\* There is one course that leaves D and fails.
LEMMA PathUnique ==
  ASSUME NEW f, NEW D, NEW r, NEW n \in Nat, NEW q, NEW m \in Nat,
         Path(f, D, r, n), r[n].phase = "failed",
         Path(f, D, q, m), q[m].phase = "failed"
  PROVE  n = m /\ \A i \in 0..n : r[i] = q[i]
<1> DEFINE apart == {i \in Nat : i <= n /\ i <= m /\ r[i] # q[i]}
<1>1. apart = {}
  <2> SUFFICES ASSUME apart # {} PROVE FALSE
    OBVIOUS
  <2>1. PICK x \in apart : IsFirst(x, apart)
    BY FirstExists
  <2>2. x # 0
    BY DEF Path
  <2>3. x - 1 \in Nat /\ x - 1 \in 0..(n - 1) /\ x - 1 \in 0..(m - 1) /\ (x - 1) + 1 = x
    BY <2>2
  <2>4. x - 1 \notin apart
    BY <2>1, <2>3 DEF IsFirst
  <2>5. r[x - 1] = q[x - 1]
    BY <2>3, <2>4
  <2>6. r[x] = Follow(D, r[x - 1]) /\ q[x] = Follow(D, q[x - 1])
    BY <2>3 DEF Path
  <2> QED
    BY <2>5, <2>6
<1>2. ~(n < m)
  BY <1>1 DEF Path
<1>3. ~(m < n)
  BY <1>1 DEF Path
<1> QED
  BY <1>1, <1>2, <1>3

\* An attempt that failed began with one backtracks only.
LEMMA RunInjective ==
  ASSUME NEW f, NEW B, NEW C, NEW D, NEW x, NEW y,
         IsBacktracks(C), IsBacktracks(D),
         Run(f, C, B, x, "failed"), Run(f, D, B, y, "failed")
  PROVE  C = D
<1> DEFINE Course(S, z, r, n) ==
      Path(f, B, r, n) /\ r[n] = State(z, "failed") /\ Asking(S, B, Asked(r, n))
<1>a. PICK n \in Nat : \E r : Course(C, x, r, n)
  BY DEF Run
<1>b. PICK m \in Nat : \E q : Course(D, y, q, m)
  BY DEF Run
<1>1. PICK r : Course(C, x, r, n)
  BY <1>a
<1>2. PICK q : Course(D, y, q, m)
  BY <1>b
<1>3. r[n].phase = "failed" /\ q[m].phase = "failed"
  BY <1>1, <1>2 DEF State
<1>4. n = m /\ \A i \in 0..n : r[i] = q[i]
  BY <1>1, <1>2, <1>3, PathUnique
<1>5. Asked(r, n) = Asked(q, m)
  <2>1. \A i \in 0..(n - 1) : r[i] = q[i]
    BY <1>4
  <2> QED
    BY <1>4, <2>1 DEF Asked
<1> QED
  BY <1>1, <1>2, <1>5, AskingInjective

\* An attempt that begins.
LEMMA RunBegins == \A f, B : Run(f, B, B, f, "take")
<1> SUFFICES ASSUME NEW f, NEW B PROVE Run(f, B, B, f, "take")
  OBVIOUS
<1> DEFINE r == [i \in {0} |-> State(f, "take")]
<1>1. Path(f, B, r, 0) /\ r[0] = State(f, "take")
  BY DEF Path
<1>2. Asked(r, 0) = {}
  BY DEF Asked
<1>3. Asking(B, B, Asked(r, 0)) /\ Behind(Asked(r, 0), f, "take")
  BY <1>2 DEF Asking, Behind
<1> QED
  BY <1>1, <1>3 DEF Run

\* Asking for no key leaves backtracks as they are.
LEMMA AskNothing == \A B : Asking(B, B, {})
  BY DEF Asking

\* A course holds for all backtracks that agree on what it asks for.
LEMMA PathFrame ==
  ASSUME NEW f, NEW B, NEW D, NEW r, NEW n \in Nat, Path(f, B, r, n),
         \A k \in Asked(r, n) : Value(D, k) = Value(B, k)
  PROVE  Path(f, D, r, n)
<1>1. ASSUME NEW i \in 0..(n - 1) PROVE Follow(D, r[i]) = Follow(B, r[i])
  <2>1. CASE Guesses(r[i])
    <3>1. Guess(r[i].attempt) \in Asked(r, n)
      BY <2>1 DEF Asked
    <3>2. Chosen(D, r[i].attempt) = Chosen(B, r[i].attempt)
      BY <3>1 DEF Chosen
    <3> QED
      BY <3>2 DEF Follow
  <2>2. CASE r[i].phase = "next" /\ ~Doubtful(r[i].attempt)
    <3>1. Chosen(D, r[i].attempt) = Chosen(B, r[i].attempt)
      BY <2>2 DEF Chosen
    <3> QED
      BY <3>1 DEF Follow
  <2>3. CASE r[i].phase # "next"
    BY <2>3 DEF Follow
  <2> QED
    BY <2>1, <2>2, <2>3 DEF Guesses
<1> QED
  BY <1>1 DEF Path

\* One more step of a course.
LEMMA RunGoesOn ==
  ASSUME NEW f, NEW C, NEW B, NEW D, NEW x, NEW ph, NEW y, NEW ph2,
         Run(f, C, B, x, ph), ph \notin {"failed", "done"},
         State(y, ph2) = Follow(D, State(x, ph)),
         Asking(B, D, IF Guesses(State(x, ph)) THEN {Guess(x)} ELSE {}),
         Guesses(State(x, ph)) => x.actor \in Seats,
         \A a \in Seats : /\ x.discardIdx[a] \in Nat /\ y.discardIdx[a] \in Nat
                          /\ x.discardIdx[a] <= y.discardIdx[a],
         ph2 = "next" => /\ y.actor \in Seats
                         /\ x.discardIdx[y.actor] < y.discardIdx[y.actor]
  PROVE  Run(f, C, D, y, ph2)
<1> DEFINE now == IF Guesses(State(x, ph)) THEN {Guess(x)} ELSE {}
<1>a. PICK n \in Nat :
        \E r : /\ Path(f, B, r, n) /\ r[n] = State(x, ph)
               /\ Asking(C, B, Asked(r, n)) /\ Behind(Asked(r, n), x, ph)
  BY DEF Run
<1>1. PICK r :
        /\ Path(f, B, r, n) /\ r[n] = State(x, ph)
        /\ Asking(C, B, Asked(r, n)) /\ Behind(Asked(r, n), x, ph)
  BY <1>a
<1> DEFINE q == [i \in 0..(n + 1) |-> IF i = n + 1 THEN State(y, ph2) ELSE r[i]]
<1>2. /\ n + 1 \in Nat /\ q[n + 1] = State(y, ph2) /\ q[n] = r[n]
      /\ \A i \in 0..n : q[i] = r[i]
  OBVIOUS
<1>3. Guess(x) \notin Asked(r, n) \/ now = {}
  <2>1. SUFFICES ASSUME Guesses(State(x, ph)), Guess(x) \in Asked(r, n) PROVE FALSE
    OBVIOUS
  <2>2. ph = "next" /\ x.actor \in Seats
    BY <2>1 DEF Guesses, State
  <2>3. Guess(x)[2] = x.actor /\ Guess(x)[3] = x.discardIdx[x.actor]
    BY DEF Guess
  <2> QED
    BY <1>1, <2>1, <2>2, <2>3 DEF Behind
<1>4. Path(f, D, r, n)
  <2>1. \A k \in Asked(r, n) : Value(D, k) = Value(B, k)
    BY <1>3 DEF Asking
  <2> QED
    BY <1>1, <2>1, PathFrame
<1>5. Path(f, D, q, n + 1)
  <2>1. q[0] = State(f, "take")
    BY <1>2, <1>4 DEF Path
  <2>2. ASSUME NEW i \in 0..n
        PROVE  q[i].phase \notin {"failed", "done"} /\ q[i + 1] = Follow(D, q[i])
    <3>1. CASE i = n
      BY <3>1, <1>1, <1>2 DEF State
    <3>2. CASE i # n
      <4>1. i \in 0..(n - 1) /\ i + 1 \in 0..n
        BY <3>2
      <4> QED
        BY <4>1, <1>2, <1>4 DEF Path
    <3> QED
      BY <3>1, <3>2
  <2> QED
    BY <2>1, <2>2 DEF Path
<1>6. Asked(q, n + 1) = Asked(r, n) \cup now
  <2>1. r[n] = State(x, ph) /\ r[n].attempt = x
    BY <1>1 DEF State
  <2>2. \A i \in 0..n : i \in 0..(n - 1) \/ i = n
    OBVIOUS
  <2>3. n \in 0..n /\ \A i \in 0..(n - 1) : i \in 0..n
    OBVIOUS
  <2>4. (n + 1) - 1 = n
    OBVIOUS
  <2>5. \A k : k \in Asked(q, n + 1) <=>
               \E i \in 0..n : Guesses(r[i]) /\ k = Guess(r[i].attempt)
    BY SMTT(30), <1>2, <2>4 DEF Asked
  <2>6. \A k : k \in Asked(r, n) <=>
               \E i \in 0..(n - 1) : Guesses(r[i]) /\ k = Guess(r[i].attempt)
    BY DEF Asked
  <2>7. \A k : k \in now <=> Guesses(r[n]) /\ k = Guess(r[n].attempt)
    BY <2>1
  <2> QED
    BY <2>2, <2>3, <2>5, <2>6, <2>7
<1>7. Asking(C, D, Asked(q, n + 1))
  BY <1>1, <1>3, <1>6 DEF Asking
<1>8. Behind(Asked(q, n + 1), y, ph2)
  <2> SUFFICES ASSUME NEW k \in Asked(q, n + 1)
               PROVE  /\ k[2] \in Seats /\ k[3] \in Nat /\ k[3] <= y.discardIdx[k[2]]
                      /\ ph2 = "next" /\ y.actor = k[2] => k[3] < y.discardIdx[k[2]]
    BY DEF Behind
  <2>1. k[2] \in Seats /\ k[3] \in Nat /\ k[3] <= x.discardIdx[k[2]]
    <3>1. CASE k \in Asked(r, n)
      BY <1>1, <3>1 DEF Behind
    <3>2. CASE k \in now
      BY <3>2 DEF Guess
    <3> QED
      BY <1>6, <3>1, <3>2
  <2>2. x.discardIdx[k[2]] \in Nat /\ y.discardIdx[k[2]] \in Nat
        /\ x.discardIdx[k[2]] <= y.discardIdx[k[2]]
    BY <2>1
  <2> QED
    BY SMTT(30), <2>1, <2>2
<1> QED
  BY <1>2, <1>5, <1>7, <1>8 DEF Run

-----------------------------------------------------------------------------
(***************************************************************************)
(* What a step does to the fields that the keys are made of.               *)
(***************************************************************************)

AttemptOK(x) ==
  /\ {"actor", "discardIdx"} \subseteq DOMAIN x
  /\ x.actor \in Seats /\ x.discardIdx \in [Seats -> Nat]

LEMMA FreshOK == \A l, m : AttemptOK(FreshAttempt(l, m))
  BY DEF FreshAttempt, AttemptOK, Seats

LEMMA TakenOK ==
  ASSUME NEW x, AttemptOK(x)
  PROVE  AttemptOK(Taken(x)) /\ Taken(x).discardIdx = x.discardIdx
<1>1. DOMAIN Taken(x) = DOMAIN x
  BY DEF Taken
<1>2. Taken(x).discardIdx = x.discardIdx /\ Taken(x).actor = x.actor
  BY DEF Taken, AttemptOK
<1> QED
  BY <1>1, <1>2 DEF AttemptOK

LEMMA ThrownOK ==
  ASSUME NEW x, AttemptOK(x)
  PROVE  /\ AttemptOK(Thrown(x))
         /\ \A a \in Seats : x.discardIdx[a] <= Thrown(x).discardIdx[a]
         /\ x.discardIdx[x.actor] < Thrown(x).discardIdx[x.actor]
         /\ Thrown(x).actor = x.actor
<1>1. Len(Group(x)) \in {1, 2}
  BY DEF Group
<1>2. DOMAIN Thrown(x) = DOMAIN x
  BY DEF Thrown
<1>3. Thrown(x).actor = x.actor
  BY DEF Thrown, AttemptOK
<1>4. Thrown(x).discardIdx = [x.discardIdx EXCEPT ![x.actor] = @ + Len(Group(x))]
  BY DEF Thrown, AttemptOK
<1>5. x.discardIdx \in [Seats -> Nat] /\ x.actor \in Seats
  BY DEF AttemptOK
<1>6. Thrown(x).discardIdx \in [Seats -> Nat]
  BY <1>1, <1>4, <1>5
<1>7. /\ \A a \in Seats : x.discardIdx[a] <= Thrown(x).discardIdx[a]
      /\ x.discardIdx[x.actor] < Thrown(x).discardIdx[x.actor]
  <2>1. PICK n \in {1, 2} : n = Len(Group(x))
    BY <1>1
  <2>2. \A a \in Seats : Thrown(x).discardIdx[a] =
                         IF a = x.actor THEN x.discardIdx[a] + n ELSE x.discardIdx[a]
    BY <1>4, <1>5, <2>1
  <2>3. \A a \in Seats : x.discardIdx[a] \in Nat
    BY <1>5
  <2> QED
    BY <1>5, <2>2, <2>3
<1>8. AttemptOK(Thrown(x))
  BY <1>2, <1>3, <1>6 DEF AttemptOK
<1> QED
  BY <1>3, <1>7, <1>8

LEMMA PassToOK ==
  ASSUME NEW x, AttemptOK(x), NEW a \in Seats
  PROVE  AttemptOK(PassTo(x, a)) /\ PassTo(x, a).discardIdx = x.discardIdx
  BY DEF PassTo, AttemptOK

\* Of the seats that claim a discard one comes first.
LEMMA CallerExists ==
  ASSUME NEW x, Candidates(x) # {}
  PROVE  Caller(x) \in Candidates(x)
<1> DEFINE ord(a) == NakiOrd(NextTake(x, a))
<1>1. \A a : ord(a) \in {-1, 0, 1}
  BY DEF NakiOrd
<1>2. Candidates(x) \subseteq {0, 1, 2, 3}
  BY DEF Candidates, Seats
<1> DEFINE rank(a) == 4 * ord(a) + a
<1>3. \A a, b \in Candidates(x) : Before(x, b, a) <=> rank(b) <= rank(a)
  BY <1>1, <1>2 DEF Before
<1>4. \A a \in Candidates(x) : rank(a) \in -4..7
  BY <1>1, <1>2
<1> HIDE DEF rank
<1>5. \E a \in Candidates(x) : \A b \in Candidates(x) : rank(b) <= rank(a)
  <2> DEFINE far == {7 - rank(a) : a \in Candidates(x)}
  <2>1. far \in SUBSET Nat /\ far # {}
    BY <1>4
  <2>2. PICK y \in far : IsFirst(y, far)
    BY <2>1, FirstExists
  <2>3. PICK a \in Candidates(x) : y = 7 - rank(a)
    BY <2>2
  <2>4. \A b \in Candidates(x) : rank(b) <= rank(a)
    <3> SUFFICES ASSUME NEW b \in Candidates(x) PROVE rank(b) <= rank(a)
      OBVIOUS
    <3>1. 7 - rank(b) \in far
      OBVIOUS
    <3>2. y <= 7 - rank(b)
      BY <2>2, <3>1 DEF IsFirst
    <3> QED
      BY <1>4, <2>3, <3>2
  <2> QED
    BY <2>4
<1>6. \E a \in Candidates(x) : \A b \in Candidates(x) : Before(x, b, a)
  BY <1>3, <1>5
<1> QED
  BY <1>6 DEF Caller

\* The next actor is a seat.
LEMMA ChosenSeat ==
  ASSUME NEW D, NEW x, AttemptOK(x)
  PROVE  Chosen(D, x) \in Seats
<1>1. Shimocha(x.actor) \in Seats
  BY DEF AttemptOK, Shimocha, Seats
<1>2. Candidates(x) # {} => Caller(x) \in Seats
  BY CallerExists DEF Candidates
<1> QED
  BY <1>1, <1>2 DEF Chosen, Certain, Doubtful

\* A step of an attempt: it follows the entries that it leaves.
Moves(B, D, x, ph, y, ph2) ==
  /\ State(y, ph2) = Follow(D, State(x, ph))
  /\ Asking(B, D, IF Guesses(State(x, ph)) THEN {Guess(x)} ELSE {})

\* A step keeps the attempt well formed, and carries on the run.
LEMMA MoveGoesOn ==
  ASSUME NEW f, NEW C, NEW B, NEW D, NEW x, NEW ph, NEW y, NEW ph2,
         AttemptOK(x), ph \in {"take", "discard", "next"},
         Moves(B, D, x, ph, y, ph2)
  PROVE  AttemptOK(y) /\ (Run(f, C, B, x, ph) => Run(f, C, D, y, ph2))
<1>1. x.actor \in Seats /\ \A a \in Seats : x.discardIdx[a] \in Nat
  BY DEF AttemptOK
<1>2. y = Follow(D, State(x, ph)).attempt /\ ph2 = Follow(D, State(x, ph)).phase
  BY DEF Moves, State
<1>3. /\ AttemptOK(y)
      /\ \A a \in Seats : x.discardIdx[a] <= y.discardIdx[a]
      /\ ph2 = "next" => /\ y.actor \in Seats
                         /\ x.discardIdx[y.actor] < y.discardIdx[y.actor]
  <2>1. CASE ph = "take"
    <3>1. CASE TakeFails(x)
      <4>1. y = x /\ ph2 = "failed"
        BY <1>2, <2>1, <3>1 DEF Follow, State
      <4> QED
        BY <1>1, <4>1
    <3>2. CASE ~TakeFails(x)
      <4>1. y = Taken(x) /\ ph2 = PhaseAfterTake(x)
        BY <1>2, <2>1, <3>2 DEF Follow, State
      <4>2. ph2 # "next"
        BY <4>1 DEF PhaseAfterTake
      <4> QED
        BY <1>1, <4>1, <4>2, TakenOK
    <3> QED
      BY <3>1, <3>2
  <2>2. CASE ph = "discard"
    <3>1. CASE DiscardFails(x)
      <4>1. y = x /\ ph2 = "failed"
        BY <1>2, <2>2, <3>1 DEF Follow, State
      <4> QED
        BY <1>1, <4>1
    <3>2. CASE ~DiscardFails(x)
      <4>1. y = Thrown(x)
        BY <1>2, <2>2, <3>2 DEF Follow, State
      <4> QED
        BY <1>1, <4>1, ThrownOK
    <3> QED
      BY <3>1, <3>2
  <2>3. CASE ph = "next"
    <3>1. y = PassTo(x, Chosen(D, x)) /\ ph2 = "take"
      BY <1>2, <2>3 DEF Follow, State
    <3> QED
      BY <1>1, <3>1, ChosenSeat, PassToOK
  <2> QED
    BY <2>1, <2>2, <2>3
<1>4. \A a \in Seats : y.discardIdx[a] \in Nat
  BY <1>3 DEF AttemptOK
<1> QED
  BY <1>1, <1>3, <1>4, RunGoesOn DEF Moves

-----------------------------------------------------------------------------
(***************************************************************************)
(* The search.                                                             *)
(***************************************************************************)

Fresh == FreshAttempt(takeEvents, discardEvents)

\* An attempt is under way, or has failed and is to be repeated.
Searching == {"take", "discard", "next", "failed"}

\* The backtracks of S, but for the first, are what a failed attempt left that
\* began with others of S than C.
Preceded(f, S, C) ==
  \A B \in S : DOMAIN B # {} => \E P \in S \ {C} : \E x : Run(f, P, B, x, "failed")

TablesInv ==
  /\ IsBacktracks(backtracks) /\ \A B \in begun : IsBacktracks(B)
  /\ AttemptOK(attempt)
  /\ phase = "play" => backtracks = << >>

SearchInv ==
  phase \in Searching =>
    \E C \in begun : /\ Run(Fresh, C, backtracks, attempt, phase)
                     /\ Preceded(Fresh, begun, C)

\* The steps of an attempt.
AttemptStep ==
  Take \/ DiscardStep \/ NobodyCalls \/ CallIsCertain
    \/ GuessFirst \/ GuessSecond \/ GiveUpGuess

\* What they have in common.
Moving ==
  /\ phase \in {"take", "discard", "next"}
  /\ Moves(backtracks, backtracks', attempt, phase, attempt', phase')
  /\ IsBacktracks(backtracks')
  /\ phase' # "play"
  /\ UNCHANGED <<indicators, takeEvents, discardEvents, begun>>

\* Each step of an attempt follows the entries that it leaves.
LEMMA StepMoves ==
  ASSUME TablesInv, AttemptStep
  PROVE  Moving
<1> DEFINE now == State(attempt, phase)
<1>1. IsBacktracks(backtracks)
  BY DEF TablesInv
<1>2. now.phase = phase /\ now.attempt = attempt
  BY DEF State
<1> HIDE DEF now
<1>3. ASSUME phase = "next", NEW a, GoTo(a)
      PROVE  /\ State(attempt', phase') = State(PassTo(attempt, a), "take")
             /\ phase' # "play"
             /\ UNCHANGED <<indicators, takeEvents, discardEvents, begun>>
  BY <1>3 DEF GoTo, roundVars
<1>4. CASE Take
  <2>1. phase = "take" /\ UNCHANGED <<indicators, takeEvents, discardEvents, backtracks, begun>>
    BY <1>4 DEF Take, roundVars
  <2>2. phase' # "play" /\ State(attempt', phase') = Follow(backtracks', now)
    BY <1>4, <1>2, <2>1 DEF Take, Fail, Follow, PhaseAfterTake
  <2>3. ~Guesses(now)
    BY <1>2, <2>1 DEF Guesses
  <2> QED
    BY <1>1, <2>1, <2>2, <2>3, AskNothing DEF Moving, Moves, now
<1>5. CASE DiscardStep
  <2>1. phase = "discard" /\ UNCHANGED <<indicators, takeEvents, discardEvents, backtracks, begun>>
    BY <1>5 DEF DiscardStep, roundVars
  <2>2. phase' # "play" /\ State(attempt', phase') = Follow(backtracks', now)
    BY <1>5, <1>2, <2>1 DEF DiscardStep, Fail, Follow, PhaseAfterDiscard
  <2>3. ~Guesses(now)
    BY <1>2, <2>1 DEF Guesses
  <2> QED
    BY <1>1, <2>1, <2>2, <2>3, AskNothing DEF Moving, Moves, now
<1>6. CASE NobodyCalls
  <2>1. phase = "next" /\ NobodyClaims(attempt) /\ UNCHANGED backtracks
        /\ GoTo(Shimocha(attempt.actor))
    BY <1>6 DEF NobodyCalls
  <2>2. Chosen(backtracks', attempt) = Shimocha(attempt.actor) /\ ~Guesses(now)
    BY <2>1, <1>2 DEF Chosen, Guesses, NobodyClaims, Certain, Doubtful
  <2>3. State(attempt', phase') = Follow(backtracks', now)
    BY <1>2, <1>3, <2>1, <2>2 DEF Follow
  <2> QED
    BY <1>1, <1>3, <2>1, <2>2, <2>3, AskNothing DEF Moving, Moves, now
<1>7. CASE CallIsCertain
  <2>1. phase = "next" /\ Certain(attempt) /\ UNCHANGED backtracks /\ GoTo(Caller(attempt))
    BY <1>7 DEF CallIsCertain
  <2>2. Chosen(backtracks', attempt) = Caller(attempt) /\ ~Guesses(now)
    BY <2>1, <1>2 DEF Chosen, Guesses, Certain, Doubtful
  <2>3. State(attempt', phase') = Follow(backtracks', now)
    BY <1>2, <1>3, <2>1, <2>2 DEF Follow
  <2> QED
    BY <1>1, <1>3, <2>1, <2>2, <2>3, AskNothing DEF Moving, Moves, now
<1>8. ASSUME phase = "next", Doubtful(attempt), NEW a, GoTo(a),
             a = Chosen(backtracks', attempt),
             Asking(backtracks, backtracks', {Guess(attempt)}), IsBacktracks(backtracks')
      PROVE  Moving
  <2>1. Guesses(now)
    BY <1>2, <1>8 DEF Guesses
  <2>2. State(attempt', phase') = Follow(backtracks', now)
    BY <1>2, <1>3, <1>8 DEF Follow
  <2> QED
    BY <1>3, <1>8, <2>1, <2>2 DEF Moving, Moves, now
<1>9. Doubtful(attempt) => ~Certain(attempt)
  BY DEF Doubtful, Certain
<1>10. CASE GuessFirst
  <2>1. /\ phase = "next" /\ Doubtful(attempt) /\ Guess(attempt) \notin DOMAIN backtracks
        /\ GoTo(Caller(attempt))
        /\ backtracks' = [g \in DOMAIN backtracks \cup {Guess(attempt)} |->
                            IF g = Guess(attempt) THEN TRUE ELSE backtracks[g]]
    BY <1>10 DEF GuessFirst
  <2>2. Asking(backtracks, backtracks', {Guess(attempt)}) /\ Value(backtracks', Guess(attempt)) = 1
    BY <2>1, AskVacant
  <2>3. IsBacktracks(backtracks')
    BY <1>1, <2>1 DEF IsBacktracks
  <2>4. Chosen(backtracks', attempt) = Caller(attempt)
    BY <2>1, <2>2 DEF Chosen
  <2> QED
    BY <1>8, <2>1, <2>2, <2>3, <2>4
<1>11. CASE GuessSecond
  <2>1. /\ phase = "next" /\ Doubtful(attempt) /\ Guess(attempt) \in DOMAIN backtracks
        /\ backtracks[Guess(attempt)] /\ GoTo(Shimocha(attempt.actor))
        /\ backtracks' = [backtracks EXCEPT ![Guess(attempt)] = FALSE]
    BY <1>11 DEF GuessSecond
  <2>2. Asking(backtracks, backtracks', {Guess(attempt)}) /\ Value(backtracks', Guess(attempt)) = 2
    BY <2>1, AskFirst
  <2>3. IsBacktracks(backtracks')
    BY <1>1, <2>1 DEF IsBacktracks
  <2>4. Chosen(backtracks', attempt) = Shimocha(attempt.actor)
    BY <1>9, <2>1, <2>2 DEF Chosen
  <2> QED
    BY <1>8, <2>1, <2>2, <2>3, <2>4
<1>12. CASE GiveUpGuess
  <2>1. /\ phase = "next" /\ Doubtful(attempt) /\ Guess(attempt) \in DOMAIN backtracks
        /\ ~backtracks[Guess(attempt)] /\ GoTo(Shimocha(attempt.actor))
        /\ backtracks' = [g \in DOMAIN backtracks \ {Guess(attempt)} |-> backtracks[g]]
    BY <1>12 DEF GiveUpGuess
  <2>2. Asking(backtracks, backtracks', {Guess(attempt)}) /\ Value(backtracks', Guess(attempt)) = 0
    BY <2>1, AskSecond
  <2>3. IsBacktracks(backtracks')
    BY <1>1, <2>1 DEF IsBacktracks
  <2>4. Chosen(backtracks', attempt) = Shimocha(attempt.actor)
    BY <1>9, <2>1, <2>2 DEF Chosen
  <2> QED
    BY <1>8, <2>1, <2>2, <2>3, <2>4
<1> QED
  BY <1>4, <1>5, <1>6, <1>7, <1>10, <1>11, <1>12 DEF AttemptStep

LEMMA SearchInit == ConvInit => TablesInv /\ SearchInv
<1> SUFFICES ASSUME ConvInit PROVE TablesInv /\ SearchInv
  OBVIOUS
<1>1. phase = "play" /\ backtracks = << >> /\ begun = {} /\ attempt = Fresh
  BY DEF ConvInit, Fresh
<1>2. IsBacktracks(<< >>)
  BY DEF IsBacktracks
<1> QED
  BY <1>1, <1>2, FreshOK DEF TablesInv, SearchInv, Searching, Fresh

\* A failed attempt left backtracks that no attempt began with.
LEMMA FailedIsNew ==
  ASSUME TablesInv, SearchInv, phase = "failed", DOMAIN backtracks # {}
  PROVE  backtracks \notin begun
<1>1. PICK C \in begun : Run(Fresh, C, backtracks, attempt, phase) /\ Preceded(Fresh, begun, C)
  BY DEF SearchInv, Searching
<1>2. SUFFICES ASSUME backtracks \in begun PROVE FALSE
  OBVIOUS
<1>3. PICK P \in begun \ {C} : \E x : Run(Fresh, P, backtracks, x, "failed")
  BY <1>1, <1>2 DEF Preceded
<1>4. PICK x : Run(Fresh, P, backtracks, x, "failed")
  BY <1>3
<1>5. IsBacktracks(C) /\ IsBacktracks(P)
  BY DEF TablesInv
<1> QED
  BY <1>1, <1>4, <1>5, RunInjective

LEMMA SearchNext ==
  ASSUME TablesInv, SearchInv, [Next]_vars
  PROVE  TablesInv' /\ SearchInv'
<1>1. CASE StartConversion
  <2>1. /\ phase = "play" /\ phase' = "take" /\ begun' = {backtracks}
        /\ attempt' = FreshAttempt(takeEvents', discardEvents')
        /\ backtracks' = backtracks /\ indicators' = indicators
    BY <1>1 DEF StartConversion, roundVars
  <2>2. backtracks = << >> /\ IsBacktracks(backtracks)
    BY <2>1 DEF TablesInv
  <2>3. attempt' = Fresh' /\ AttemptOK(attempt')
    BY <2>1, FreshOK DEF Fresh, FreshAttempt
  <2>4. Run(Fresh', backtracks', backtracks', attempt', phase')
    BY <2>1, <2>3, RunBegins
  <2>5. Preceded(Fresh', begun', backtracks')
    BY <2>1, <2>2 DEF Preceded
  <2> QED
    BY <2>1, <2>2, <2>3, <2>4, <2>5 DEF TablesInv, SearchInv
<1>2. CASE AttemptStep
  <2>1. Moving
    BY <1>2, StepMoves
  <2>2. Fresh' = Fresh /\ begun' = begun
    BY <2>1 DEF Moving, Fresh, FreshAttempt
  <2>3. AttemptOK(attempt)
    BY DEF TablesInv
  <2>4. /\ AttemptOK(attempt')
        /\ \A C : Run(Fresh, C, backtracks, attempt, phase)
                    => Run(Fresh, C, backtracks', attempt', phase')
    BY <2>1, <2>3, MoveGoesOn DEF Moving
  <2>5. TablesInv'
    BY <2>1, <2>2, <2>4 DEF Moving, TablesInv
  <2>6. PICK C \in begun : Run(Fresh, C, backtracks, attempt, phase) /\ Preceded(Fresh, begun, C)
    BY <2>1 DEF Moving, SearchInv, Searching
  <2> QED
    BY <2>2, <2>4, <2>5, <2>6 DEF SearchInv
<1>3. CASE Retry
  <2>1. /\ phase = "failed" /\ begun' = begun \cup {backtracks}
        /\ backtracks' = backtracks /\ indicators' = indicators
        /\ takeEvents' = takeEvents /\ discardEvents' = discardEvents
    BY <1>3 DEF Retry, roundVars
  <2>2. Fresh' = Fresh
    BY <2>1 DEF Fresh, FreshAttempt
  <2>3. /\ DOMAIN backtracks = {} => phase' = "error" /\ attempt' = attempt
        /\ DOMAIN backtracks # {} => phase' = "take" /\ attempt' = Fresh
    BY <1>3 DEF Retry, Fresh
  <2>4. TablesInv'
    BY <2>1, <2>3, FreshOK DEF TablesInv, Fresh
  <2>5. SearchInv'
    <3>1. SUFFICES ASSUME DOMAIN backtracks # {} PROVE SearchInv'
      BY <2>3 DEF SearchInv, Searching
    <3>2. PICK C \in begun :
            Run(Fresh, C, backtracks, attempt, phase) /\ Preceded(Fresh, begun, C)
      BY <2>1 DEF SearchInv, Searching
    <3>3. backtracks \notin begun
      BY <2>1, <3>1, FailedIsNew
    <3>4. Run(Fresh, backtracks, backtracks, attempt', phase')
      BY <2>3, <3>1, RunBegins
    <3>5. Preceded(Fresh, begun \cup {backtracks}, backtracks)
      BY <2>1, <3>2, <3>3 DEF Preceded
    <3> QED
      BY <2>1, <2>2, <3>4, <3>5 DEF SearchInv
  <2> QED
    BY <2>4, <2>5
<1>4. CASE PlayRound
  <2>1. UNCHANGED convVars /\ phase = "play"
    BY <1>4 DEF PlayRound
  <2> QED
    BY <2>1 DEF convVars, TablesInv, SearchInv, Searching
<1>5. CASE UNCHANGED vars
  <2>1. UNCHANGED <<convVars, indicators>> /\ Fresh' = Fresh
    BY <1>5 DEF vars, convVars, roundVars, Fresh, FreshAttempt
  <2> QED
    BY <2>1 DEF convVars, TablesInv, SearchInv
<1> QED
  BY <1>1, <1>2, <1>3, <1>4, <1>5 DEF Next, Convert, AttemptStep

\* The search ends: no attempt begins with the backtracks of an earlier one,
\* for every round and every log of it (conv.rs:427-440).
THEOREM SearchEnds == Spec => NoAttemptTwice
<1>1. TablesInv /\ SearchInv /\ [Next]_vars
        => [phase = "failed" /\ phase' = "take" => backtracks' \notin begun]_vars
  <2> SUFFICES ASSUME TablesInv, SearchInv, Next, phase = "failed", phase' = "take"
               PROVE  backtracks' \notin begun
    OBVIOUS
  <2>1. Retry
    BY DEF Next, Convert, PlayRound, StartConversion, Take, DiscardStep, NobodyCalls,
           CallIsCertain, GuessFirst, GuessSecond, GiveUpGuess
  <2>2. backtracks' = backtracks /\ DOMAIN backtracks # {}
    BY <2>1 DEF Retry
  <2> QED
    BY <2>2, FailedIsNew
<1> QED
  BY <1>1, SearchInit, SearchNext, PTL DEF Spec, NoAttemptTwice

-----------------------------------------------------------------------------
(***************************************************************************)
(* Where an attempt is in the lists, and what it has written.              *)
(***************************************************************************)

MjaiEvents ==
  MoveEvents \cup {Dora} \cup {Event("reach_accepted", a, a, Other) : a \in Seats}

Attempts ==
  [takes : [Seats -> Seq(MoveEvents)], discards : [Seats -> Seq(MoveEvents)],
   events : Seq(MjaiEvents), doraFeed : Nat,
   takeIdx : [Seats -> Nat], discardIdx : [Seats -> Nat],
   reach : Seats \cup {Nobody}, lastDiscard : Tiles \cup {Other},
   lastActor : Seats \cup {Nobody},
   doraAtDiscard : BOOLEAN, doraAtTsumo : BOOLEAN, actor : Seats]

\* How many discards belong to the first takes of a.
Place(x, a) == CHOOSE P : Aligned(a, x.takes[a], x.discards[a], P)
AllAligned(x) == \A a \in Seats : Aligned(a, x.takes[a], x.discards[a], Place(x, a))

WithinLists(x) ==
  \A a \in Seats : /\ x.takeIdx[a] \in 0..Len(x.takes[a])
                   /\ x.discardIdx[a] \in 0..Len(x.discards[a])

\* All seats are between two turns, but for the actor that is to discard.
Between(x, a) == x.discardIdx[a] = Place(x, a)[x.takeIdx[a]]
InPlace(x, ph) ==
  /\ ph \in {"take", "next"} => \A a \in Seats : Between(x, a)
  /\ ph = "discard" =>
       /\ \A a \in Seats \ {x.actor} : Between(x, a)
       /\ x.takeIdx[x.actor] > 0 /\ MoreDiscards(x, x.actor)
       /\ x.takes[x.actor][x.takeIdx[x.actor]].type # "daiminkan"
       /\ x.discardIdx[x.actor] = Place(x, x.actor)[x.takeIdx[x.actor] - 1]

LastMove(ev, i) ==
  i \in DOMAIN ev /\ IsMove(ev[i]) /\ \A k \in DOMAIN ev : k > i => ~IsMove(ev[k])

\* The last move is the one that the next one has to follow.
Answers(x, m) ==
  \/ /\ m.type = "dahai" /\ m.actor = x.lastActor /\ m.pai = x.lastDiscard
     /\ MoreTakes(x, x.actor) /\ ~IsNaki(TakeOf(x)) => x.actor = Shimocha(m.actor)
  \/ /\ m.type \in Kans /\ m.actor = x.actor
     /\ MoreTakes(x, x.actor) => TakeOf(x).type = "tsumo"
InOrder(x, ph) ==
  /\ LegalMoves(x.events)
  /\ ph = "take" =>
       \/ x.lastDiscard = Other /\ \A k \in DOMAIN x.events : ~IsMove(x.events[k])
       \/ \E i \in DOMAIN x.events : LastMove(x.events, i) /\ Answers(x, x.events[i])
  /\ ph = "next" =>
       \E i \in DOMAIN x.events :
         /\ LastMove(x.events, i) /\ x.events[i].type = "dahai"
         /\ x.events[i].actor = x.actor /\ x.events[i].pai = x.lastDiscard

\* The indicators that are shown, the kans, and the kans that a draw follows.
Shown(ev) == Until(ev, {"dora"}, Len(ev))
KansIn(ev) == Until(ev, Kans, Len(ev))
IsOpenKan(e) == e.type \in {"kakan", "daiminkan"}
Drawn(ev, i) == \E k \in DOMAIN ev : k > i /\ ev[k].type = "tsumo"
AllDrawn(ev) == \A i \in DOMAIN ev : IsOpenKan(ev[i]) => Drawn(ev, i)
LastUndrawn(ev) ==
  \A i \in DOMAIN ev : IsOpenKan(ev[i]) =>
    Drawn(ev, i) \/ Until(ev, Kans, i) = KansIn(ev)
AnkanShown(ev) == \A i \in DOMAIN ev : ev[i].type = "ankan" => i < Len(ev)

\* Each kan has shown its indicator, or it is due: that of an open kan before
\* the next discard, and that of an open kan before it at the next draw.
DoraDue(x, ph) ==
  /\ DoraOnTime(x.events) /\ AnkanShown(x.events)
  /\ ph \in {"take", "discard", "next"} =>
       Shown(x.events) + Num(x.doraAtDiscard) + Num(x.doraAtTsumo) = KansIn(x.events)
  /\ ph = "take" =>
       /\ (x.doraAtDiscard \/ x.doraAtTsumo) /\ MoreTakes(x, x.actor) => TakeOf(x).type = "tsumo"
       /\ IF x.doraAtDiscard THEN LastUndrawn(x.events) ELSE AllDrawn(x.events)
  /\ ph \in {"discard", "next"} => ~x.doraAtTsumo /\ AllDrawn(x.events)
  /\ ph = "next" => ~x.doraAtDiscard
  /\ ph \in {"take", "discard"} /\ x.doraAtDiscard =>
       \E j \in 1..x.takeIdx[x.actor] : IsNaki(x.takes[x.actor][j])

\* What is known of an attempt in a phase.
AttemptInv(x, ph) ==
  /\ x \in Attempts /\ AllAligned(x) /\ WithinLists(x)
  /\ ph \in {"take", "discard", "next", "done"} =>
       InPlace(x, ph) /\ InOrder(x, ph) /\ DoraDue(x, ph)

-----------------------------------------------------------------------------
(***************************************************************************)
(* The fields of an attempt after a take, a discard and a change of actor. *)
(***************************************************************************)

AcceptedBy(x) ==
  IF x.reach = Nobody THEN << >> ELSE <<Event("reach_accepted", x.reach, x.reach, Other)>>

LEMMA TakenFields ==
  ASSUME NEW x \in Attempts
  PROVE  LET y == Taken(x)
         IN /\ y.takes = x.takes /\ y.discards = x.discards /\ y.actor = x.actor
            /\ y.events = x.events \o AcceptedBy(x) \o Reveal(ShownAtTake(x)) \o <<TakeOf(x)>>
            /\ y.doraFeed = x.doraFeed - ShownAtTake(x)
            /\ y.takeIdx = [x.takeIdx EXCEPT ![x.actor] = x.takeIdx[x.actor] + 1]
            /\ y.discardIdx = x.discardIdx /\ y.reach = Nobody
            /\ y.lastDiscard = x.lastDiscard /\ y.lastActor = x.lastActor
            /\ y.doraAtDiscard = (x.doraAtDiscard \/ TakeOf(x).type = "daiminkan")
            /\ y.doraAtTsumo = (x.doraAtTsumo /\ TakeOf(x).type # "tsumo")
            /\ DOMAIN y = DOMAIN x
  BY DEF Taken, Attempts, AcceptedBy

LEMMA ThrownFields ==
  ASSUME NEW x \in Attempts
  PROVE  LET y == Thrown(x)
             discard == DiscardOf(x)
             last == Last(Group(x))
         IN /\ y.takes = x.takes /\ y.discards = x.discards /\ y.actor = x.actor
            /\ y.events = x.events \o Reveal(ShownBefore(x)) \o Group(x) \o Reveal(ShownAfter(x))
            /\ y.doraFeed = x.doraFeed - ShownBefore(x) - ShownAfter(x)
            /\ y.takeIdx = x.takeIdx
            /\ y.discardIdx = [x.discardIdx EXCEPT ![x.actor] = x.discardIdx[x.actor] + Len(Group(x))]
            /\ y.reach = IF discard.type = "reach" THEN x.actor ELSE x.reach
            /\ y.lastDiscard = IF last.type = "dahai" THEN last.pai ELSE x.lastDiscard
            /\ y.lastActor = x.lastActor
            /\ y.doraAtTsumo = (x.doraAtTsumo \/ (x.doraAtDiscard /\ discard.type = "kakan"))
            /\ y.doraAtDiscard = (\/ x.doraAtDiscard /\ ~DueAtDiscard(x, discard)
                                  \/ discard.type = "kakan" /\ ~NoTakesLeft(x))
            /\ DOMAIN y = DOMAIN x
  BY DEF Thrown, Attempts

LEMMA PassToFields ==
  ASSUME NEW x \in Attempts, NEW a \in Seats
  PROVE  LET y == PassTo(x, a)
         IN /\ y.takes = x.takes /\ y.discards = x.discards /\ y.actor = a
            /\ y.events = x.events /\ y.doraFeed = x.doraFeed
            /\ y.takeIdx = x.takeIdx /\ y.discardIdx = x.discardIdx
            /\ y.reach = x.reach /\ y.lastDiscard = x.lastDiscard /\ y.lastActor = x.actor
            /\ y.doraAtTsumo = x.doraAtTsumo /\ y.doraAtDiscard = x.doraAtDiscard
            /\ y \in Attempts
  BY DEF PassTo, Attempts

LEMMA PlaceFrame ==
  ASSUME NEW x, NEW y, y.takes = x.takes, y.discards = x.discards
  PROVE  /\ \A a : Place(y, a) = Place(x, a)
         /\ AllAligned(x) <=> AllAligned(y)
<1>1. \A a : Place(y, a) = Place(x, a)
  BY DEF Place
<1> QED
  BY <1>1 DEF AllAligned

-----------------------------------------------------------------------------
(***************************************************************************)
(* An attempt goes through the aligned lists turn by turn.                 *)
(***************************************************************************)

LEMMA AlignedLists ==
  ASSUME NEW x, AllAligned(x), NEW a \in Seats
  PROVE  LET ts == x.takes[a]
             ds == x.discards[a]
             P == Place(x, a)
         IN /\ ts \in Seq(MoveEvents) /\ ds \in Seq(MoveEvents)
            /\ Len(ts) \in Nat /\ Len(ds) \in Nat
            /\ P \in [0..Len(ts) -> 0..Len(ds)] /\ P[0] = 0
            /\ \A k \in 1..Len(ts) : IsTake(ts[k], a) /\ Turn(a, ts, ds, k, P[k - 1], P[k])
  BY DEF AllAligned, Aligned

LEMMA TakeOfOK ==
  ASSUME NEW x \in Attempts, AllAligned(x), MoreTakes(x, x.actor)
  PROVE  TakeOf(x) \in MoveEvents /\ IsTake(TakeOf(x), x.actor)
<1> DEFINE a == x.actor
           ts == x.takes[a]
           k == x.takeIdx[a] + 1
<1>1. a \in Seats /\ x.takeIdx[a] \in Nat
  BY DEF Attempts
<1>2. ts \in Seq(MoveEvents) /\ Len(ts) \in Nat /\ \A i \in 1..Len(ts) : IsTake(ts[i], a)
  BY <1>1, AlignedLists
<1>3. k \in 1..Len(ts)
  BY <1>1, <1>2 DEF MoreTakes
<1>4. TakeOf(x) = ts[k]
  BY DEF TakeOf, NextTake
<1> HIDE DEF ts, k, a
<1> QED
  BY <1>2, <1>3, <1>4, ElementOfSeq DEF a

LEMMA TakenPlace ==
  ASSUME NEW x \in Attempts, AllAligned(x), WithinLists(x), InPlace(x, "take"),
         MoreTakes(x, x.actor)
  PROVE  LET y == Taken(x)
         IN AllAligned(y) /\ WithinLists(y) /\ InPlace(y, PhaseAfterTake(x))
<1> DEFINE y == Taken(x)
           a == x.actor
           ts == x.takes[a]
           ds == x.discards[a]
           P == Place(x, a)
           n == x.takeIdx[a]
<1> SUFFICES AllAligned(y) /\ WithinLists(y) /\ InPlace(y, PhaseAfterTake(x))
  OBVIOUS
<1>1. /\ y.takes = x.takes /\ y.discards = x.discards /\ y.actor = a
      /\ y.takeIdx = [x.takeIdx EXCEPT ![a] = n + 1] /\ y.discardIdx = x.discardIdx
  BY TakenFields
<1>2. a \in Seats /\ x.takeIdx \in [Seats -> Nat]
  BY DEF Attempts
<1>3. AllAligned(y) /\ \A b : Place(y, b) = Place(x, b)
  BY <1>1, PlaceFrame
<1>4. /\ Len(ts) \in Nat /\ Len(ds) \in Nat /\ P \in [0..Len(ts) -> 0..Len(ds)]
      /\ \A k \in 1..Len(ts) : Turn(a, ts, ds, k, P[k - 1], P[k])
  BY <1>2, AlignedLists
<1>5. n \in Nat /\ n < Len(ts) /\ y.takeIdx[a] = n + 1
      /\ \A b \in Seats : b # a => y.takeIdx[b] = x.takeIdx[b]
  BY <1>1, <1>2 DEF MoreTakes
<1>6. WithinLists(y)
  <2> SUFFICES ASSUME NEW b \in Seats
               PROVE  /\ y.takeIdx[b] \in 0..Len(x.takes[b])
                      /\ x.discardIdx[b] \in 0..Len(x.discards[b])
    BY <1>1 DEF WithinLists
  <2>1. CASE b = a
    BY SMTT(30), <1>4, <1>5, <2>1 DEF WithinLists
  <2>2. CASE b # a
    BY <1>5, <2>2 DEF WithinLists
  <2> QED
    BY <2>1, <2>2
<1>7. ASSUME NEW b \in Seats \ {a} PROVE Between(y, b)
  BY <1>1, <1>3, <1>5 DEF Between, InPlace
<1>8. x.discardIdx[a] = P[n]
  BY <1>2 DEF InPlace, Between
<1>9. TakeOf(x) = ts[n + 1]
  BY DEF TakeOf, NextTake
<1>10. Turn(a, ts, ds, n + 1, P[n], P[n + 1])
  <2>1. n + 1 \in 1..Len(ts) /\ (n + 1) - 1 = n
    BY <1>4, <1>5
  <2> HIDE DEF n, ts, ds, P
  <2> QED
    BY <1>4, <2>1
<1> HIDE DEF y, a, ts, ds, P, n
<1>11. CASE TakeOf(x).type = "daiminkan"
  <2>1. P[n + 1] = P[n]
    BY <1>9, <1>10, <1>11 DEF Turn, NoTurn
  <2>2. Between(y, a)
    BY <1>1, <1>3, <1>5, <1>8, <2>1 DEF Between, P
  <2>3. InPlace(y, "take")
    BY <1>7, <2>2 DEF InPlace
  <2> QED
    BY <1>3, <1>6, <1>11, <2>3 DEF PhaseAfterTake
<1>12. CASE TakeOf(x).type # "daiminkan" /\ MoreDiscards(x, a)
  <2>1. MoreDiscards(y, a)
    BY <1>1, <1>12 DEF MoreDiscards
  <2>2. y.takeIdx[a] > 0 /\ y.takes[a][y.takeIdx[a]].type # "daiminkan"
    BY <1>1, <1>5, <1>9, <1>12 DEF ts
  <2>3. y.discardIdx[a] = Place(y, a)[y.takeIdx[a] - 1]
    <3>1. y.takeIdx[a] - 1 = n
      BY <1>5
    <3> QED
      BY <1>1, <1>3, <1>8, <3>1 DEF P
  <2>4. InPlace(y, "discard")
    BY <1>1, <1>7, <2>1, <2>2, <2>3 DEF InPlace
  <2> QED
    BY <1>3, <1>6, <1>12, <2>4 DEF PhaseAfterTake, a
<1>13. CASE TakeOf(x).type # "daiminkan" /\ ~MoreDiscards(x, a)
  <2>1. PhaseAfterTake(x) = "done"
    BY <1>13 DEF PhaseAfterTake, a
  <2>2. InPlace(y, "done")
    BY DEF InPlace
  <2> QED
    BY <1>3, <1>6, <2>1, <2>2
<1> QED
  BY <1>11, <1>12, <1>13

\* The actor that is to discard goes on with a dahai, a reach or a kan.
LEMMA DiscardKinds ==
  ASSUME NEW x \in Attempts, AllAligned(x), WithinLists(x), InPlace(x, "discard")
  PROVE  LET a == x.actor
             ts == x.takes[a]
             ds == x.discards[a]
             k == x.takeIdx[a]
             p == x.discardIdx[a]
             q == Place(x, a)[k]
         IN /\ a \in Seats /\ k \in 1..Len(ts) /\ p \in Nat /\ q \in 0..Len(ds)
            /\ DiscardOf(x) = ds[p + 1]
            /\ \A i \in 1..Len(ds) : ds[i] \in MoveEvents
            /\ Len(ts) \in Nat /\ Len(ds) \in Nat
            /\ \/ DahaiTurn(a, ts, ds, k, p, q)
               \/ ReachTurn(a, ts, ds, k, p, q)
               \/ KanTurn(a, ts, ds, k, p, q)
<1> DEFINE a == x.actor
           ts == x.takes[a]
           ds == x.discards[a]
           P == Place(x, a)
           k == x.takeIdx[a]
           p == x.discardIdx[a]
<1>1. a \in Seats /\ k \in Nat /\ p \in Nat
  BY DEF Attempts
<1>2. /\ Len(ts) \in Nat /\ Len(ds) \in Nat /\ P \in [0..Len(ts) -> 0..Len(ds)]
      /\ \A i \in 1..Len(ts) : Turn(a, ts, ds, i, P[i - 1], P[i])
      /\ ds \in Seq(MoveEvents)
  BY <1>1, AlignedLists
<1>3. k \in 1..Len(ts)
  BY <1>1, <1>2 DEF WithinLists, InPlace
<1>4. p = P[k - 1] /\ p < Len(ds) /\ ts[k].type # "daiminkan"
  BY DEF InPlace, MoreDiscards
<1>5. DiscardOf(x) = ds[p + 1]
  BY DEF DiscardOf, NextDiscard
<1> HIDE DEF a, ts, ds, P, k, p
<1>6. Turn(a, ts, ds, k, p, P[k])
  BY <1>2, <1>3, <1>4
<1>7. ~NoTurn(ts, ds, k, p, P[k])
  BY <1>1, <1>2, <1>4 DEF NoTurn
<1>8. P[k] \in 0..Len(ds)
  BY <1>2, <1>3
<1>9. \A i \in 1..Len(ds) : ds[i] \in MoveEvents
  BY <1>2, ElementOfSeq
<1> QED
  BY <1>1, <1>2, <1>3, <1>5, <1>6, <1>7, <1>8, <1>9 DEF Turn, a, ts, ds, P, k, p

\* What the actor puts down, by its kind.
IsKanOf(e, a) == e.type \in {"ankan", "kakan"} /\ e.actor = a
LEMMA GroupKinds ==
  ASSUME NEW x \in Attempts, AllAligned(x), WithinLists(x), InPlace(x, "discard")
  PROVE  LET a == x.actor
             e == DiscardOf(x)
             ts == x.takes[a]
             k == x.takeIdx[a]
             q == Place(x, a)[k]
         IN /\ q = x.discardIdx[a] + Len(Group(x)) /\ Len(Group(x)) \in {1, 2} /\ e \in MoveEvents
            /\ \/ e.type = "dahai" /\ Group(x) = <<e>> /\ IsDahai(e, a)
               \/ /\ e.type = "reach" /\ e.actor = a
                  /\ \E f \in MoveEvents : Group(x) = <<e, f>> /\ IsDahai(f, a)
                  /\ \A j \in 1..k : ts[j].type = "tsumo"
               \/ /\ IsKanOf(e, a) /\ Group(x) = <<e>>
                  /\ DrawsNext(ts, k)
                  /\ e.type = "ankan" => k < Len(ts)
                  /\ e.type = "kakan" => \E j \in 1..(k - 1) : IsNaki(ts[j])
<1> DEFINE a == x.actor
           ts == x.takes[a]
           ds == x.discards[a]
           k == x.takeIdx[a]
           p == x.discardIdx[a]
           q == Place(x, a)[k]
           e == DiscardOf(x)
           f == ds[p + 2]
<1>1. /\ a \in Seats /\ k \in 1..Len(ts) /\ p \in Nat /\ q \in 0..Len(ds)
      /\ e = ds[p + 1] /\ Len(ds) \in Nat
      /\ \A i \in 1..Len(ds) : ds[i] \in MoveEvents
      /\ \/ DahaiTurn(a, ts, ds, k, p, q)
         \/ ReachTurn(a, ts, ds, k, p, q)
         \/ KanTurn(a, ts, ds, k, p, q)
  BY DiscardKinds
<1>2. Group(x) = IF e.type = "reach" THEN <<e, f>> ELSE <<e>>
  BY DEF Group
<1> HIDE DEF ds, k, p, q, e, f, a, ts
<1>3. CASE DahaiTurn(a, ts, ds, k, p, q)
  <2>1. q = p + 1 /\ IsDahai(e, a) /\ e.type = "dahai" /\ e \in MoveEvents
    BY <1>1, <1>3 DEF DahaiTurn, IsDahai
  <2>2. Group(x) = <<e>> /\ Len(<<e>>) = 1
    BY <1>2, <2>1
  <2> QED
    BY <2>1, <2>2 DEF ds, k, p, q, e, a, ts
<1>4. CASE ReachTurn(a, ts, ds, k, p, q)
  <2>1. /\ q = p + 2 /\ IsDahai(f, a) /\ e.type = "reach" /\ e.actor = a
        /\ e \in MoveEvents /\ f \in MoveEvents /\ \A j \in 1..k : ts[j].type = "tsumo"
    <3>1. q = p + 2
      BY <1>4 DEF ReachTurn
    <3>2. p + 1 \in 1..Len(ds) /\ p + 2 \in 1..Len(ds)
      BY <1>1, <3>1
    <3> QED
      BY <1>1, <1>4, <3>2 DEF ReachTurn, f
  <2>2. Group(x) = <<e, f>> /\ Len(<<e, f>>) = 2
    BY <1>2, <2>1
  <2> QED
    BY <2>1, <2>2 DEF ds, k, p, q, e, a, ts
<1>5. CASE KanTurn(a, ts, ds, k, p, q)
  <2>1. q = p + 1 /\ IsKanOf(e, a) /\ e \in MoveEvents /\ e.type # "reach"
    BY <1>1, <1>5 DEF KanTurn, IsKanOf
  <2>2. /\ DrawsNext(ts, k) /\ (e.type = "ankan" => k < Len(ts))
        /\ e.type = "kakan" => \E j \in 1..(k - 1) : IsNaki(ts[j])
    BY <1>1, <1>5 DEF KanTurn
  <2>3. Group(x) = <<e>> /\ Len(<<e>>) = 1
    BY <1>2, <2>1
  <2> QED
    BY <2>1, <2>2, <2>3 DEF ds, k, p, q, e, a, ts
<1> QED
  BY <1>1, <1>3, <1>4, <1>5

LEMMA ThrownPlace ==
  ASSUME NEW x \in Attempts, AllAligned(x), WithinLists(x), InPlace(x, "discard")
  PROVE  LET y == Thrown(x)
         IN AllAligned(y) /\ WithinLists(y) /\ InPlace(y, PhaseAfterDiscard(x))
<1> DEFINE y == Thrown(x)
           a == x.actor
           n == Len(Group(x))
           q == Place(x, a)[x.takeIdx[a]]
<1> SUFFICES AllAligned(y) /\ WithinLists(y) /\ InPlace(y, PhaseAfterDiscard(x))
  OBVIOUS
<1>1. /\ y.takes = x.takes /\ y.discards = x.discards /\ y.actor = a
      /\ y.discardIdx = [x.discardIdx EXCEPT ![a] = x.discardIdx[a] + n] /\ y.takeIdx = x.takeIdx
  BY ThrownFields
<1>2. a \in Seats /\ x.discardIdx \in [Seats -> Nat]
  BY DEF Attempts
<1>3. AllAligned(y) /\ \A b : Place(y, b) = Place(x, b)
  BY <1>1, PlaceFrame
<1>4. q = x.discardIdx[a] + n /\ q \in 0..Len(x.discards[a])
  BY DiscardKinds, GroupKinds
<1> HIDE DEF y, n, q
<1>5. y.discardIdx[a] = q /\ \A b \in Seats : b # a => y.discardIdx[b] = x.discardIdx[b]
  BY <1>1, <1>2, <1>4
<1>6. WithinLists(y)
  BY <1>1, <1>4, <1>5 DEF WithinLists
<1>7. \A b \in Seats \ {a} : Between(y, b)
  BY <1>1, <1>3, <1>5 DEF Between, InPlace
<1>8. Between(y, a)
  BY <1>1, <1>3, <1>5 DEF Between, q
<1>9. \A b \in Seats : Between(y, b)
  BY <1>7, <1>8
<1>10. PhaseAfterDiscard(x) \in {"done", "take", "next"}
  BY DEF PhaseAfterDiscard
<1> QED
  BY <1>3, <1>6, <1>9, <1>10 DEF InPlace

LEMMA PassToPlace ==
  ASSUME NEW x \in Attempts, AllAligned(x), WithinLists(x), InPlace(x, "next"), NEW a \in Seats
  PROVE  LET y == PassTo(x, a)
         IN AllAligned(y) /\ WithinLists(y) /\ InPlace(y, "take")
<1> DEFINE y == PassTo(x, a)
<1> SUFFICES AllAligned(y) /\ WithinLists(y) /\ InPlace(y, "take")
  OBVIOUS
<1>1. /\ y.takes = x.takes /\ y.discards = x.discards
      /\ y.discardIdx = x.discardIdx /\ y.takeIdx = x.takeIdx
  BY PassToFields
<1> HIDE DEF y
<1>2. AllAligned(y) /\ \A b : Place(y, b) = Place(x, b)
  BY <1>1, PlaceFrame
<1> QED
  BY <1>1, <1>2 DEF WithinLists, InPlace, Between

-----------------------------------------------------------------------------
(***************************************************************************)
(* The events that a step writes.                                          *)
(***************************************************************************)

LEMMA DoraEvent == Dora \in MjaiEvents /\ Dora.type = "dora"
  BY DEF MjaiEvents, Dora, Event

\* No indicator or one is shown.
LEMMA RevealOne ==
  ASSUME NEW n \in {0, 1}
  PROVE  /\ Reveal(n) = IF n = 0 THEN << >> ELSE <<Dora>>
         /\ Reveal(n) \in Seq(MjaiEvents)
<1>1. CASE n = 0
  BY <1>1 DEF Reveal
<1>2. CASE n = 1
  <2>1. Reveal(n) = [i \in 1..1 |-> Dora]
    BY <1>2 DEF Reveal
  <2>2. <<Dora>> = [i \in 1..1 |-> Dora]
    OBVIOUS
  <2>3. Reveal(n) = <<Dora>>
    BY <2>1, <2>2
  <2>4. <<Dora>> \in Seq(MjaiEvents)
    BY DoraEvent
  <2>5. n # 0
    BY <1>2
  <2> QED
    BY <2>3, <2>4, <2>5, Zenon
<1> QED
  BY <1>1, <1>2

LEMMA AcceptedOne ==
  ASSUME NEW x \in Attempts
  PROVE  \/ AcceptedBy(x) = << >>
         \/ \E e \in MjaiEvents : AcceptedBy(x) = <<e>> /\ e.type = "reach_accepted"
<1>1. CASE x.reach = Nobody
  BY <1>1 DEF AcceptedBy
<1>2. CASE x.reach # Nobody
  <2>1. x.reach \in Seats
    BY <1>2 DEF Attempts
  <2> DEFINE e == Event("reach_accepted", x.reach, x.reach, Other)
  <2>2. e \in MjaiEvents /\ e.type = "reach_accepted"
    BY <2>1 DEF MjaiEvents, Event
  <2>3. AcceptedBy(x) = <<e>>
    BY <1>2 DEF AcceptedBy
  <2> HIDE DEF e
  <2> QED
    BY <2>2, <2>3
<1> QED
  BY <1>1, <1>2

LEMMA NumOne == \A b : Num(b) \in {0, 1}
  BY DEF Num

LEMMA TakenType ==
  ASSUME NEW x \in Attempts, AllAligned(x), ~TakeFails(x)
  PROVE  /\ Taken(x) \in Attempts /\ Taken(x).doraFeed <= x.doraFeed
         /\ TakeOf(x) \in MoveEvents
<1> DEFINE y == Taken(x)
           n == ShownAtTake(x)
           t == TakeOf(x)
           idx == x.takeIdx[x.actor] + 1
<1>1. TakeOf(x) \in MoveEvents
  BY TakeOfOK DEF TakeFails
<1>2. /\ y.takes = x.takes /\ y.discards = x.discards /\ y.actor = x.actor
      /\ y.events = x.events \o AcceptedBy(x) \o Reveal(n) \o <<t>>
      /\ y.doraFeed = x.doraFeed - n
      /\ y.takeIdx = [x.takeIdx EXCEPT ![x.actor] = idx]
      /\ y.discardIdx = x.discardIdx /\ y.reach = Nobody
      /\ y.lastDiscard = x.lastDiscard /\ y.lastActor = x.lastActor
      /\ y.doraAtDiscard = (x.doraAtDiscard \/ t.type = "daiminkan")
      /\ y.doraAtTsumo = (x.doraAtTsumo /\ t.type # "tsumo")
      /\ DOMAIN y = DOMAIN x
  BY TakenFields
<1>3. n \in {0, 1} /\ n <= x.doraFeed /\ x.doraFeed \in Nat
  BY NumOne DEF ShownAtTake, TakeFails, Feeds, Attempts
<1>4. idx \in Nat /\ x.takeIdx \in [Seats -> Nat] /\ x.actor \in Seats
  BY DEF Attempts
<1> HIDE DEF n, t, idx
<1>5. Reveal(n) \in Seq(MjaiEvents)
  BY <1>3, RevealOne
<1>6. AcceptedBy(x) \in Seq(MjaiEvents)
  <2>1. << >> \in Seq(MjaiEvents) /\ \A e \in MjaiEvents : <<e>> \in Seq(MjaiEvents)
    OBVIOUS
  <2> QED
    BY <2>1, AcceptedOne
<1>7. <<t>> \in Seq(MjaiEvents)
  <2>1. t \in MjaiEvents
    BY <1>1 DEF t, MjaiEvents
  <2> QED
    BY <2>1
<1>8. x.events \in Seq(MjaiEvents)
  BY DEF Attempts
<1>9. x.events \o AcceptedBy(x) \o Reveal(n) \o <<t>> \in Seq(MjaiEvents)
  BY <1>5, <1>6, <1>7, <1>8, ConcatProperties
<1> HIDE DEF y
<1>10. [x.takeIdx EXCEPT ![x.actor] = idx] \in [Seats -> Nat] /\ x.doraFeed - n \in Nat
       /\ x.doraFeed - n <= x.doraFeed
  BY <1>3, <1>4
<1>11. y.doraAtDiscard \in BOOLEAN /\ y.doraAtTsumo \in BOOLEAN
  BY <1>2
<1>12. y = [f \in DOMAIN x |-> y[f]]
  BY <1>2 DEF y, Taken
<1> QED
  BY <1>1, <1>2, <1>9, <1>10, <1>11, <1>12 DEF Attempts, y

LEMMA ThrownType ==
  ASSUME NEW x \in Attempts, AllAligned(x), WithinLists(x), InPlace(x, "discard"),
         ~DiscardFails(x)
  PROVE  Thrown(x) \in Attempts /\ Thrown(x).doraFeed <= x.doraFeed
<1> DEFINE y == Thrown(x)
           n == ShownBefore(x)
           m == ShownAfter(x)
           e == DiscardOf(x)
           g == Group(x)
           last == Last(g)
           idx == x.discardIdx[x.actor] + Len(g)
<1>1. /\ y.takes = x.takes /\ y.discards = x.discards /\ y.actor = x.actor
      /\ y.events = x.events \o Reveal(n) \o g \o Reveal(m)
      /\ y.doraFeed = x.doraFeed - n - m
      /\ y.takeIdx = x.takeIdx
      /\ y.discardIdx = [x.discardIdx EXCEPT ![x.actor] = idx]
      /\ y.reach = (IF e.type = "reach" THEN x.actor ELSE x.reach)
      /\ y.lastDiscard = (IF last.type = "dahai" THEN last.pai ELSE x.lastDiscard)
      /\ y.lastActor = x.lastActor
      /\ y.doraAtTsumo = (x.doraAtTsumo \/ (x.doraAtDiscard /\ e.type = "kakan"))
      /\ y.doraAtDiscard = (\/ x.doraAtDiscard /\ ~DueAtDiscard(x, e)
                            \/ e.type = "kakan" /\ ~NoTakesLeft(x))
      /\ DOMAIN y = DOMAIN x
  BY ThrownFields
<1>2. n \in {0, 1} /\ m \in {0, 1} /\ n + m <= x.doraFeed /\ x.doraFeed \in Nat
  BY NumOne DEF ShownBefore, ShownAfter, DiscardFails, Feeds, Attempts
<1>3. /\ g \in Seq(MjaiEvents) /\ Len(g) \in Nat /\ last \in MoveEvents
  <2>1. \/ e \in MoveEvents /\ g = <<e>>
        \/ e \in MoveEvents /\ \E f \in MoveEvents : g = <<e, f>>
    BY GroupKinds
  <2>2. \A f \in MoveEvents : f \in MjaiEvents
    BY DEF MjaiEvents
  <2> HIDE DEF g, e
  <2>3. CASE e \in MoveEvents /\ g = <<e>>
    <3>1. Last(<<e>>) = e /\ Len(<<e>>) = 1
      BY DEF Last
    <3>2. <<e>> \in Seq(MjaiEvents)
      BY <2>2, <2>3
    <3> QED
      BY <2>3, <3>1, <3>2
  <2>4. CASE e \in MoveEvents /\ \E f \in MoveEvents : g = <<e, f>>
    <3>1. PICK f \in MoveEvents : g = <<e, f>>
      BY <2>4
    <3>2. Last(<<e, f>>) = f /\ Len(<<e, f>>) = 2
      BY DEF Last
    <3>3. <<e, f>> \in Seq(MjaiEvents)
      BY <2>2, <2>4
    <3> QED
      BY <3>1, <3>2, <3>3
  <2> QED
    BY <2>1, <2>3, <2>4
<1>4. idx \in Nat /\ x.discardIdx \in [Seats -> Nat] /\ x.actor \in Seats
  BY SMTT(30), <1>3 DEF Attempts
<1> HIDE DEF n, m, e, g, last, idx
<1>5. Reveal(n) \in Seq(MjaiEvents) /\ Reveal(m) \in Seq(MjaiEvents)
  BY <1>2, RevealOne
<1>6. x.events \in Seq(MjaiEvents)
  BY DEF Attempts
<1>7. x.events \o Reveal(n) \o g \o Reveal(m) \in Seq(MjaiEvents)
  BY <1>3, <1>5, <1>6, ConcatProperties
<1> HIDE DEF y
<1>8. /\ [x.discardIdx EXCEPT ![x.actor] = idx] \in [Seats -> Nat]
      /\ x.doraFeed - n - m \in Nat /\ x.doraFeed - n - m <= x.doraFeed
  BY <1>2, <1>4
<1>9. y.doraAtDiscard \in BOOLEAN /\ y.doraAtTsumo \in BOOLEAN
  BY <1>1
<1>10. y.lastDiscard \in Tiles \cup {Other} /\ y.reach \in Seats \cup {Nobody}
  <2>1. last.pai \in Tiles \cup {Other}
    BY <1>3 DEF MoveEvents
  <2> QED
    BY <1>1, <2>1 DEF Attempts
<1>11. y = [f \in DOMAIN x |-> y[f]]
  BY <1>1 DEF y, Thrown
<1> QED
  BY <1>1, <1>7, <1>8, <1>9, <1>10, <1>11 DEF Attempts, y

-----------------------------------------------------------------------------
(***************************************************************************)
(* One event more.                                                         *)
(***************************************************************************)

LEMMA OneMore ==
  ASSUME NEW S, NEW ev \in Seq(S), NEW e \in S
  PROVE  LET g == ev \o <<e>>
         IN /\ g \in Seq(S) /\ Len(ev) \in Nat /\ Len(g) = Len(ev) + 1 /\ g[Len(ev) + 1] = e
            /\ \A i \in 1..Len(ev) : g[i] = ev[i]
            /\ DOMAIN ev = 1..Len(ev) /\ DOMAIN g = 1..(Len(ev) + 1)
<1>1. ev \o <<e>> = Append(ev, e)
  BY AppendIsConcat
<1> QED
  BY <1>1, AppendProperties

LEMMA TwoMore ==
  ASSUME NEW S, NEW ev \in Seq(S), NEW e \in S, NEW f \in S
  PROVE  ev \o <<e, f>> = (ev \o <<e>>) \o <<f>>
<1> DEFINE s == <<e>>
           p == s \o <<f>>
           q == <<e, f>>
<1>1. s \in Seq(S) /\ Len(s) = 1 /\ s[1] = e
  OBVIOUS
<1>2. <<f>> \in Seq(S)
  OBVIOUS
<1>3. q \in Seq(S) /\ Len(q) = 2 /\ q[1] = e /\ q[2] = f
  OBVIOUS
<1> HIDE DEF s, q
<1>4. p \in Seq(S) /\ Len(p) = 2 /\ p[1] = e /\ p[2] = f
  <2>1. /\ p \in Seq(S) /\ Len(p) = Len(s) + 1 /\ p[Len(s) + 1] = f
        /\ \A i \in 1..Len(s) : p[i] = s[i]
    <3>1. s \in Seq(S)
      BY <1>1
    <3> QED
      BY <3>1, OneMore
  <2> HIDE DEF p
  <2>2. 1 \in 1..Len(s) /\ Len(s) + 1 = 2
    BY <1>1
  <2> QED
    BY <1>1, <2>1, <2>2
<1> HIDE DEF p
<1>5. p = q
  <2>1. \A i \in 1..2 : p[i] = q[i]
    BY <1>3, <1>4
  <2> QED
    BY <1>3, <1>4, <2>1, SeqEqual
<1>6. ev \o p = (ev \o s) \o <<f>>
  BY <1>1, <1>2, ConcatAssociative DEF p
<1> QED
  BY <1>5, <1>6 DEF s, q

NoMove(ev) == \A k \in DOMAIN ev : ~IsMove(ev[k])

\* There is one last move.
LEMMA LastMoveUnique ==
  ASSUME NEW ev \in Seq(MjaiEvents), NEW i, NEW j, LastMove(ev, i), LastMove(ev, j)
  PROVE  i = j
<1>1. i \in Nat /\ j \in Nat
  BY DEF LastMove
<1> QED
  BY <1>1 DEF LastMove

\* An event that is no move is between the moves.
LEMMA Announced ==
  ASSUME NEW ev \in Seq(MjaiEvents), NEW f,
         f = << >> \/ \E e \in MjaiEvents : f = <<e>> /\ ~IsMove(e)
  PROVE  LET g == ev \o f
         IN /\ g \in Seq(MjaiEvents)
            /\ LegalMoves(ev) => LegalMoves(g)
            /\ NoMove(ev) => NoMove(g)
            /\ \A i : LastMove(ev, i) => LastMove(g, i) /\ g[i] = ev[i]
<1>1. CASE f = << >>
  <2>1. ev \o f = ev
    BY <1>1, ConcatEmptySeq
  <2> QED
    BY <2>1
<1>2. CASE \E e \in MjaiEvents : f = <<e>> /\ ~IsMove(e)
  <2>1. PICK e \in MjaiEvents : f = <<e>> /\ ~IsMove(e)
    BY <1>2
  <2> DEFINE g == ev \o <<e>>
  <2>2. /\ g \in Seq(MjaiEvents) /\ Len(ev) \in Nat /\ Len(g) = Len(ev) + 1 /\ g[Len(ev) + 1] = e
        /\ \A i \in 1..Len(ev) : g[i] = ev[i]
        /\ DOMAIN ev = 1..Len(ev) /\ DOMAIN g = 1..(Len(ev) + 1)
    BY OneMore
  <2> HIDE DEF g
  <2>3. \A i \in DOMAIN g : IsMove(g[i]) => i \in DOMAIN ev
    BY <2>1, <2>2
  <2>4. LegalMoves(ev) => LegalMoves(g)
    <3> SUFFICES ASSUME LegalMoves(ev), NEW i \in DOMAIN g, NEW j \in DOMAIN g,
                        i < j, IsMove(g[i]), IsMove(g[j]), \A k \in (i + 1)..(j - 1) : ~IsMove(g[k])
                 PROVE  MayFollow(g[i], g[j])
      BY DEF LegalMoves
    <3>1. i \in DOMAIN ev /\ j \in DOMAIN ev /\ g[i] = ev[i] /\ g[j] = ev[j]
      BY <2>2, <2>3
    <3>2. \A k \in (i + 1)..(j - 1) : ~IsMove(ev[k])
      BY <2>2, <3>1
    <3> QED
      BY <3>1, <3>2 DEF LegalMoves
  <2>5. NoMove(ev) => NoMove(g)
    BY <2>2, <2>3 DEF NoMove
  <2>6. \A i : LastMove(ev, i) => LastMove(g, i) /\ g[i] = ev[i]
    BY <2>2, <2>3 DEF LastMove
  <2> QED
    BY <2>1, <2>2, <2>4, <2>5, <2>6 DEF g
<1> QED
  BY <1>1, <1>2

\* A move that may follow the last one.
LEMMA NextMove ==
  ASSUME NEW ev \in Seq(MjaiEvents), NEW e \in MjaiEvents, IsMove(e), LegalMoves(ev),
         \A i \in DOMAIN ev : LastMove(ev, i) => MayFollow(ev[i], e)
  PROVE  LET g == ev \o <<e>>
         IN /\ g \in Seq(MjaiEvents) /\ LegalMoves(g)
            /\ LastMove(g, Len(ev) + 1) /\ g[Len(ev) + 1] = e
<1> DEFINE g == ev \o <<e>>
<1>1. /\ g \in Seq(MjaiEvents) /\ Len(ev) \in Nat /\ Len(g) = Len(ev) + 1 /\ g[Len(ev) + 1] = e
      /\ \A i \in 1..Len(ev) : g[i] = ev[i]
      /\ DOMAIN ev = 1..Len(ev) /\ DOMAIN g = 1..(Len(ev) + 1)
  BY OneMore
<1> HIDE DEF g
<1>2. LegalMoves(g)
  <2> SUFFICES ASSUME NEW i \in DOMAIN g, NEW j \in DOMAIN g,
                      i < j, IsMove(g[i]), IsMove(g[j]), \A k \in (i + 1)..(j - 1) : ~IsMove(g[k])
               PROVE  MayFollow(g[i], g[j])
    BY DEF LegalMoves
  <2>1. i \in DOMAIN ev /\ g[i] = ev[i]
    BY <1>1
  <2>2. CASE j \in DOMAIN ev
    <3>1. g[j] = ev[j] /\ \A k \in (i + 1)..(j - 1) : ~IsMove(ev[k])
      BY <1>1, <2>1, <2>2
    <3> QED
      BY <2>1, <2>2, <3>1 DEF LegalMoves
  <2>3. CASE j \notin DOMAIN ev
    <3>1. j = Len(ev) + 1
      BY <1>1, <2>3
    <3>2. \A k \in DOMAIN ev : k > i => k \in (i + 1)..(j - 1) /\ g[k] = ev[k]
      BY <1>1, <2>1, <3>1
    <3>3. LastMove(ev, i)
      BY <2>1, <3>2 DEF LastMove
    <3> QED
      BY <1>1, <2>1, <3>1, <3>3
  <2> QED
    BY <2>2, <2>3
<1>3. LastMove(g, Len(ev) + 1)
  BY <1>1 DEF LastMove
<1> QED
  BY <1>1, <1>2, <1>3 DEF g

-----------------------------------------------------------------------------
(***************************************************************************)
(* The moves are written in a legal order.                                 *)
(***************************************************************************)

LEMMA MoveTypes ==
  /\ \A e \in MoveEvents : e \in MjaiEvents /\ IsMove(e) /\ e.actor \in Seats
  /\ \A e \in MjaiEvents : IsMove(e) => e \in MoveEvents
  /\ ~IsMove(Dora) /\ \A e : e.type = "reach_accepted" => ~IsMove(e)
<1>1. \A e \in MoveEvents : e \in MjaiEvents /\ IsMove(e) /\ e.actor \in Seats
  BY DEF MoveEvents, MjaiEvents, IsMove, Nakis
<1>2. \A e \in MjaiEvents : IsMove(e) => e \in MoveEvents
  BY DEF MjaiEvents, IsMove, Dora, Event
<1> QED
  BY <1>1, <1>2, DoraEvent DEF IsMove

LEMMA RevealAnnounced ==
  ASSUME NEW n \in {0, 1}
  PROVE  Reveal(n) = << >> \/ \E e \in MjaiEvents : Reveal(n) = <<e>> /\ ~IsMove(e)
  BY RevealOne, DoraEvent, MoveTypes

\* A daiminkan is followed by a draw of the same seat.
LEMMA DaiminkanDraws ==
  ASSUME NEW x \in Attempts, AllAligned(x), MoreTakes(x, x.actor),
         TakeOf(x).type = "daiminkan"
  PROVE  DrawsNext(x.takes[x.actor], x.takeIdx[x.actor] + 1)
<1> DEFINE a == x.actor
           ts == x.takes[a]
           ds == x.discards[a]
           P == Place(x, a)
           k == x.takeIdx[a] + 1
<1>1. a \in Seats /\ x.takeIdx[a] \in Nat
  BY DEF Attempts
<1>2. Len(ts) \in Nat /\ \A i \in 1..Len(ts) : Turn(a, ts, ds, i, P[i - 1], P[i])
  BY <1>1, AlignedLists
<1>3. k \in 1..Len(ts)
  BY <1>1, <1>2 DEF MoreTakes
<1>4. ts[k].type = "daiminkan"
  BY DEF TakeOf, NextTake
<1> HIDE DEF a, ts, ds, P, k
<1>5. Turn(a, ts, ds, k, P[k - 1], P[k])
  BY <1>2, <1>3
<1>6. DrawsNext(ts, k)
  BY <1>4, <1>5 DEF Turn, NoTurn
<1> QED
  BY <1>6 DEF a, ts, k

LEMMA TakenOrder ==
  ASSUME NEW x \in Attempts, AllAligned(x), InOrder(x, "take"), ~TakeFails(x)
  PROVE  InOrder(Taken(x), PhaseAfterTake(x))
<1> DEFINE y == Taken(x)
           t == TakeOf(x)
           a == x.actor
           ev0 == x.events
           ev1 == ev0 \o AcceptedBy(x)
           ev2 == ev1 \o Reveal(ShownAtTake(x))
           g == ev2 \o <<t>>
<1>1. /\ y.takes = x.takes /\ y.actor = a /\ y.events = g
      /\ y.takeIdx = [x.takeIdx EXCEPT ![a] = x.takeIdx[a] + 1]
  BY TakenFields
<1>2. ev0 \in Seq(MjaiEvents) /\ a \in Seats /\ x.takeIdx \in [Seats -> Nat]
  BY DEF Attempts
<1>3. MoreTakes(x, a) /\ ~Unexpected(x, t)
  BY DEF TakeFails
<1>4. t \in MoveEvents /\ IsTake(t, a) /\ IsMove(t) /\ t \in MjaiEvents
  BY <1>3, TakeOfOK, MoveTypes
<1>5. AcceptedBy(x) = << >> \/ \E e \in MjaiEvents : AcceptedBy(x) = <<e>> /\ ~IsMove(e)
  BY AcceptedOne, MoveTypes
<1>6. Reveal(ShownAtTake(x)) = << >>
      \/ \E e \in MjaiEvents : Reveal(ShownAtTake(x)) = <<e>> /\ ~IsMove(e)
  BY NumOne, RevealAnnounced DEF ShownAtTake
<1>7. LegalMoves(ev0)
  BY DEF InOrder
<1>8. TakeOf(x).type = "daiminkan" => DrawsNext(x.takes[a], x.takeIdx[a] + 1)
  BY <1>3, DaiminkanDraws
<1> HIDE DEF y, t, a, ev0, ev1, ev2, g
<1>9. /\ ev1 \in Seq(MjaiEvents) /\ LegalMoves(ev1) /\ (NoMove(ev0) => NoMove(ev1))
      /\ \A i : LastMove(ev0, i) => LastMove(ev1, i) /\ ev1[i] = ev0[i]
  BY <1>2, <1>5, <1>7, Announced DEF ev1
<1>10. /\ ev2 \in Seq(MjaiEvents) /\ LegalMoves(ev2) /\ (NoMove(ev1) => NoMove(ev2))
       /\ \A i : LastMove(ev1, i) => LastMove(ev2, i) /\ ev2[i] = ev1[i]
  BY <1>6, <1>9, Announced DEF ev2
<1>11. ASSUME NEW m, m \in MoveEvents, Answers(x, m) PROVE MayFollow(m, t)
  <2>1. m.actor \in Seats /\ m.actor # Nobody
    BY <1>11, MoveTypes, NobodyAssumption
  <2>2. IsNaki(t) => t.type # "tsumo" /\ t.pai = x.lastDiscard /\ x.lastActor # t.actor
                     /\ (x.lastActor # Nobody => x.lastActor = t.target)
    BY <1>3 DEF Unexpected, IsNaki, Nakis
  <2>3. t.actor = a /\ (t.type = "tsumo" => ~IsNaki(t))
    BY <1>4 DEF IsTake, IsNaki, Nakis
  <2>4. CASE m.type = "dahai" /\ m.actor = x.lastActor /\ m.pai = x.lastDiscard
             /\ (MoreTakes(x, x.actor) /\ ~IsNaki(TakeOf(x)) => x.actor = Shimocha(m.actor))
    BY <1>3, <2>1, <2>2, <2>3, <2>4 DEF MayFollow, t, a
  <2>5. CASE m.type \in Kans /\ m.actor = x.actor
             /\ (MoreTakes(x, x.actor) => TakeOf(x).type = "tsumo")
    BY <1>3, <2>3, <2>5 DEF MayFollow, t, a
  <2> QED
    BY <1>11, <2>4, <2>5 DEF Answers
<1>12. \A i \in DOMAIN ev2 : LastMove(ev2, i) => MayFollow(ev2[i], t)
  <2>1. CASE NoMove(ev0)
    BY <1>9, <1>10, <2>1 DEF NoMove, LastMove
  <2>2. CASE \E i \in DOMAIN ev0 : LastMove(ev0, i) /\ Answers(x, ev0[i])
    <3>1. PICK i \in DOMAIN ev0 : LastMove(ev0, i) /\ Answers(x, ev0[i])
      BY <2>2
    <3>2. LastMove(ev2, i) /\ ev2[i] = ev0[i]
      BY <1>9, <1>10, <3>1
    <3>3. ev0[i] \in MoveEvents
      <4>1. ev0[i] \in MjaiEvents /\ IsMove(ev0[i])
        BY <1>2, <3>1, ElementOfSeq DEF LastMove
      <4> QED
        BY <4>1, MoveTypes
    <3>4. MayFollow(ev0[i], t)
      BY <1>11, <3>1, <3>3
    <3> QED
      BY <1>10, <3>2, <3>4, LastMoveUnique
  <2> QED
    BY <2>1, <2>2 DEF InOrder, NoMove, ev0
<1>13. LegalMoves(g) /\ LastMove(g, Len(ev2) + 1) /\ g[Len(ev2) + 1] = t
  BY <1>4, <1>10, <1>12, NextMove DEF g
<1>14. CASE t.type = "daiminkan"
  <2>1. y.takeIdx[a] = x.takeIdx[a] + 1
    BY <1>1, <1>2
  <2>2. MoreTakes(y, y.actor) => TakeOf(y).type = "tsumo"
    BY <1>1, <1>8, <1>14, <2>1 DEF MoreTakes, TakeOf, NextTake, DrawsNext, t
  <2>3. Answers(y, t)
    BY <1>1, <1>4, <1>14, <2>2 DEF Answers, Kans, IsTake
  <2>4. Len(ev2) + 1 \in DOMAIN g
    BY <1>13 DEF LastMove
  <2>5. InOrder(y, "take")
    BY <1>1, <1>13, <2>3, <2>4 DEF InOrder
  <2> QED
    BY <1>14, <2>5 DEF PhaseAfterTake, y, t
<1>15. CASE t.type # "daiminkan"
  <2>1. PhaseAfterTake(x) \in {"discard", "done"}
    BY <1>15 DEF PhaseAfterTake, t
  <2> QED
    BY <1>1, <1>13, <2>1 DEF InOrder, y
<1> QED
  BY <1>14, <1>15

LEMMA ThrownOrder ==
  ASSUME NEW x \in Attempts, AllAligned(x), WithinLists(x), InPlace(x, "discard"),
         InOrder(x, "discard")
  PROVE  InOrder(Thrown(x), PhaseAfterDiscard(x))
<1> DEFINE y == Thrown(x)
           e == DiscardOf(x)
           a == x.actor
           k == x.takeIdx[a]
           group == Group(x)
           ev0 == x.events
           ev1 == ev0 \o Reveal(ShownBefore(x))
           ev2 == ev1 \o group
           g == ev2 \o Reveal(ShownAfter(x))
           last == Last(group)
<1>1. /\ y.takes = x.takes /\ y.actor = a /\ y.events = g /\ y.takeIdx = x.takeIdx
      /\ y.lastDiscard = IF last.type = "dahai" THEN last.pai ELSE x.lastDiscard
  BY ThrownFields
<1>2. ev0 \in Seq(MjaiEvents) /\ LegalMoves(ev0)
  BY DEF Attempts, InOrder
<1>3. /\ e \in MoveEvents
      /\ \/ e.type = "dahai" /\ group = <<e>> /\ IsDahai(e, a)
         \/ e.type = "reach" /\ \E f \in MoveEvents : group = <<e, f>> /\ IsDahai(f, a)
         \/ IsKanOf(e, a) /\ group = <<e>> /\ DrawsNext(x.takes[a], k)
  BY GroupKinds
<1>4. /\ Reveal(ShownBefore(x)) = << >>
         \/ \E f \in MjaiEvents : Reveal(ShownBefore(x)) = <<f>> /\ ~IsMove(f)
      /\ Reveal(ShownAfter(x)) = << >>
         \/ \E f \in MjaiEvents : Reveal(ShownAfter(x)) = <<f>> /\ ~IsMove(f)
  BY NumOne, RevealAnnounced DEF ShownBefore, ShownAfter
<1> HIDE DEF y, e, a, k, group, ev0, ev1, ev2, g, last
<1>5. ev1 \in Seq(MjaiEvents) /\ LegalMoves(ev1)
  BY <1>2, <1>4, Announced DEF ev1
<1>6. ASSUME NEW ev \in Seq(MjaiEvents), LegalMoves(ev), NEW f \in MoveEvents,
             ~IsNaki(f), f.type # "tsumo"
      PROVE  /\ ev \o <<f>> \in Seq(MjaiEvents) /\ LegalMoves(ev \o <<f>>)
             /\ LastMove(ev \o <<f>>, Len(ev) + 1) /\ (ev \o <<f>>)[Len(ev) + 1] = f
  <2>1. f \in MjaiEvents /\ IsMove(f) /\ \A m : MayFollow(m, f)
    BY <1>6, MoveTypes DEF MayFollow
  <2> QED
    BY <1>6, <2>1, NextMove
<1> DEFINE Put == /\ last \in MoveEvents
                  /\ \/ IsDahai(last, a) /\ e.type \in {"dahai", "reach"}
                     \/ /\ IsKanOf(last, a) /\ e.type \in {"ankan", "kakan"}
                        /\ DrawsNext(x.takes[a], k)
                  /\ ev2 \in Seq(MjaiEvents) /\ LegalMoves(ev2)
                  /\ \E i : LastMove(ev2, i) /\ ev2[i] = last
<1>7. Put
  <2>1. ASSUME group = <<e>>, ~IsNaki(e), e.type # "tsumo",
               \/ IsDahai(e, a) /\ e.type = "dahai"
               \/ IsKanOf(e, a) /\ DrawsNext(x.takes[a], k)
        PROVE  Put
    <3>1. last = e
      BY <2>1 DEF last, Last
    <3>2. ev2 = ev1 \o <<e>>
      BY <2>1 DEF ev2
    <3> QED
      BY <1>3, <1>5, <1>6, <2>1, <3>1, <3>2 DEF IsKanOf
  <2>2. CASE e.type = "dahai" /\ group = <<e>> /\ IsDahai(e, a)
    BY <2>1, <2>2 DEF IsNaki, Nakis
  <2>3. CASE IsKanOf(e, a) /\ group = <<e>> /\ DrawsNext(x.takes[a], k)
    BY <2>1, <2>3 DEF IsNaki, Nakis, IsKanOf
  <2>4. CASE e.type = "reach" /\ \E f \in MoveEvents : group = <<e, f>> /\ IsDahai(f, a)
    <3>1. PICK f \in MoveEvents : group = <<e, f>> /\ IsDahai(f, a)
      BY <2>4
    <3>2. last = f
      BY <3>1 DEF last, Last
    <3> DEFINE h == ev1 \o <<e>>
    <3>3. ~IsNaki(e) /\ e.type # "tsumo" /\ ~IsNaki(f) /\ f.type # "tsumo"
      BY <2>4, <3>1 DEF IsNaki, Nakis, IsDahai
    <3>4. h \in Seq(MjaiEvents) /\ LegalMoves(h)
      BY <1>3, <1>5, <1>6, <3>3
    <3>5. ev2 = h \o <<f>>
      <4>1. e \in MjaiEvents /\ f \in MjaiEvents
        BY <1>3, MoveTypes
      <4> QED
        BY <1>5, <3>1, <4>1, TwoMore DEF ev2
    <3> HIDE DEF h
    <3> QED
      BY <1>6, <2>4, <3>1, <3>2, <3>3, <3>4, <3>5
  <2> QED
    BY <1>3, <2>2, <2>3, <2>4
<1>8. /\ g \in Seq(MjaiEvents) /\ LegalMoves(g)
      /\ \E i \in DOMAIN g : LastMove(g, i) /\ g[i] = last
  <2>1. /\ g \in Seq(MjaiEvents) /\ LegalMoves(g)
        /\ \A i : LastMove(ev2, i) => LastMove(g, i) /\ g[i] = ev2[i]
    BY <1>4, <1>7, Announced DEF g
  <2>2. PICK i : LastMove(ev2, i) /\ ev2[i] = last
    BY <1>7
  <2>3. i \in DOMAIN g
    BY <2>1, <2>2 DEF LastMove
  <2> QED
    BY <2>1, <2>2, <2>3
<1>9. CASE IsDahai(last, a) /\ e.type \in {"dahai", "reach"}
  <2>1. last.type = "dahai" /\ last.actor = a /\ y.lastDiscard = last.pai
    BY <1>1, <1>9 DEF IsDahai
  <2>2. InOrder(y, "next") /\ InOrder(y, "done")
    BY <1>1, <1>8, <2>1 DEF InOrder
  <2> QED
    BY <1>9, <2>2 DEF PhaseAfterDiscard, e, y
<1>10. CASE IsKanOf(last, a) /\ e.type \in {"ankan", "kakan"} /\ DrawsNext(x.takes[a], k)
  <2>1. MoreTakes(y, y.actor) => TakeOf(y).type = "tsumo"
    BY <1>1, <1>10 DEF MoreTakes, TakeOf, NextTake, DrawsNext, k
  <2>2. Answers(y, last)
    BY <1>1, <1>10, <2>1 DEF Answers, Kans, IsKanOf
  <2>3. InOrder(y, "take") /\ InOrder(y, "done")
    BY <1>1, <1>8, <2>2 DEF InOrder
  <2> QED
    BY <1>10, <2>3 DEF PhaseAfterDiscard, e, y
<1> QED
  BY <1>7, <1>9, <1>10

LEMMA PassToOrder ==
  ASSUME NEW x \in Attempts, InOrder(x, "next"), NEW a \in Seats,
         a = Shimocha(x.actor) \/ a \in Candidates(x)
  PROVE  InOrder(PassTo(x, a), "take")
<1> DEFINE y == PassTo(x, a)
<1>1. /\ y.takes = x.takes /\ y.actor = a /\ y.events = x.events /\ y.takeIdx = x.takeIdx
      /\ y.lastDiscard = x.lastDiscard /\ y.lastActor = x.actor
  BY PassToFields
<1> HIDE DEF y
<1>2. PICK i \in DOMAIN x.events :
        /\ LastMove(x.events, i) /\ x.events[i].type = "dahai"
        /\ x.events[i].actor = x.actor /\ x.events[i].pai = x.lastDiscard
  BY DEF InOrder
<1>3. ~IsNaki(TakeOf(y)) => a = Shimocha(x.actor)
  BY <1>1 DEF Candidates, TakeOf, NextTake
<1>4. Answers(y, x.events[i])
  BY <1>1, <1>2, <1>3 DEF Answers
<1>5. InOrder(y, "take")
  BY <1>1, <1>2, <1>4 DEF InOrder
<1> QED
  BY <1>5 DEF y

-----------------------------------------------------------------------------
(***************************************************************************)
(* The indicators and the kans among the first events.                     *)
(***************************************************************************)

LEMMA UntilFinite ==
  ASSUME NEW ev, NEW types, NEW n \in Nat
  PROVE  /\ IsFiniteSet({i \in 1..n : ev[i].type \in types}) /\ Until(ev, types, n) \in Nat
         /\ \A m \in 0..n : Until(ev, types, m) <= Until(ev, types, n)
<1> DEFINE upTo(m) == {i \in 1..m : ev[i].type \in types}
<1>1. IsFiniteSet(1..n)
  BY FS_Interval, 1 \in Int
<1>2. upTo(n) \subseteq 1..n
  OBVIOUS
<1>3. IsFiniteSet(upTo(n))
  BY <1>1, <1>2, FS_Subset
<1>4. Cardinality(upTo(n)) \in Nat
  BY <1>3, FS_CardinalityType
<1>5. ASSUME NEW m \in 0..n PROVE Cardinality(upTo(m)) <= Cardinality(upTo(n))
  <2>1. upTo(m) \subseteq upTo(n)
    OBVIOUS
  <2> QED
    BY <1>3, <2>1, FS_Subset
<1> QED
  BY <1>3, <1>4, <1>5 DEF Until

LEMMA UntilMore ==
  ASSUME NEW ev \in Seq(MjaiEvents), NEW e \in MjaiEvents, NEW types
  PROVE  LET g == ev \o <<e>>
         IN /\ \A n \in 0..Len(ev) : Until(g, types, n) = Until(ev, types, n)
            /\ Until(g, types, Len(ev) + 1) =
                 Until(ev, types, Len(ev)) + (IF e.type \in types THEN 1 ELSE 0)
<1> DEFINE g == ev \o <<e>>
           N == Len(ev)
<1>1. /\ N \in Nat /\ g[N + 1] = e /\ \A i \in 1..N : g[i] = ev[i]
  BY OneMore
<1> HIDE DEF g, N
<1>2. ASSUME NEW n \in 0..N PROVE Until(g, types, n) = Until(ev, types, n)
  <2>1. \A i \in 1..n : g[i] = ev[i]
    BY <1>1
  <2>2. {i \in 1..n : g[i].type \in types} = {i \in 1..n : ev[i].type \in types}
    BY <2>1
  <2> QED
    BY <2>2 DEF Until
<1>3. Until(g, types, N + 1) = Until(ev, types, N) + (IF e.type \in types THEN 1 ELSE 0)
  <2> DEFINE A == {i \in 1..N : ev[i].type \in types}
             B == {i \in 1..(N + 1) : g[i].type \in types}
  <2>1. IsFiniteSet(A) /\ Cardinality(A) \in Nat
    BY <1>1, UntilFinite DEF Until
  <2>2. N + 1 \notin A
    BY <1>1
  <2>3. CASE e.type \in types
    <3>1. B = A \cup {N + 1}
      BY <1>1, <2>3
    <3> HIDE DEF A, B
    <3>2. Cardinality(B) = Cardinality(A) + 1
      BY <2>1, <2>2, <3>1, FS_AddElement
    <3> QED
      BY <2>3, <3>2 DEF Until, A, B
  <2>4. CASE e.type \notin types
    <3>1. B = A
      BY <1>1, <2>4
    <3> HIDE DEF A, B
    <3>2. Cardinality(B) = Cardinality(A) + 0
      BY <2>1, <3>1
    <3> QED
      BY <2>4, <3>2 DEF Until, A, B
  <2> QED
    BY <2>3, <2>4
<1> QED
  BY <1>2, <1>3 DEF g, N

\* DoraOnTime, where the indicator of a closed kan may still be to come.
OnTime(ev) ==
  \A i \in DOMAIN ev :
    /\ ev[i].type = "dahai" => Until(ev, {"dora"}, i) = Until(ev, Kans, i)
    /\ ev[i].type = "ankan" /\ i < Len(ev) => Until(ev, {"dora"}, i + 1) = Until(ev, Kans, i)
    /\ IsOpenKan(ev[i]) =>
         \A j \in DOMAIN ev : (\A k \in i..j : ev[k].type # "tsumo") =>
           Until(ev, {"dora"}, j) <= Until(ev, Kans, i) - 1

LEMMA OnTimeIs ==
  ASSUME NEW ev
  PROVE  AnkanShown(ev) => (OnTime(ev) <=> DoraOnTime(ev))
  BY DEF AnkanShown, OnTime, DoraOnTime, IsOpenKan

\* What one event more does to the counts, and which kans a draw follows.
LEMMA CountsMore ==
  ASSUME NEW ev \in Seq(MjaiEvents), NEW e \in MjaiEvents
  PROVE  LET g == ev \o <<e>>
         IN /\ Shown(ev) \in Nat /\ KansIn(ev) \in Nat
            /\ Shown(g) = Shown(ev) + (IF e.type = "dora" THEN 1 ELSE 0)
            /\ KansIn(g) = KansIn(ev) + (IF e.type \in Kans THEN 1 ELSE 0)
            /\ \A i \in DOMAIN ev : Drawn(ev, i) => Drawn(g, i)
            /\ e.type = "tsumo" => AllDrawn(g)
            /\ AllDrawn(ev) /\ ~IsOpenKan(e) => AllDrawn(g)
            /\ AllDrawn(ev) => LastUndrawn(g)
            /\ LastUndrawn(ev) /\ e.type \notin Kans => LastUndrawn(g)
<1> DEFINE g == ev \o <<e>>
           N == Len(ev)
<1>1. /\ g \in Seq(MjaiEvents) /\ N \in Nat /\ Len(g) = N + 1 /\ g[N + 1] = e
      /\ \A i \in 1..N : g[i] = ev[i]
      /\ DOMAIN ev = 1..N /\ DOMAIN g = 1..(N + 1)
  BY OneMore
<1>2. Shown(ev) \in Nat /\ KansIn(ev) \in Nat
  BY <1>1, UntilFinite DEF Shown, KansIn
<1>3. /\ Until(g, {"dora"}, N + 1) = Until(ev, {"dora"}, N) + (IF e.type \in {"dora"} THEN 1 ELSE 0)
      /\ Until(g, Kans, N + 1) = Until(ev, Kans, N) + (IF e.type \in Kans THEN 1 ELSE 0)
  BY UntilMore
<1>4. \A n \in 0..N : Until(g, Kans, n) = Until(ev, Kans, n)
  BY SMTT(30), UntilMore
<1> HIDE DEF g, N
<1>5. /\ Shown(g) = Shown(ev) + (IF e.type = "dora" THEN 1 ELSE 0)
      /\ KansIn(g) = KansIn(ev) + (IF e.type \in Kans THEN 1 ELSE 0)
  BY <1>1, <1>3 DEF Shown, KansIn, N
<1>6. \A i \in DOMAIN ev : Drawn(ev, i) => Drawn(g, i)
  BY <1>1 DEF Drawn
<1>7. e.type = "tsumo" => AllDrawn(g)
  BY <1>1 DEF AllDrawn, Drawn, IsOpenKan
<1>8. AllDrawn(ev) /\ ~IsOpenKan(e) => AllDrawn(g)
  BY <1>1, <1>6 DEF AllDrawn
<1>9. AllDrawn(ev) => LastUndrawn(g)
  <2> SUFFICES ASSUME AllDrawn(ev), NEW i \in DOMAIN g, IsOpenKan(g[i])
               PROVE  Drawn(g, i) \/ Until(g, Kans, i) = KansIn(g)
    BY DEF LastUndrawn
  <2>1. CASE i \in DOMAIN ev
    BY <1>1, <1>6, <2>1 DEF AllDrawn
  <2>2. CASE i = N + 1
    BY <1>1, <2>2 DEF KansIn
  <2> QED
    BY <1>1, <2>1, <2>2
<1>10. LastUndrawn(ev) /\ e.type \notin Kans => LastUndrawn(g)
  <2> SUFFICES ASSUME LastUndrawn(ev), e.type \notin Kans, NEW i \in DOMAIN g, IsOpenKan(g[i])
               PROVE  Drawn(g, i) \/ Until(g, Kans, i) = KansIn(g)
    BY DEF LastUndrawn
  <2>1. i \in DOMAIN ev
    BY <1>1 DEF IsOpenKan, Kans
  <2>2. KansIn(g) = KansIn(ev) /\ Until(g, Kans, i) = Until(ev, Kans, i)
    BY <1>1, <1>2, <1>5, <1>4, <2>1
  <2> QED
    BY <1>1, <1>6, <2>1, <2>2 DEF LastUndrawn
<1> QED
  BY <1>2, <1>5, <1>6, <1>7, <1>8, <1>9, <1>10 DEF g

\* The next event is on time.
LEMMA OnTimeMore ==
  ASSUME NEW ev \in Seq(MjaiEvents), NEW e \in MjaiEvents, OnTime(ev),
         e.type = "dahai" => Shown(ev) = KansIn(ev),
         IsOpenKan(e) => Shown(ev) <= KansIn(ev),
         e.type = "dora" =>
           \A i \in DOMAIN ev : IsOpenKan(ev[i]) =>
             Drawn(ev, i) \/ Shown(ev) + 1 <= Until(ev, Kans, i) - 1,
         \A i \in DOMAIN ev : ev[i].type = "ankan" =>
           i < Len(ev) \/ (e.type = "dora" /\ Shown(ev) + 1 = Until(ev, Kans, i))
  PROVE  LET g == ev \o <<e>>
         IN OnTime(g) /\ (e.type # "ankan" => AnkanShown(g))
<1> DEFINE g == ev \o <<e>>
           N == Len(ev)
           shown(n) == Until(ev, {"dora"}, n)
           kans(n) == Until(ev, Kans, n)
<1>1. /\ g \in Seq(MjaiEvents) /\ N \in Nat /\ Len(g) = N + 1 /\ g[N + 1] = e
      /\ \A i \in 1..N : g[i] = ev[i]
      /\ DOMAIN ev = 1..N /\ DOMAIN g = 1..(N + 1)
  BY OneMore
<1>2. /\ \A n \in 0..N : Until(g, {"dora"}, n) = shown(n) /\ Until(g, Kans, n) = kans(n)
      /\ Until(g, {"dora"}, N + 1) = shown(N) + (IF e.type = "dora" THEN 1 ELSE 0)
      /\ Until(g, Kans, N + 1) = kans(N) + (IF e.type \in Kans THEN 1 ELSE 0)
  <2> HIDE DEF N, shown, kans
  <2>1. /\ \A n \in 0..N : Until(g, {"dora"}, n) = shown(n)
        /\ Until(g, {"dora"}, N + 1) = shown(N) + (IF e.type \in {"dora"} THEN 1 ELSE 0)
    BY UntilMore DEF N, shown
  <2>2. /\ \A n \in 0..N : Until(g, Kans, n) = kans(n)
        /\ Until(g, Kans, N + 1) = kans(N) + (IF e.type \in Kans THEN 1 ELSE 0)
    BY UntilMore DEF N, kans
  <2>3. e.type \in {"dora"} <=> e.type = "dora"
    OBVIOUS
  <2> HIDE DEF g
  <2> QED
    BY <2>1, <2>2, <2>3
<1>3. \A n \in 0..N : shown(n) \in Nat /\ kans(n) \in Nat /\ shown(n) <= shown(N)
  <2>1. \A n \in 0..N : n \in Nat
    BY <1>1
  <2> QED
    BY <1>1, <2>1, UntilFinite
<1>4. Shown(ev) = shown(N) /\ KansIn(ev) = kans(N)
  BY DEF Shown, KansIn
<1> HIDE DEF g, N, shown, kans
<1>5. ASSUME NEW i \in 1..N
      PROVE  /\ g[i].type = "dahai" => shown(i) = kans(i)
             /\ g[i].type = "ankan" => Until(g, {"dora"}, i + 1) = kans(i)
             /\ IsOpenKan(g[i]) =>
                  \A j \in 1..(N + 1) : (\A k \in i..j : g[k].type # "tsumo") =>
                    Until(g, {"dora"}, j) <= kans(i) - 1
  <2>1. /\ ev[i].type = "dahai" => shown(i) = kans(i)
        /\ ev[i].type = "ankan" /\ i < N => shown(i + 1) = kans(i)
        /\ IsOpenKan(ev[i]) =>
             \A j \in 1..N : (\A k \in i..j : ev[k].type # "tsumo") => shown(j) <= kans(i) - 1
    BY <1>1 DEF OnTime, shown, kans, N
  <2>2. g[i] = ev[i]
    BY <1>1
  <2>3. g[i].type = "ankan" => Until(g, {"dora"}, i + 1) = kans(i)
    <3>1. SUFFICES ASSUME ev[i].type = "ankan" PROVE Until(g, {"dora"}, i + 1) = kans(i)
      BY <2>2
    <3>2. CASE i < N
      <4>1. i + 1 \in 0..N
        BY <1>1, <3>2
      <4> QED
        BY <1>2, <2>1, <3>1, <3>2, <4>1
    <3>3. CASE ~(i < N)
      <4>1. i = N
        BY <1>1, <3>3
      <4>2. e.type = "dora" /\ shown(N) + 1 = kans(i)
        BY <1>1, <1>4, <3>1, <3>3 DEF N, kans
      <4> QED
        BY <1>2, <4>1, <4>2
    <3> QED
      BY <3>2, <3>3
  <2>4. ASSUME IsOpenKan(g[i]), NEW j \in 1..(N + 1), \A k \in i..j : g[k].type # "tsumo"
        PROVE  Until(g, {"dora"}, j) <= kans(i) - 1
    <3>1. CASE j \in 1..N
      <4>1. \A k \in i..j : ev[k].type # "tsumo"
        BY <1>1, <2>4, <3>1
      <4>2. shown(j) <= kans(i) - 1
        BY <2>1, <2>2, <2>4, <3>1, <4>1
      <4>3. Until(g, {"dora"}, j) = shown(j)
        BY <1>2, <3>1
      <4> QED
        BY <4>2, <4>3
    <3>2. CASE j \notin 1..N
      <4>1. j = N + 1
        BY <1>1, <3>2
      <4>2. \A k \in i..N : ev[k].type # "tsumo"
        BY <1>1, <2>4, <4>1
      <4>3. shown(N) <= kans(i) - 1
        BY <1>1, <2>1, <2>2, <2>4, <4>2
      <4>4. ~Drawn(ev, i)
        BY <1>1, <4>2 DEF Drawn
      <4>5. e.type = "dora" => shown(N) + 1 <= kans(i) - 1
        BY <1>1, <1>4, <2>2, <2>4, <4>4 DEF kans
      <4>6. shown(N) \in Nat /\ kans(i) \in Nat
        BY <1>1, <1>3
      <4>7. CASE e.type = "dora"
        BY <1>2, <4>1, <4>5, <4>6, <4>7
      <4>8. CASE e.type # "dora"
        <5>1. Until(g, {"dora"}, j) = shown(N) + 0
          BY <1>2, <4>1, <4>8
        <5> QED
          BY <4>3, <4>6, <5>1
      <4> QED
        BY <4>7, <4>8
    <3> QED
      BY <3>1, <3>2
  <2> QED
    BY <2>1, <2>2, <2>3, <2>4
<1>6. e.type = "dahai" => Until(g, {"dora"}, N + 1) = Until(g, Kans, N + 1)
  BY <1>2, <1>3, <1>4 DEF Kans
<1>7. ASSUME IsOpenKan(e), NEW j \in 1..(N + 1)
      PROVE  Until(g, {"dora"}, j) <= Until(g, Kans, N + 1) - 1
  <2>1. e.type \in Kans /\ e.type # "dora" /\ shown(N) <= kans(N)
    BY <1>4, <1>7 DEF IsOpenKan, Kans
  <2>2. N \in 0..N
    BY <1>1
  <2>3. Until(g, {"dora"}, j) <= shown(N)
    <3>1. CASE j \in 0..N
      BY <1>2, <1>3, <3>1
    <3>2. CASE j = N + 1
      BY <1>2, <1>3, <2>1, <2>2, <3>2
    <3> QED
      BY <1>1, <3>1, <3>2
  <2>4. Until(g, {"dora"}, j) \in Nat
    <3>1. j \in Nat
      BY <1>1
    <3> QED
      BY <3>1, UntilFinite
  <2> QED
    BY <1>2, <1>3, <2>1, <2>2, <2>3, <2>4
<1>8. OnTime(g)
  <2> SUFFICES ASSUME NEW i \in 1..(N + 1)
               PROVE  /\ g[i].type = "dahai" => Until(g, {"dora"}, i) = Until(g, Kans, i)
                      /\ g[i].type = "ankan" /\ i < N + 1 =>
                           Until(g, {"dora"}, i + 1) = Until(g, Kans, i)
                      /\ IsOpenKan(g[i]) =>
                           \A j \in 1..(N + 1) : (\A k \in i..j : g[k].type # "tsumo") =>
                             Until(g, {"dora"}, j) <= Until(g, Kans, i) - 1
    BY <1>1 DEF OnTime
  <2>1. CASE i \in 1..N
    <3>1. Until(g, {"dora"}, i) = shown(i) /\ Until(g, Kans, i) = kans(i)
      BY <1>2, <2>1
    <3> QED
      BY <1>5, <2>1, <3>1
  <2>2. CASE i \notin 1..N
    <3>1. i = N + 1 /\ g[i] = e
      BY <1>1, <2>2
    <3> QED
      BY <1>1, <1>6, <1>7, <3>1
  <2> QED
    BY <2>1, <2>2
<1>9. e.type # "ankan" => AnkanShown(g)
  BY <1>1 DEF AnkanShown
<1> QED
  BY <1>8, <1>9 DEF g

\* An event that neither is a kan, an indicator or a discard changes nothing.
LEMMA QuietEvent ==
  ASSUME NEW ev \in Seq(MjaiEvents), NEW e \in MjaiEvents, OnTime(ev), AnkanShown(ev),
         e.type \notin Kans, e.type \notin {"dora", "dahai"}
  PROVE  LET g == ev \o <<e>>
         IN /\ g \in Seq(MjaiEvents) /\ OnTime(g) /\ AnkanShown(g)
            /\ Shown(g) = Shown(ev) /\ KansIn(g) = KansIn(ev)
            /\ e.type = "tsumo" => AllDrawn(g)
            /\ AllDrawn(ev) => AllDrawn(g)
            /\ LastUndrawn(ev) => LastUndrawn(g)
<1> DEFINE g == ev \o <<e>>
<1>1. e.type # "ankan" /\ ~IsOpenKan(e)
  BY DEF IsOpenKan, Kans
<1>2. OnTime(g) /\ AnkanShown(g)
  BY <1>1, OnTimeMore DEF AnkanShown
<1>3. /\ Shown(ev) \in Nat /\ KansIn(ev) \in Nat
      /\ Shown(g) = Shown(ev) + (IF e.type = "dora" THEN 1 ELSE 0)
      /\ KansIn(g) = KansIn(ev) + (IF e.type \in Kans THEN 1 ELSE 0)
      /\ e.type = "tsumo" => AllDrawn(g)
      /\ AllDrawn(ev) /\ ~IsOpenKan(e) => AllDrawn(g)
      /\ LastUndrawn(ev) /\ e.type \notin Kans => LastUndrawn(g)
  BY CountsMore
<1>4. g \in Seq(MjaiEvents)
  BY OneMore
<1> HIDE DEF g
<1>5. Shown(g) = Shown(ev) + 0 /\ KansIn(g) = KansIn(ev) + 0
  BY <1>3
<1> QED
  BY <1>1, <1>2, <1>3, <1>4, <1>5 DEF g

\* An indicator is shown that is due: at a draw it is not that of the last open kan.
LEMMA DueDora ==
  ASSUME NEW ev \in Seq(MjaiEvents), OnTime(ev), Shown(ev) + 1 <= KansIn(ev),
         AnkanShown(ev) \/ Shown(ev) + 1 = KansIn(ev),
         AllDrawn(ev) \/ (LastUndrawn(ev) /\ Shown(ev) + 2 <= KansIn(ev))
  PROVE  LET g == ev \o <<Dora>>
         IN /\ g \in Seq(MjaiEvents) /\ OnTime(g) /\ AnkanShown(g)
            /\ Shown(g) = Shown(ev) + 1 /\ KansIn(g) = KansIn(ev)
            /\ AllDrawn(ev) => AllDrawn(g)
<1> DEFINE g == ev \o <<Dora>>
<1>1. Dora \in MjaiEvents /\ Dora.type = "dora" /\ Dora.type \notin Kans /\ ~IsOpenKan(Dora)
  BY DoraEvent DEF IsOpenKan, Kans
<1>2. /\ Shown(ev) \in Nat /\ KansIn(ev) \in Nat
      /\ Shown(g) = Shown(ev) + (IF Dora.type = "dora" THEN 1 ELSE 0)
      /\ KansIn(g) = KansIn(ev) + (IF Dora.type \in Kans THEN 1 ELSE 0)
      /\ AllDrawn(ev) /\ ~IsOpenKan(Dora) => AllDrawn(g)
  BY <1>1, CountsMore
<1>3. DOMAIN ev = 1..Len(ev) /\ Len(ev) \in Nat
  OBVIOUS
<1>4. ASSUME NEW i \in DOMAIN ev, IsOpenKan(ev[i])
      PROVE  Drawn(ev, i) \/ Shown(ev) + 1 <= Until(ev, Kans, i) - 1
  <2>1. CASE AllDrawn(ev)
    BY <1>4, <2>1 DEF AllDrawn
  <2>2. CASE LastUndrawn(ev) /\ Shown(ev) + 2 <= KansIn(ev)
    BY <1>2, <1>4, <2>2 DEF LastUndrawn
  <2> QED
    BY <2>1, <2>2
<1>5. ASSUME NEW i \in DOMAIN ev, ev[i].type = "ankan"
      PROVE  i < Len(ev) \/ Shown(ev) + 1 = Until(ev, Kans, i)
  <2>1. CASE AnkanShown(ev)
    BY <1>5, <2>1 DEF AnkanShown
  <2>2. CASE Shown(ev) + 1 = KansIn(ev)
    <3>1. i < Len(ev) \/ i = Len(ev)
      BY <1>3
    <3> QED
      BY <2>2, <3>1 DEF KansIn
  <2> QED
    BY <2>1, <2>2
<1> HIDE DEF g
<1>6. OnTime(g) /\ AnkanShown(g)
  <2>1. OnTime(ev \o <<Dora>>) /\ (Dora.type # "ankan" => AnkanShown(ev \o <<Dora>>))
    BY <1>1, <1>4, <1>5, OnTimeMore
  <2> QED
    BY <1>1, <2>1 DEF g
<1>7. g \in Seq(MjaiEvents)
  BY <1>1, OneMore DEF g
<1>8. Shown(g) = Shown(ev) + 1 /\ KansIn(g) = KansIn(ev) + 0
  BY <1>1, <1>2
<1> QED
  BY <1>1, <1>2, <1>6, <1>7, <1>8 DEF g

\* A discard once all that is due is shown.
LEMMA DahaiEvent ==
  ASSUME NEW ev \in Seq(MjaiEvents), NEW e \in MjaiEvents, OnTime(ev), AnkanShown(ev),
         Shown(ev) = KansIn(ev), AllDrawn(ev), e.type = "dahai"
  PROVE  LET g == ev \o <<e>>
         IN /\ g \in Seq(MjaiEvents) /\ OnTime(g) /\ AnkanShown(g)
            /\ Shown(g) = KansIn(g) /\ AllDrawn(g)
<1> DEFINE g == ev \o <<e>>
<1>1. ~IsOpenKan(e) /\ e.type \notin Kans /\ e.type # "dora" /\ e.type # "ankan"
  BY DEF IsOpenKan, Kans
<1>2. OnTime(g) /\ AnkanShown(g)
  BY <1>1, OnTimeMore DEF AnkanShown
<1>3. Shown(g) = KansIn(g) /\ AllDrawn(g)
  BY <1>1, CountsMore
<1>4. g \in Seq(MjaiEvents)
  BY OneMore
<1> QED
  BY <1>2, <1>3, <1>4

\* A kan, when a draw has followed every earlier one.
LEMMA KanEvent ==
  ASSUME NEW ev \in Seq(MjaiEvents), NEW e \in MjaiEvents, OnTime(ev), AnkanShown(ev),
         Shown(ev) <= KansIn(ev), AllDrawn(ev), e.type \in Kans
  PROVE  LET g == ev \o <<e>>
         IN /\ g \in Seq(MjaiEvents) /\ OnTime(g) /\ (e.type # "ankan" => AnkanShown(g))
            /\ Shown(g) = Shown(ev) /\ KansIn(g) = KansIn(ev) + 1
            /\ LastUndrawn(g) /\ (e.type = "ankan" => AllDrawn(g))
<1> DEFINE g == ev \o <<e>>
<1>1. e.type # "dora" /\ e.type # "dahai" /\ (e.type = "ankan" => ~IsOpenKan(e))
  BY DEF IsOpenKan, Kans
<1>2. OnTime(g) /\ (e.type # "ankan" => AnkanShown(g))
  BY <1>1, OnTimeMore DEF AnkanShown
<1>3. /\ Shown(ev) \in Nat /\ KansIn(ev) \in Nat
      /\ Shown(g) = Shown(ev) + (IF e.type = "dora" THEN 1 ELSE 0)
      /\ KansIn(g) = KansIn(ev) + (IF e.type \in Kans THEN 1 ELSE 0)
      /\ AllDrawn(ev) /\ ~IsOpenKan(e) => AllDrawn(g)
      /\ AllDrawn(ev) => LastUndrawn(g)
  BY CountsMore
<1>4. g \in Seq(MjaiEvents)
  BY OneMore
<1> HIDE DEF g
<1>5. Shown(g) = Shown(ev) + 0 /\ KansIn(g) = KansIn(ev) + 1
  BY <1>1, <1>3
<1> QED
  BY <1>1, <1>2, <1>3, <1>4, <1>5 DEF g

-----------------------------------------------------------------------------
(***************************************************************************)
(* The indicators are shown on time.                                       *)
(***************************************************************************)


LEMMA AcceptedDora ==
  ASSUME NEW x \in Attempts, OnTime(x.events), AnkanShown(x.events)
  PROVE  LET ev == x.events
             g == ev \o AcceptedBy(x)
         IN /\ g \in Seq(MjaiEvents) /\ OnTime(g) /\ AnkanShown(g)
            /\ Shown(g) = Shown(ev) /\ KansIn(g) = KansIn(ev)
            /\ AllDrawn(ev) => AllDrawn(g)
            /\ LastUndrawn(ev) => LastUndrawn(g)
<1> DEFINE ev == x.events
<1>1. ev \in Seq(MjaiEvents)
  BY DEF Attempts
<1>2. CASE AcceptedBy(x) = << >>
  <2>1. ev \o AcceptedBy(x) = ev
    BY <1>1, <1>2, ConcatEmptySeq
  <2> QED
    BY <1>1, <2>1
<1>3. CASE \E e \in MjaiEvents : AcceptedBy(x) = <<e>> /\ e.type = "reach_accepted"
  <2>1. PICK e \in MjaiEvents : AcceptedBy(x) = <<e>> /\ e.type = "reach_accepted"
    BY <1>3
  <2>2. e.type \notin Kans /\ e.type \notin {"dora", "dahai"}
    BY <2>1 DEF Kans
  <2> QED
    BY <1>1, <2>1, <2>2, QuietEvent
<1> QED
  BY <1>2, <1>3, AcceptedOne

LEMMA TakenDora ==
  ASSUME NEW x \in Attempts, AllAligned(x), DoraDue(x, "take"), ~TakeFails(x)
  PROVE  DoraDue(Taken(x), PhaseAfterTake(x))
<1> DEFINE y == Taken(x)
           t == TakeOf(x)
           a == x.actor
           n == x.takeIdx[a]
           s == ShownAtTake(x)
           ev0 == x.events
           ev1 == ev0 \o AcceptedBy(x)
           ev2 == ev1 \o Reveal(s)
           g == ev2 \o <<t>>
<1>1. /\ y.takes = x.takes /\ y.actor = a /\ y.events = g
      /\ y.takeIdx = [x.takeIdx EXCEPT ![a] = n + 1]
      /\ y.doraAtDiscard = (x.doraAtDiscard \/ t.type = "daiminkan")
      /\ y.doraAtTsumo = (x.doraAtTsumo /\ t.type # "tsumo")
  BY TakenFields
<1>2. a \in Seats /\ n \in Nat /\ y.takeIdx[a] = n + 1
  BY <1>1 DEF Attempts
<1>3. MoreTakes(x, a)
  BY DEF TakeFails
<1>4. t \in MoveEvents /\ IsTake(t, a) /\ t \in MjaiEvents
  BY <1>3, TakeOfOK, MoveTypes
<1>5. OnTime(ev0) /\ AnkanShown(ev0)
  BY OnTimeIs DEF DoraDue
<1>6. /\ Shown(ev0) + Num(x.doraAtDiscard) + Num(x.doraAtTsumo) = KansIn(ev0)
      /\ (x.doraAtDiscard \/ x.doraAtTsumo) => t.type = "tsumo"
      /\ IF x.doraAtDiscard THEN LastUndrawn(ev0) ELSE AllDrawn(ev0)
      /\ x.doraAtDiscard => \E j \in 1..n : IsNaki(x.takes[a][j])
  BY <1>3 DEF DoraDue
<1>7. ev1 \in Seq(MjaiEvents) /\ Shown(ev1) \in Nat /\ KansIn(ev1) \in Nat
      /\ Shown(ev0) \in Nat /\ KansIn(ev0) \in Nat
  <2>1. ev1 \in Seq(MjaiEvents) /\ ev0 \in Seq(MjaiEvents)
    BY <1>5, AcceptedDora DEF Attempts
  <2>2. \A ev \in Seq(MjaiEvents) : Shown(ev) \in Nat /\ KansIn(ev) \in Nat
    BY UntilFinite, LenProperties DEF Shown, KansIn
  <2> QED
    BY <2>1, <2>2
<1>8. /\ OnTime(ev1) /\ AnkanShown(ev1) /\ Shown(ev1) = Shown(ev0) /\ KansIn(ev1) = KansIn(ev0)
      /\ IF x.doraAtDiscard THEN LastUndrawn(ev1) ELSE AllDrawn(ev1)
  BY <1>5, <1>6, AcceptedDora
<1>9. x.doraAtDiscard \in BOOLEAN /\ x.doraAtTsumo \in BOOLEAN
  BY DEF Attempts
<1>10. s = Num(\/ t.type = "daiminkan" /\ x.doraAtDiscard
               \/ t.type = "tsumo" /\ x.doraAtTsumo)
  BY DEF ShownAtTake, DueAtTake
<1>11. t.type = "daiminkan" => DrawsNext(x.takes[a], n + 1)
  BY <1>3, DaiminkanDraws
<1>12. ASSUME DoraOnTime(y.events), AnkanShown(y.events), NEW ph \in {"discard", "done"},
              Shown(y.events) + Num(y.doraAtDiscard) + Num(y.doraAtTsumo) = KansIn(y.events),
              AllDrawn(y.events), ~y.doraAtTsumo, y.doraAtDiscard => x.doraAtDiscard
       PROVE  DoraDue(y, ph)
  <2>1. y.doraAtDiscard => \E j \in 1..(n + 1) : IsNaki(x.takes[a][j])
    <3>1. 1..n \subseteq 1..(n + 1)
      BY <1>2
    <3> QED
      BY <1>6, <1>12, <3>1
  <2> HIDE DEF y, n
  <2> QED
    BY <1>1, <1>2, <1>12, <2>1 DEF DoraDue
<1> HIDE DEF y, t, a, n, s, ev0, ev1, ev2, g
<1>13. CASE t.type = "tsumo"
  <2>1. /\ ev2 \in Seq(MjaiEvents) /\ OnTime(ev2) /\ AnkanShown(ev2)
        /\ Shown(ev2) + Num(x.doraAtDiscard) = KansIn(ev2)
    <3>1. CASE x.doraAtTsumo
      <4>1. s = 1
        BY <1>10, <1>13, <3>1 DEF Num
      <4>2. ev2 = ev1 \o <<Dora>>
        <5>1. s \in {0, 1} /\ s # 0
          BY <4>1
        <5>2. Reveal(s) = <<Dora>>
          BY <5>1, RevealOne
        <5> QED
          BY <5>2 DEF ev2
      <4>3. Shown(ev1) + Num(x.doraAtDiscard) + 1 = KansIn(ev1)
        BY <1>6, <1>8, <3>1 DEF Num
      <4>4. Num(x.doraAtDiscard) = IF x.doraAtDiscard THEN 1 ELSE 0
        BY DEF Num
      <4>5. /\ Shown(ev1) + 1 <= KansIn(ev1)
            /\ x.doraAtDiscard => Shown(ev1) + 2 <= KansIn(ev1)
        BY <1>7, <4>3, <4>4
      <4>6. AllDrawn(ev1) \/ (LastUndrawn(ev1) /\ Shown(ev1) + 2 <= KansIn(ev1))
        BY <1>8, <4>5
      <4>7. /\ ev2 \in Seq(MjaiEvents) /\ OnTime(ev2) /\ AnkanShown(ev2)
            /\ Shown(ev2) = Shown(ev1) + 1 /\ KansIn(ev2) = KansIn(ev1)
        BY <1>7, <1>8, <4>2, <4>5, <4>6, DueDora
      <4> QED
        BY <1>7, <4>3, <4>4, <4>7
    <3>2. CASE ~x.doraAtTsumo
      <4>1. s = 0
        BY <1>10, <1>13, <3>2 DEF Num
      <4>2. ev2 = ev1
        BY <1>7, <4>1, RevealOne, ConcatEmptySeq DEF ev2
      <4>3. Num(x.doraAtTsumo) = 0 /\ Num(x.doraAtDiscard) \in {0, 1}
        BY <3>2, NumOne DEF Num
      <4>4. Shown(ev1) + Num(x.doraAtDiscard) = KansIn(ev1)
        BY <1>6, <1>7, <1>8, <4>3
      <4> QED
        BY <1>7, <1>8, <4>2, <4>4
    <3> QED
      BY <3>1, <3>2
  <2>2. t.type \notin Kans /\ t.type \notin {"dora", "dahai"} /\ t.type # "daiminkan"
    BY <1>13 DEF Kans
  <2>3. /\ OnTime(g) /\ AnkanShown(g) /\ AllDrawn(g)
        /\ Shown(g) = Shown(ev2) /\ KansIn(g) = KansIn(ev2)
    BY <1>4, <1>13, <2>1, <2>2, QuietEvent DEF g
  <2>4. /\ ~y.doraAtTsumo /\ (y.doraAtDiscard <=> x.doraAtDiscard)
        /\ Num(y.doraAtTsumo) = 0 /\ Num(y.doraAtDiscard) = Num(x.doraAtDiscard)
    BY <1>1, <1>13, <2>2 DEF Num
  <2>5. Shown(g) + Num(y.doraAtDiscard) + Num(y.doraAtTsumo) = KansIn(g)
    <3>1. Shown(g) + Num(y.doraAtDiscard) = KansIn(g) /\ Shown(g) \in Nat
          /\ Num(y.doraAtDiscard) \in {0, 1}
      <4>1. Shown(ev2) \in Nat
        BY <2>1, UntilFinite, LenProperties DEF Shown
      <4> QED
        BY <2>1, <2>3, <2>4, <4>1, NumOne
    <3> QED
      BY <2>4, <3>1
  <2>6. DoraOnTime(g)
    BY <2>3, OnTimeIs
  <2>7. PhaseAfterTake(x) \in {"discard", "done"}
    BY <2>2 DEF PhaseAfterTake, t
  <2> QED
    BY <1>1, <1>12, <2>3, <2>4, <2>5, <2>6, <2>7 DEF y
<1>14. CASE t.type # "tsumo"
  <2>1. ~x.doraAtDiscard /\ ~x.doraAtTsumo
    BY <1>6, <1>14
  <2>2. s = 0
    BY <1>10, <2>1 DEF Num
  <2>3. ev2 = ev1
    BY <1>7, <2>2, RevealOne, ConcatEmptySeq DEF ev2
  <2>4. Num(x.doraAtDiscard) = 0 /\ Num(x.doraAtTsumo) = 0
    BY <2>1 DEF Num
  <2>5. Shown(ev1) = KansIn(ev1) /\ AllDrawn(ev1)
    BY <1>6, <1>7, <1>8, <2>1, <2>4
  <2>6. CASE t.type = "daiminkan"
    <3>1. t.type \in Kans /\ t.type # "ankan" /\ IsNaki(t)
      BY <2>6 DEF Kans, IsNaki, Nakis
    <3>2. Shown(ev1) <= KansIn(ev1)
      BY <1>7, <2>5
    <3>3. /\ OnTime(g) /\ AnkanShown(g) /\ LastUndrawn(g)
          /\ Shown(g) = Shown(ev1) /\ KansIn(g) = KansIn(ev1) + 1
      BY <1>4, <1>7, <1>8, <2>3, <2>5, <3>1, <3>2, KanEvent DEF g
    <3>4. y.doraAtDiscard /\ ~y.doraAtTsumo
      BY <1>1, <2>1, <2>6
    <3>5. Num(y.doraAtDiscard) = 1 /\ Num(y.doraAtTsumo) = 0
      BY <3>4 DEF Num
    <3>6. Shown(g) + Num(y.doraAtDiscard) + Num(y.doraAtTsumo) = KansIn(g)
      BY <1>7, <2>5, <3>3, <3>5
    <3>7. MoreTakes(y, y.actor) => TakeOf(y).type = "tsumo"
      BY <1>1, <1>2, <1>11, <2>6 DEF MoreTakes, TakeOf, NextTake, DrawsNext
    <3>8. \E j \in 1..(n + 1) : IsNaki(x.takes[a][j])
      <4>1. n + 1 \in 1..(n + 1)
        BY <1>2
      <4>2. t = x.takes[a][n + 1]
        BY DEF t, TakeOf, NextTake, n, a
      <4> QED
        BY <3>1, <4>1, <4>2
    <3>9. DoraOnTime(g)
      BY <3>3, OnTimeIs
    <3>10. DoraDue(y, "take")
      BY <1>1, <1>2, <3>3, <3>4, <3>6, <3>7, <3>8, <3>9 DEF DoraDue
    <3> QED
      BY <2>6, <3>10 DEF PhaseAfterTake, y, t
  <2>7. CASE t.type # "daiminkan"
    <3>1. t.type \notin Kans /\ t.type \notin {"dora", "dahai"}
      BY <1>4, <1>14, <2>7 DEF IsTake, Kans, Nakis
    <3>2. /\ OnTime(g) /\ AnkanShown(g) /\ AllDrawn(g)
          /\ Shown(g) = Shown(ev1) /\ KansIn(g) = KansIn(ev1)
      BY <1>4, <1>7, <1>8, <2>3, <2>5, <3>1, QuietEvent DEF g
    <3>3. ~y.doraAtDiscard /\ ~y.doraAtTsumo
      BY <1>1, <2>1, <2>7
    <3>4. Num(y.doraAtDiscard) = 0 /\ Num(y.doraAtTsumo) = 0
      BY <3>3 DEF Num
    <3>5. Shown(g) + Num(y.doraAtDiscard) + Num(y.doraAtTsumo) = KansIn(g)
      BY <1>7, <2>5, <3>2, <3>4
    <3>6. DoraOnTime(g)
      BY <3>2, OnTimeIs
    <3>7. PhaseAfterTake(x) \in {"discard", "done"}
      BY <2>7 DEF PhaseAfterTake, t
    <3> QED
      BY <1>1, <1>12, <3>2, <3>3, <3>5, <3>6, <3>7 DEF y
  <2> QED
    BY <2>6, <2>7
<1> QED
  BY <1>13, <1>14

LEMMA ThrownDora ==
  ASSUME NEW x \in Attempts, AllAligned(x), WithinLists(x), InPlace(x, "discard"),
         DoraDue(x, "discard")
  PROVE  DoraDue(Thrown(x), PhaseAfterDiscard(x))
<1> DEFINE y == Thrown(x)
           e == DiscardOf(x)
           a == x.actor
           k == x.takeIdx[a]
           group == Group(x)
           before == ShownBefore(x)
           after == ShownAfter(x)
           ev0 == x.events
           ev1 == ev0 \o Reveal(before)
           ev2 == ev1 \o group
           g == ev2 \o Reveal(after)
<1>1. /\ y.takes = x.takes /\ y.actor = a /\ y.events = g /\ y.takeIdx = x.takeIdx
      /\ y.doraAtTsumo = (x.doraAtTsumo \/ (x.doraAtDiscard /\ e.type = "kakan"))
      /\ y.doraAtDiscard = (\/ x.doraAtDiscard /\ ~DueAtDiscard(x, e)
                            \/ e.type = "kakan" /\ ~NoTakesLeft(x))
  BY ThrownFields
<1>2. /\ e \in MoveEvents
      /\ \/ e.type = "dahai" /\ group = <<e>> /\ IsDahai(e, a)
         \/ /\ e.type = "reach"
            /\ \E f \in MoveEvents : group = <<e, f>> /\ IsDahai(f, a)
            /\ \A j \in 1..k : x.takes[a][j].type = "tsumo"
         \/ /\ IsKanOf(e, a) /\ group = <<e>> /\ DrawsNext(x.takes[a], k)
            /\ e.type = "ankan" => k < Len(x.takes[a])
            /\ e.type = "kakan" => \E j \in 1..(k - 1) : IsNaki(x.takes[a][j])
  BY GroupKinds
<1>3. \A m \in MoveEvents : m \in MjaiEvents
  BY MoveTypes
<1>4. /\ OnTime(ev0) /\ AnkanShown(ev0) /\ AllDrawn(ev0) /\ ~x.doraAtTsumo
      /\ Shown(ev0) + Num(x.doraAtDiscard) + Num(x.doraAtTsumo) = KansIn(ev0)
      /\ x.doraAtDiscard => \E j \in 1..k : IsNaki(x.takes[a][j])
  BY OnTimeIs DEF DoraDue
<1>5. ev0 \in Seq(MjaiEvents) /\ k \in Nat /\ a \in Seats
  BY DEF Attempts
<1>6. \A ev \in Seq(MjaiEvents) : Shown(ev) \in Nat /\ KansIn(ev) \in Nat
  BY UntilFinite, LenProperties DEF Shown, KansIn
<1>7. Shown(ev0) + Num(x.doraAtDiscard) = KansIn(ev0)
  <2>1. Num(x.doraAtTsumo) = 0 /\ Num(x.doraAtDiscard) \in {0, 1}
    BY <1>4, NumOne DEF Num
  <2> QED
    BY <1>4, <1>5, <1>6, <2>1
<1>8. before = Num(x.doraAtDiscard /\ e.type \in {"dahai", "ankan"})
      /\ after = Num(e.type = "ankan" /\ ~NoTakesLeft(x))
      /\ (DueAtDiscard(x, e) <=> x.doraAtDiscard /\ e.type \in {"dahai", "ankan"})
  BY DEF ShownBefore, ShownAfter, DueAtDiscard
<1>9. PhaseAfterDiscard(x) = IF NoTakesLeft(x) THEN "done"
                             ELSE IF e.type \in {"ankan", "kakan"} THEN "take" ELSE "next"
  BY DEF PhaseAfterDiscard
<1> HIDE DEF y, e, a, k, group, before, after, ev0, ev1, ev2, g
<1>10. ASSUME before = 0 PROVE ev1 = ev0
  BY <1>5, <1>10, RevealOne, ConcatEmptySeq DEF ev1
<1>11. ASSUME after = 0, ev2 \in Seq(MjaiEvents) PROVE g = ev2
  BY <1>11, RevealOne, ConcatEmptySeq DEF g
<1>12. ASSUME e.type \in {"dahai", "ankan"}
       PROVE  /\ ev1 \in Seq(MjaiEvents) /\ OnTime(ev1) /\ AnkanShown(ev1) /\ AllDrawn(ev1)
              /\ Shown(ev1) = KansIn(ev1)
  <2>1. CASE x.doraAtDiscard
    <3>1. before \in {0, 1} /\ before # 0
      BY <1>8, <1>12, <2>1 DEF Num
    <3>2. ev1 = ev0 \o <<Dora>>
      BY <3>1, RevealOne DEF ev1
    <3>3. Shown(ev0) + 1 = KansIn(ev0) /\ Shown(ev0) + 1 <= KansIn(ev0)
      BY <1>5, <1>6, <1>7, <2>1 DEF Num
    <3> QED
      BY <1>4, <1>5, <3>2, <3>3, DueDora
  <2>2. CASE ~x.doraAtDiscard
    <3>1. before = 0 /\ Num(x.doraAtDiscard) = 0
      BY <1>8, <2>2 DEF Num
    <3>2. Shown(ev0) = KansIn(ev0)
      BY <1>5, <1>6, <1>7, <3>1
    <3> QED
      BY <1>4, <1>5, <1>10, <3>1, <3>2
  <2> QED
    BY <2>1, <2>2
<1>13. ASSUME NEW ev \in Seq(MjaiEvents), NEW f \in MoveEvents, f.type = "dahai",
              OnTime(ev), AnkanShown(ev), AllDrawn(ev), Shown(ev) = KansIn(ev),
              g = ev \o <<f>>, ~y.doraAtDiscard, ~y.doraAtTsumo
       PROVE  DoraDue(y, "next") /\ DoraDue(y, "done")
  <2>1. OnTime(g) /\ AnkanShown(g) /\ Shown(g) = KansIn(g) /\ AllDrawn(g) /\ g \in Seq(MjaiEvents)
    BY <1>3, <1>13, DahaiEvent
  <2>2. Num(y.doraAtDiscard) = 0 /\ Num(y.doraAtTsumo) = 0
    BY <1>13 DEF Num
  <2>3. Shown(g) + Num(y.doraAtDiscard) + Num(y.doraAtTsumo) = KansIn(g)
    BY <1>6, <2>1, <2>2
  <2>4. DoraOnTime(g)
    BY <2>1, OnTimeIs
  <2> QED
    BY <1>1, <1>13, <2>1, <2>3, <2>4 DEF DoraDue
<1>14. CASE e.type = "dahai" /\ group = <<e>>
  <2>1. after = 0
    BY <1>8, <1>14 DEF Num
  <2>2. ev2 = ev1 \o <<e>>
    BY <1>14 DEF ev2
  <2>3. ev2 \in Seq(MjaiEvents)
    BY <1>2, <1>3, <1>12, <1>14, <2>2, OneMore
  <2>4. g = ev1 \o <<e>>
    BY <1>11, <2>1, <2>2, <2>3
  <2>5. ~y.doraAtDiscard /\ ~y.doraAtTsumo
    BY <1>1, <1>4, <1>8, <1>14
  <2>6. DoraDue(y, "next") /\ DoraDue(y, "done")
    BY <1>2, <1>12, <1>13, <1>14, <2>4, <2>5
  <2> QED
    BY <1>9, <1>14, <2>6 DEF y
<1>15. CASE /\ e.type = "reach" /\ \E f \in MoveEvents : group = <<e, f>> /\ IsDahai(f, a)
            /\ \A j \in 1..k : x.takes[a][j].type = "tsumo"
  <2>1. PICK f \in MoveEvents : group = <<e, f>> /\ IsDahai(f, a)
    BY <1>15
  <2>2. ~x.doraAtDiscard
    BY <1>4, <1>15 DEF IsNaki, Nakis
  <2>3. before = 0 /\ after = 0 /\ Num(x.doraAtDiscard) = 0
    BY <1>8, <1>15, <2>2 DEF Num
  <2>4. ev1 = ev0 /\ Shown(ev0) = KansIn(ev0)
    BY <1>5, <1>6, <1>7, <1>10, <2>3
  <2> DEFINE h == ev0 \o <<e>>
  <2>5. e.type \notin Kans /\ e.type \notin {"dora", "dahai"}
    BY <1>15 DEF Kans
  <2>6. /\ h \in Seq(MjaiEvents) /\ OnTime(h) /\ AnkanShown(h) /\ AllDrawn(h)
        /\ Shown(h) = KansIn(h)
    BY <1>2, <1>3, <1>4, <1>5, <2>4, <2>5, QuietEvent
  <2>7. ev2 = h \o <<f>>
    BY <1>2, <1>3, <1>5, <2>1, <2>4, TwoMore DEF ev2
  <2> HIDE DEF h
  <2>8. g = h \o <<f>>
    <3>1. ev2 \in Seq(MjaiEvents)
      BY <1>3, <2>1, <2>6, <2>7, OneMore
    <3> QED
      BY <1>11, <2>3, <2>7, <3>1
  <2>9. ~y.doraAtDiscard /\ ~y.doraAtTsumo
    BY <1>1, <1>4, <1>15, <2>2
  <2>10. DoraDue(y, "next") /\ DoraDue(y, "done")
    BY <1>13, <2>1, <2>6, <2>8, <2>9 DEF IsDahai
  <2> QED
    BY <1>9, <1>15, <2>10 DEF y
<1>16. CASE /\ e.type = "ankan" /\ group = <<e>> /\ k < Len(x.takes[a])
  <2>1. ~NoTakesLeft(x)
    BY <1>5, <1>16 DEF NoTakesLeft, MoreTakes, k
  <2>2. after \in {0, 1} /\ after # 0
    BY <1>8, <1>16, <2>1 DEF Num
  <2>3. ev2 = ev1 \o <<e>> /\ g = ev2 \o <<Dora>>
    BY <1>16, <2>2, RevealOne DEF ev2, g
  <2>4. /\ ev2 \in Seq(MjaiEvents) /\ OnTime(ev2) /\ AllDrawn(ev2)
        /\ Shown(ev2) = Shown(ev1) /\ KansIn(ev2) = KansIn(ev1) + 1
    <3>1. e.type \in Kans /\ e \in MjaiEvents /\ Shown(ev1) <= KansIn(ev1)
      BY <1>2, <1>3, <1>6, <1>12, <1>16 DEF Kans
    <3> QED
      BY <1>12, <1>16, <2>3, <3>1, KanEvent
  <2>5. Shown(ev2) + 1 = KansIn(ev2) /\ Shown(ev2) + 1 <= KansIn(ev2)
    BY <1>6, <1>12, <1>16, <2>4
  <2>6. /\ g \in Seq(MjaiEvents) /\ OnTime(g) /\ AnkanShown(g) /\ AllDrawn(g)
        /\ Shown(g) = KansIn(g)
    BY <2>3, <2>4, <2>5, DueDora
  <2>7. ~y.doraAtDiscard /\ ~y.doraAtTsumo
    BY <1>1, <1>4, <1>8, <1>16
  <2>8. Num(y.doraAtDiscard) = 0 /\ Num(y.doraAtTsumo) = 0
    BY <2>7 DEF Num
  <2>9. Shown(g) + Num(y.doraAtDiscard) + Num(y.doraAtTsumo) = KansIn(g)
    BY <1>6, <2>6, <2>8
  <2>10. DoraOnTime(g)
    BY <2>6, OnTimeIs
  <2>11. DoraDue(y, "take")
    BY <1>1, <2>6, <2>7, <2>9, <2>10 DEF DoraDue
  <2> QED
    BY <1>9, <1>16, <2>1, <2>11 DEF y
<1>17. CASE /\ e.type = "kakan" /\ group = <<e>> /\ DrawsNext(x.takes[a], k)
            /\ \E j \in 1..(k - 1) : IsNaki(x.takes[a][j])
  <2>1. before = 0 /\ after = 0
    BY <1>8, <1>17 DEF Num
  <2>2. ev1 = ev0 /\ ev2 = ev0 \o <<e>>
    BY <1>10, <1>17, <2>1 DEF ev2
  <2>3. /\ ev2 \in Seq(MjaiEvents) /\ OnTime(ev2) /\ AnkanShown(ev2) /\ LastUndrawn(ev2)
        /\ Shown(ev2) = Shown(ev0) /\ KansIn(ev2) = KansIn(ev0) + 1
    <3>1. e.type \in Kans /\ e \in MjaiEvents /\ e.type # "ankan"
      BY <1>2, <1>3, <1>17 DEF Kans
    <3>2. Shown(ev0) <= KansIn(ev0)
      BY <1>5, <1>6, <1>7, NumOne
    <3> QED
      BY <1>4, <1>5, <2>2, <3>1, <3>2, KanEvent
  <2>4. g = ev2
    BY <1>11, <2>1, <2>3
  <2>5. DoraOnTime(g)
    BY <2>3, <2>4, OnTimeIs
  <2>6. CASE NoTakesLeft(x)
    <3>1. DoraDue(y, "done")
      BY <1>1, <2>3, <2>4, <2>5 DEF DoraDue
    <3> QED
      BY <1>9, <2>6, <3>1 DEF y
  <2>7. CASE ~NoTakesLeft(x)
    <3>1. y.doraAtDiscard /\ (y.doraAtTsumo <=> x.doraAtDiscard)
      BY <1>1, <1>4, <1>17, <2>7
    <3>2. Num(y.doraAtDiscard) = 1 /\ Num(y.doraAtTsumo) = Num(x.doraAtDiscard)
      BY <3>1 DEF Num
    <3>3. Shown(g) + Num(y.doraAtDiscard) + Num(y.doraAtTsumo) = KansIn(g)
      BY <1>5, <1>6, <1>7, <2>3, <2>4, <3>2, NumOne
    <3>4. MoreTakes(y, y.actor) => TakeOf(y).type = "tsumo"
      BY <1>1, <1>17 DEF MoreTakes, TakeOf, NextTake, DrawsNext, k
    <3>5. \E j \in 1..k : IsNaki(x.takes[a][j])
      <4>1. 1..(k - 1) \subseteq 1..k
        BY <1>5
      <4> QED
        BY <1>17, <4>1
    <3>6. DoraDue(y, "take")
      BY <1>1, <2>3, <2>4, <2>5, <3>1, <3>3, <3>4, <3>5 DEF DoraDue, k
    <3> QED
      BY <1>9, <1>17, <2>7, <3>6 DEF y
  <2> QED
    BY <2>6, <2>7
<1> QED
  BY <1>2, <1>14, <1>15, <1>16, <1>17 DEF IsKanOf

LEMMA PassToDora ==
  ASSUME NEW x \in Attempts, DoraDue(x, "next"), NEW a \in Seats
  PROVE  DoraDue(PassTo(x, a), "take")
  BY PassToFields DEF DoraDue

-----------------------------------------------------------------------------
(***************************************************************************)
(* The steps of an attempt keep what is known of it.                       *)
(***************************************************************************)

LEMMA TakeKeeps ==
  ASSUME NEW x, AttemptInv(x, "take"), ~TakeFails(x)
  PROVE  LET y == Taken(x)
         IN /\ AttemptInv(y, PhaseAfterTake(x)) /\ y.doraFeed <= x.doraFeed
            /\ y.takes = x.takes /\ y.discards = x.discards
<1>1. /\ x \in Attempts /\ AllAligned(x) /\ WithinLists(x)
      /\ InPlace(x, "take") /\ InOrder(x, "take") /\ DoraDue(x, "take")
  BY DEF AttemptInv
<1>2. MoreTakes(x, x.actor)
  BY DEF TakeFails
<1> QED
  BY <1>1, <1>2, TakenType, TakenPlace, TakenOrder, TakenDora, TakenFields DEF AttemptInv

LEMMA DiscardKeeps ==
  ASSUME NEW x, AttemptInv(x, "discard"), ~DiscardFails(x)
  PROVE  LET y == Thrown(x)
         IN /\ AttemptInv(y, PhaseAfterDiscard(x)) /\ y.doraFeed <= x.doraFeed
            /\ y.takes = x.takes /\ y.discards = x.discards
<1>1. /\ x \in Attempts /\ AllAligned(x) /\ WithinLists(x)
      /\ InPlace(x, "discard") /\ InOrder(x, "discard") /\ DoraDue(x, "discard")
  BY DEF AttemptInv
<1> QED
  BY <1>1, ThrownType, ThrownPlace, ThrownOrder, ThrownDora, ThrownFields DEF AttemptInv

LEMMA PassToKeeps ==
  ASSUME NEW x, AttemptInv(x, "next"), NEW a \in Seats,
         a = Shimocha(x.actor) \/ a \in Candidates(x)
  PROVE  LET y == PassTo(x, a)
         IN /\ AttemptInv(y, "take") /\ y.doraFeed = x.doraFeed
            /\ y.takes = x.takes /\ y.discards = x.discards
<1>1. /\ x \in Attempts /\ AllAligned(x) /\ WithinLists(x)
      /\ InPlace(x, "next") /\ InOrder(x, "next") /\ DoraDue(x, "next")
  BY DEF AttemptInv
<1> QED
  BY <1>1, PassToFields, PassToPlace, PassToOrder, PassToDora DEF AttemptInv

LEMMA FailKeeps ==
  ASSUME NEW x, NEW ph, AttemptInv(x, ph), NEW ph2 \in {"failed", "error"}
  PROVE  AttemptInv(x, ph2)
  BY DEF AttemptInv

\* The next actor is the shimocha or a seat that claims the discard.
LEMMA NextActor ==
  ASSUME NEW x, x.actor \in Seats, NEW a,
         a = Shimocha(x.actor) \/ (Candidates(x) # {} /\ a = Caller(x))
  PROVE  a \in Seats /\ (a = Shimocha(x.actor) \/ a \in Candidates(x))
<1>1. Shimocha(x.actor) \in Seats
  BY SeatTypes
<1> QED
  BY <1>1, CallerExists DEF Candidates

\* What is guessed at is a tile.
LEMMA GuessType ==
  ASSUME NEW x, AttemptInv(x, "next"), Doubtful(x)
  PROVE  Guess(x) \in Tiles \X Seats \X Nat
<1>1. x \in Attempts /\ AllAligned(x)
  BY DEF AttemptInv
<1>2. PICK a \in Seats : /\ MoreTakes(x, a) /\ IsNaki(NextTake(x, a))
                         /\ NextTake(x, a).pai = x.lastDiscard
  BY DEF Doubtful, Candidates
<1> DEFINE ts == x.takes[a]
           k == x.takeIdx[a] + 1
<1>3. Len(ts) \in Nat /\ \A i \in 1..Len(ts) : IsTake(ts[i], a)
  BY <1>1, AlignedLists
<1>4. k \in 1..Len(ts) /\ NextTake(x, a) = ts[k]
  <2>1. x.takeIdx[a] \in Nat
    BY <1>1 DEF Attempts
  <2>2. x.takeIdx[a] < Len(ts) /\ NextTake(x, a) = ts[k]
    BY <1>2 DEF MoreTakes, NextTake
  <2> HIDE DEF ts
  <2> QED
    BY <1>3, <2>1, <2>2
<1> HIDE DEF ts, k
<1>5. x.lastDiscard \in Tiles
  BY <1>2, <1>3, <1>4 DEF IsTake, IsNaki
<1>6. x.actor \in Seats /\ x.discardIdx[x.actor] \in Nat
  BY <1>1 DEF Attempts
<1> QED
  BY <1>5, <1>6 DEF Guess

\* The lists of a log that can be converted.
Convertible(ts, ds) ==
  /\ ts \in [Seats -> Seq(MoveEvents)] /\ ds \in [Seats -> Seq(MoveEvents)]
  /\ \A a \in Seats : \E P : Aligned(a, ts[a], ds[a], P)

\* An attempt that begins.
LEMMA FreshKeeps ==
  ASSUME NEW ts, NEW ds, Convertible(ts, ds), indicators \in Nat \ {0}
  PROVE  LET x == FreshAttempt(ts, ds)
         IN /\ AttemptInv(x, "take") /\ x.doraFeed <= indicators
            /\ x.takes = ts /\ x.discards = ds
<1> DEFINE x == FreshAttempt(ts, ds)
<1>1. /\ x.takes = ts /\ x.discards = ds /\ x.events = << >> /\ x.doraFeed = indicators - 1
      /\ x.takeIdx = [a \in Seats |-> 0] /\ x.discardIdx = [a \in Seats |-> 0]
      /\ x.reach = Nobody /\ x.lastDiscard = Other /\ x.lastActor = Nobody
      /\ x.doraAtDiscard = FALSE /\ x.doraAtTsumo = FALSE /\ x.actor = 0
  BY DEF FreshAttempt
<1>2. x \in Attempts
  <2>1. indicators - 1 \in Nat /\ 0 \in Seats /\ << >> \in Seq(MjaiEvents)
    BY DEF Seats
  <2> QED
    BY <2>1 DEF Attempts, FreshAttempt, Convertible
<1>3. indicators - 1 <= indicators
  OBVIOUS
<1> HIDE DEF x
<1>4. AllAligned(x)
  BY <1>1 DEF AllAligned, Place, Convertible
<1>5. ASSUME NEW a \in Seats
      PROVE  /\ x.takeIdx[a] = 0 /\ x.discardIdx[a] = 0 /\ Place(x, a)[0] = 0
             /\ Len(x.takes[a]) \in Nat /\ Len(x.discards[a]) \in Nat
  BY <1>1, <1>4, AlignedLists
<1>6. WithinLists(x)
  BY <1>5 DEF WithinLists
<1>7. InPlace(x, "take")
  BY <1>5 DEF InPlace, Between
<1>8. DOMAIN x.events = {} /\ Len(x.events) = 0
  BY <1>1
<1>9. InOrder(x, "take")
  BY <1>1, <1>8 DEF InOrder, LegalMoves
<1>10. Shown(x.events) = 0 /\ KansIn(x.events) = 0
  <2>1. \A types : {i \in 1..0 : x.events[i].type \in types} = {}
    OBVIOUS
  <2> QED
    BY <1>8, <2>1, FS_EmptySet DEF Shown, KansIn, Until
<1>11. DoraDue(x, "take")
  <2>1. Num(x.doraAtDiscard) = 0 /\ Num(x.doraAtTsumo) = 0
    BY <1>1 DEF Num
  <2>2. DoraOnTime(x.events) /\ AnkanShown(x.events) /\ AllDrawn(x.events)
    BY <1>8 DEF DoraOnTime, AnkanShown, AllDrawn
  <2> QED
    BY <1>1, <1>10, <2>1, <2>2 DEF DoraDue
<1> QED
  BY <1>1, <1>2, <1>3, <1>4, <1>6, <1>7, <1>9, <1>11 DEF AttemptInv, x

-----------------------------------------------------------------------------
(***************************************************************************)
(* The conversion.                                                         *)
(***************************************************************************)

ConvInv ==
  /\ RoundInv
  /\ phase \in {"play", "take", "discard", "next", "failed", "done", "error"}
  /\ DOMAIN backtracks \subseteq Tiles \X Seats \X Nat
  /\ phase = "play" =>
       /\ DOMAIN backtracks = {} /\ attempt.doraFeed = 0
       /\ \A a \in Seats : /\ attempt.takeIdx[a] = 0 /\ attempt.discardIdx[a] = 0
                           /\ Len(takeEvents[a]) \in Nat /\ Len(discardEvents[a]) \in Nat
  /\ phase # "play" =>
       /\ Convertible(takeEvents, discardEvents)
       /\ attempt.takes = takeEvents /\ attempt.discards = discardEvents
       /\ AttemptInv(attempt, phase) /\ attempt.doraFeed <= indicators

LEMMA ConvBegins == ConvInit => ConvInv
<1> SUFFICES ASSUME ConvInit PROVE ConvInv
  OBVIOUS
<1>1. RoundInv
  BY RoundInit DEF ConvInit
<1>2. /\ phase = "play" /\ backtracks = << >> /\ indicators = 1
      /\ takeEvents = [a \in Seats |-> << >>] /\ discardEvents = [a \in Seats |-> << >>]
      /\ attempt = FreshAttempt(takeEvents, discardEvents)
  BY DEF ConvInit, Init
<1>3. /\ attempt.doraFeed = 0
      /\ attempt.takeIdx = [a \in Seats |-> 0] /\ attempt.discardIdx = [a \in Seats |-> 0]
  BY <1>2 DEF FreshAttempt
<1>4. \A a \in Seats : Len(takeEvents[a]) = 0 /\ Len(discardEvents[a]) = 0
  BY <1>2
<1>5. DOMAIN backtracks = {}
  BY <1>2
<1> QED
  BY <1>1, <1>2, <1>3, <1>4, <1>5 DEF ConvInv

LEMMA RoundFrame == RoundInv /\ UNCHANGED roundVars => RoundInv'
  BY DEF roundVars, RoundInv

\* What a step of an attempt leaves, as x and ph.
KeptUp(x, ph) ==
  /\ AttemptInv(x, ph) /\ x.doraFeed <= attempt.doraFeed
  /\ x.takes = attempt.takes /\ x.discards = attempt.discards
  /\ ph \in {"take", "discard", "next", "failed", "done", "error"}

LEMMA KeptStep ==
  ASSUME ConvInv, phase # "play", UNCHANGED <<roundVars, takeEvents, discardEvents>>,
         DOMAIN backtracks' \subseteq Tiles \X Seats \X Nat, KeptUp(attempt', phase')
  PROVE  ConvInv'
<1>1. RoundInv' /\ indicators' = indicators /\ indicators \in Nat
  BY RoundFrame DEF ConvInv, RoundInv, roundVars
<1>2. /\ AttemptInv(attempt', phase')
      /\ attempt'.takes = takeEvents /\ attempt'.discards = discardEvents
      /\ attempt'.doraFeed <= attempt.doraFeed /\ attempt.doraFeed <= indicators
      /\ attempt \in Attempts /\ attempt' \in Attempts
      /\ phase' \in {"take", "discard", "next", "failed", "done", "error"}
      /\ Convertible(takeEvents, discardEvents)
  BY DEF KeptUp, ConvInv, AttemptInv
<1>3. attempt'.doraFeed <= indicators
  <2>1. attempt.doraFeed \in Nat /\ attempt'.doraFeed \in Nat
    BY <1>2 DEF Attempts
  <2> QED
    BY <1>1, <1>2, <2>1
<1> QED
  BY <1>1, <1>2, <1>3 DEF ConvInv

\* The actor changes.
LEMMA GoToStep ==
  ASSUME ConvInv, phase = "next", NEW a, GoTo(a),
         a = Shimocha(attempt.actor) \/ (Candidates(attempt) # {} /\ a = Caller(attempt)),
         DOMAIN backtracks' \subseteq Tiles \X Seats \X Nat
  PROVE  ConvInv'
<1>1. AttemptInv(attempt, "next")
  BY DEF ConvInv
<1>2. attempt \in Attempts /\ attempt.actor \in Seats /\ attempt.doraFeed \in Nat
  BY <1>1 DEF AttemptInv, Attempts
<1>3. a \in Seats /\ (a = Shimocha(attempt.actor) \/ a \in Candidates(attempt))
  BY <1>2, NextActor
<1>4. /\ attempt' = PassTo(attempt, a) /\ phase' = "take"
      /\ UNCHANGED <<roundVars, takeEvents, discardEvents>>
  BY DEF GoTo
<1>5. KeptUp(PassTo(attempt, a), "take")
  BY <1>1, <1>2, <1>3, PassToKeeps DEF KeptUp
<1>6. KeptUp(attempt', phase')
  BY <1>4, <1>5
<1> QED
  BY <1>4, <1>6, KeptStep

LEMMA ConvStep == ConvInv /\ [Next]_vars => ConvInv'
<1> SUFFICES ASSUME ConvInv, [Next]_vars PROVE ConvInv'
  OBVIOUS
<1>1. CASE PlayRound
  <2>1. phase = "play" /\ Play /\ UNCHANGED convVars
    BY <1>1 DEF PlayRound
  <2>2. RoundInv'
    BY <2>1, RoundStep DEF ConvInv
  <2> QED
    BY <2>1, <2>2 DEF ConvInv, convVars
<1>2. CASE StartConversion
  <2>1. /\ phase = "play" /\ Over /\ phase' = "take" /\ UNCHANGED <<roundVars, backtracks>>
        /\ takeEvents' = [a \in Seats |-> TakesOf(a)]
        /\ discardEvents' = [a \in Seats |-> DiscardsOf(a)]
        /\ attempt' = FreshAttempt(takeEvents', discardEvents')
    BY <1>2 DEF StartConversion
  <2>2. RoundInv /\ RoundInv' /\ indicators' = indicators /\ indicators \in Nat \ {0}
    BY <2>1, RoundFrame DEF ConvInv, RoundInv, roundVars
  <2>3. ASSUME NEW a \in Seats
        PROVE  /\ takeEvents'[a] \in Seq(MoveEvents) /\ discardEvents'[a] \in Seq(MoveEvents)
               /\ \E P : Aligned(a, takeEvents'[a], discardEvents'[a], P)
    <3>1. takeEvents'[a] = TakesOf(a) /\ discardEvents'[a] = DiscardsOf(a)
      BY <2>1
    <3>2. PICK P : Aligned(a, TakesOf(a), DiscardsOf(a), P)
      BY <2>1, <2>2, RoundAligned
    <3> QED
      BY <3>1, <3>2 DEF Aligned
  <2>4. Convertible(takeEvents', discardEvents')
    <3>1. /\ DOMAIN takeEvents' = Seats /\ DOMAIN discardEvents' = Seats
          /\ takeEvents' = [a \in Seats |-> takeEvents'[a]]
          /\ discardEvents' = [a \in Seats |-> discardEvents'[a]]
      BY <2>1
    <3> QED
      BY <2>3, <3>1 DEF Convertible
  <2>5. /\ AttemptInv(attempt', "take") /\ attempt'.doraFeed <= indicators
        /\ attempt'.takes = takeEvents' /\ attempt'.discards = discardEvents'
    BY <2>1, <2>2, <2>4, FreshKeeps
  <2> QED
    BY <2>1, <2>2, <2>4, <2>5 DEF ConvInv
<1>3. ASSUME phase # "play", UNCHANGED <<roundVars, takeEvents, discardEvents, backtracks>>,
             KeptUp(attempt', phase')
      PROVE  ConvInv'
  BY <1>3, KeptStep DEF ConvInv
<1>4. ASSUME phase \in {"take", "discard", "failed"}, NEW ph \in {"failed", "error"}
      PROVE  KeptUp(attempt, ph)
  <2>1. AttemptInv(attempt, phase)
    BY <1>4 DEF ConvInv
  <2>2. AttemptInv(attempt, ph) /\ attempt.doraFeed \in Nat
    BY <2>1, FailKeeps DEF AttemptInv, Attempts
  <2> QED
    BY <2>2 DEF KeptUp
<1>5. CASE Take
  <2>1. phase = "take" /\ UNCHANGED <<roundVars, takeEvents, discardEvents, backtracks>>
    BY <1>5 DEF Take
  <2>2. CASE TakeFails(attempt)
    <3>1. attempt' = attempt /\ phase' = "failed"
      BY <1>5, <2>2 DEF Take, Fail
    <3> QED
      BY <1>3, <1>4, <2>1, <3>1
  <2>3. CASE ~TakeFails(attempt)
    <3>1. attempt' = Taken(attempt) /\ phase' = PhaseAfterTake(attempt)
      BY <1>5, <2>3 DEF Take
    <3>2. AttemptInv(attempt, "take")
      BY <2>1 DEF ConvInv
    <3>3. KeptUp(Taken(attempt), PhaseAfterTake(attempt))
      BY <2>3, <3>2, TakeKeeps DEF KeptUp, PhaseAfterTake
    <3>4. KeptUp(attempt', phase')
      BY <3>1, <3>3
    <3> QED
      BY <1>3, <2>1, <3>4
  <2> QED
    BY <2>2, <2>3
<1>6. CASE DiscardStep
  <2>1. phase = "discard" /\ UNCHANGED <<roundVars, takeEvents, discardEvents, backtracks>>
    BY <1>6 DEF DiscardStep
  <2>2. CASE DiscardFails(attempt)
    <3>1. attempt' = attempt /\ phase' = "failed"
      BY <1>6, <2>2 DEF DiscardStep, Fail
    <3> QED
      BY <1>3, <1>4, <2>1, <3>1
  <2>3. CASE ~DiscardFails(attempt)
    <3>1. attempt' = Thrown(attempt) /\ phase' = PhaseAfterDiscard(attempt)
      BY <1>6, <2>3 DEF DiscardStep
    <3>2. AttemptInv(attempt, "discard")
      BY <2>1 DEF ConvInv
    <3>3. KeptUp(Thrown(attempt), PhaseAfterDiscard(attempt))
      BY <2>3, <3>2, DiscardKeeps DEF KeptUp, PhaseAfterDiscard
    <3>4. KeptUp(attempt', phase')
      BY <3>1, <3>3
    <3> QED
      BY <1>3, <2>1, <3>4
  <2> QED
    BY <2>2, <2>3
<1>7. CASE NobodyCalls
  BY <1>7, GoToStep DEF NobodyCalls, ConvInv
<1>8. CASE CallIsCertain
  BY <1>8, GoToStep DEF CallIsCertain, Certain, ConvInv
<1>9. CASE GuessFirst
  <2>1. phase = "next" /\ Doubtful(attempt) /\ AttemptInv(attempt, "next")
    BY <1>9 DEF GuessFirst, ConvInv
  <2>2. Guess(attempt) \in Tiles \X Seats \X Nat
    BY <2>1, GuessType
  <2>3. DOMAIN backtracks' = DOMAIN backtracks \cup {Guess(attempt)} /\ GoTo(Caller(attempt))
    BY <1>9 DEF GuessFirst
  <2>4. DOMAIN backtracks' \subseteq Tiles \X Seats \X Nat
    BY <2>2, <2>3 DEF ConvInv
  <2> QED
    BY <2>1, <2>3, <2>4, GoToStep DEF Doubtful
<1>10. CASE GuessSecond
  <2>1. phase = "next" /\ DOMAIN backtracks' = DOMAIN backtracks /\ GoTo(Shimocha(attempt.actor))
    BY <1>10 DEF GuessSecond
  <2> QED
    BY <2>1, GoToStep DEF ConvInv
<1>11. CASE GiveUpGuess
  <2>1. phase = "next" /\ DOMAIN backtracks' \subseteq DOMAIN backtracks
        /\ GoTo(Shimocha(attempt.actor))
    BY <1>11 DEF GiveUpGuess
  <2>2. DOMAIN backtracks' \subseteq Tiles \X Seats \X Nat
    BY <2>1 DEF ConvInv
  <2> QED
    BY <2>1, <2>2, GoToStep
<1>12. CASE Retry
  <2>1. phase = "failed" /\ UNCHANGED <<roundVars, takeEvents, discardEvents, backtracks>>
    BY <1>12 DEF Retry
  <2>2. CASE DOMAIN backtracks = {}
    <3>1. attempt' = attempt /\ phase' = "error"
      BY <1>12, <2>2 DEF Retry
    <3> QED
      BY <1>3, <1>4, <2>1, <3>1
  <2>3. CASE DOMAIN backtracks # {}
    <3>1. attempt' = FreshAttempt(takeEvents, discardEvents) /\ phase' = "take"
      BY <1>12, <2>3 DEF Retry
    <3>2. /\ RoundInv' /\ indicators' = indicators /\ indicators \in Nat \ {0}
          /\ Convertible(takeEvents, discardEvents)
      BY <2>1, RoundFrame DEF ConvInv, RoundInv, roundVars
    <3>3. /\ AttemptInv(attempt', "take") /\ attempt'.doraFeed <= indicators
          /\ attempt'.takes = takeEvents /\ attempt'.discards = discardEvents
      BY <3>1, <3>2, FreshKeeps
    <3> QED
      BY <2>1, <3>1, <3>2, <3>3 DEF ConvInv
  <2> QED
    BY <2>2, <2>3
<1>13. CASE UNCHANGED vars
  <2>1. UNCHANGED <<roundVars, convVars>> /\ RoundInv' /\ indicators' = indicators
    BY <1>13, RoundFrame DEF vars, roundVars, ConvInv
  <2> QED
    BY <2>1 DEF ConvInv, convVars
<1> QED
  BY <1>1, <1>2, <1>5, <1>6, <1>7, <1>8, <1>9, <1>10, <1>11, <1>12, <1>13 DEF Next, Convert

\* Of every round, every attempt at a conversion stays within the lists and the
\* indicators of the log, and guesses only at tiles (conv.rs:105-440).
THEOREM ConvTypeOK == Spec => []TypeOK
<1>1. ConvInv => TypeOK
  <2> SUFFICES ASSUME ConvInv PROVE TypeOK
    OBVIOUS
  <2>1. CASE phase = "play"
    <3>1. indicators \in Nat
      BY DEF ConvInv, RoundInv
    <3> QED
      BY <2>1, <3>1 DEF ConvInv, TypeOK
  <2>2. CASE phase # "play"
    <3>1. /\ attempt.takes = takeEvents /\ attempt.discards = discardEvents
          /\ attempt \in Attempts /\ WithinLists(attempt)
          /\ attempt.doraFeed <= indicators /\ indicators \in Nat
      BY <2>2 DEF ConvInv, RoundInv, AttemptInv
    <3>2. attempt.doraFeed \in 0..indicators
      BY <3>1 DEF Attempts
    <3> QED
      BY <3>1, <3>2 DEF ConvInv, TypeOK, WithinLists
  <2> QED
    BY <2>1, <2>2
<1> QED
  BY <1>1, ConvBegins, ConvStep, PTL DEF Spec

\* Whatever round was played and whichever branches are tried, what the
\* conversion returns is a sequence of legal turns: a call answers the discard
\* right before it, a draw follows the discard of the kamicha or the seat's own
\* kan (conv.rs:153-176, 329-421).
THEOREM OrderIsLegal == Spec => []LegalOrder
<1>1. ConvInv => LegalOrder
  BY DEF ConvInv, AttemptInv, InOrder, LegalOrder
<1> QED
  BY <1>1, ConvBegins, ConvStep, PTL DEF Spec

\* Of every round that is converted each kan shows one indicator: a closed one
\* at once, an open one before the next discard but not before the draw that
\* follows it, also when one kan follows another (conv.rs:181-221, 249-274).
THEOREM DoraIsTimed == Spec => []DoraTiming
<1>1. ConvInv => DoraTiming
  BY DEF ConvInv, AttemptInv, DoraDue, DoraTiming
<1> QED
  BY <1>1, ConvBegins, ConvStep, PTL DEF Spec

-----------------------------------------------------------------------------
(***************************************************************************)
(* Where the events of one kind are in a list, and in the list that is     *)
(* kept of them.                                                           *)
(***************************************************************************)

\* how many of the first n elements are in S
Count(s, n, S) == Len(Kept(First(s, n), S))

LEMMA CountNext ==
  ASSUME NEW T, NEW s \in Seq(T), NEW S
  PROVE  /\ Len(s) \in Nat /\ Count(s, 0, S) = 0 /\ Count(s, Len(s), S) = Len(Kept(s, S))
         /\ \A n \in 0..Len(s) : Count(s, n, S) \in Nat
         /\ \A n \in 1..Len(s) : Count(s, n, S) = Count(s, n - 1, S) + Num(s[n] \in S)
<1> DEFINE C(n) == Kept(First(s, n), S)
<1>1. /\ C(0) = << >> /\ C(Len(s)) = Kept(s, S)
      /\ \A n \in 0..Len(s) : C(n) \in Seq(T \cap S)
      /\ \A n \in 1..Len(s) : C(n) = IF s[n] \in S THEN Append(C(n - 1), s[n]) ELSE C(n - 1)
  <2>1. First(s, 0) = << >> /\ First(s, Len(s)) = s
    BY Firsts
  <2>2. \A i \in 0..Len(s) : Kept(First(s, i), S) \in Seq(T \cap S)
    BY FirstKept
  <2>3. ASSUME NEW n \in 1..Len(s)
        PROVE  C(n) = IF s[n] \in S THEN Append(C(n - 1), s[n]) ELSE C(n - 1)
    <3> DEFINE r == First(s, n - 1)
               x == s[n]
    <3>1. r \in Seq(T) /\ x \in T /\ First(s, n) = Append(r, x)
      <4>1. n - 1 \in 0..Len(s)
        OBVIOUS
      <4> QED
        BY <4>1, Firsts
    <3> HIDE DEF r, x
    <3>2. Kept(Append(r, x), S) = IF x \in S THEN Append(Kept(r, S), x) ELSE Kept(r, S)
      BY <3>1, KeptAppend
    <3> QED
      BY <3>1, <3>2 DEF r, x
  <2> QED
    BY <2>1, <2>2, <2>3, KeptEmpty
<1>2. Len(s) \in Nat /\ \A n \in 1..Len(s) : s[n] \in T
  BY LenProperties, ElementOfSeq
<1> HIDE DEF C
<1>3. ASSUME NEW n \in 0..Len(s) PROVE Len(C(n)) \in Nat
  BY <1>1, LenProperties
<1>4. ASSUME NEW n \in 1..Len(s) PROVE Len(C(n)) = Len(C(n - 1)) + Num(s[n] \in S)
  <2>1. n - 1 \in 0..Len(s) /\ n \in 0..Len(s)
    BY <1>2
  <2>2. CASE s[n] \in S
    <3>1. s[n] \in T \cap S /\ C(n - 1) \in Seq(T \cap S)
      BY <1>1, <1>2, <2>1, <2>2
    <3>2. Len(Append(C(n - 1), s[n])) = Len(C(n - 1)) + 1
      BY <3>1, Appended
    <3> QED
      BY <1>1, <2>2, <3>2 DEF Num
  <2>3. CASE s[n] \notin S
    <3>1. C(n) = C(n - 1) /\ Len(C(n - 1)) \in Nat
      BY <1>1, <1>3, <2>1, <2>3
    <3> QED
      BY <2>3, <3>1 DEF Num
  <2> QED
    BY <2>2, <2>3
<1>5. Len(C(0)) = 0
  BY <1>1, EmptySeq
<1> QED
  BY <1>1, <1>2, <1>3, <1>4, <1>5 DEF Count, C

LEMMA CountGrows ==
  ASSUME NEW T, NEW s \in Seq(T), NEW S, NEW n \in 0..Len(s)
  PROVE  \A m \in 0..n : Count(s, m, S) <= Count(s, n, S)
<1> DEFINE c(i) == Count(s, i, S)
           N == Len(s)
<1>1. /\ N \in Nat /\ \A i \in 0..N : c(i) \in Nat
      /\ \A i \in 1..N : c(i) = c(i - 1) + Num(s[i] \in S)
  BY CountNext
<1> HIDE DEF c, N
<1>2. n \in 0..N /\ n \in Nat
  BY <1>1 DEF N
<1> DEFINE Q == {k \in 0..n : \A m \in 0..k : c(m) <= c(k)}
<1>3. 0 \in Q
  BY <1>1, <1>2
<1>4. ASSUME NEW k \in 1..n, k - 1 \in Q PROVE k \in Q
  <2>1. k \in 1..N /\ k - 1 \in 0..N /\ k \in 0..N
    BY <1>1, <1>2
  <2>2. c(k) = c(k - 1) + Num(s[k] \in S) /\ c(k) \in Nat /\ c(k - 1) \in Nat
    BY <1>1, <2>1
  <2>3. c(k - 1) <= c(k)
    BY <2>2 DEF Num
  <2>4. ASSUME NEW m \in 0..k PROVE c(m) <= c(k)
    <3>1. m = k \/ m \in 0..(k - 1)
      OBVIOUS
    <3>2. CASE m \in 0..(k - 1)
      <4>1. c(m) \in Nat /\ c(m) <= c(k - 1)
        BY <1>1, <1>2, <1>4, <2>1, <3>2
      <4> QED
        BY <2>2, <2>3, <4>1
    <3> QED
      BY <2>2, <3>1, <3>2
  <2> QED
    BY <2>1, <2>4
<1>5. 0..n \subseteq Q
  <2> HIDE DEF Q
  <2> QED
    BY <1>2, <1>3, <1>4, UpTo
<1> QED
  BY <1>2, <1>5 DEF c

\* Where an element of S is in the list that is kept.
LEMMA KeptAt ==
  ASSUME NEW T, NEW s \in Seq(T), NEW S, NEW n \in 1..Len(s), s[n] \in S
  PROVE  LET c == Count(s, n, S)
         IN /\ c = Count(s, n - 1, S) + 1 /\ Count(s, n - 1, S) \in Nat
            /\ c <= Len(Kept(s, S)) /\ Kept(s, S)[c] = s[n]
<1> DEFINE C(i) == Kept(First(s, i), S)
           c(i) == Count(s, i, S)
           N == Len(s)
<1>1. /\ C(N) = Kept(s, S)
      /\ \A i \in 0..N : C(i) \in Seq(T \cap S)
      /\ \A i \in 1..N : C(i) = IF s[i] \in S THEN Append(C(i - 1), s[i]) ELSE C(i - 1)
  BY FirstKept
<1>2. /\ N \in Nat /\ c(N) = Len(Kept(s, S)) /\ \A i \in 0..N : c(i) \in Nat
      /\ \A i \in 1..N : c(i) = c(i - 1) + Num(s[i] \in S)
  BY CountNext
<1>3. \A i \in 0..N : c(i) = Len(C(i))
  BY DEF Count
<1>4. n \in 1..N /\ \A i \in 1..N : s[i] \in T
  BY ElementOfSeq
<1>5. \A k \in 0..N : \A m \in 0..k : c(m) <= c(k)
  <2>1. ASSUME NEW k \in 0..Len(s) PROVE \A m \in 0..k : Count(s, m, S) <= Count(s, k, S)
    BY CountGrows
  <2> QED
    BY <2>1
<1> HIDE DEF C, c, N
<1>6. n - 1 \in 0..N /\ n \in Nat /\ n \in 0..N /\ c(n) = c(n - 1) + 1 /\ c(n - 1) \in Nat
  <2>1. n - 1 \in 0..N /\ n \in Nat /\ n \in 0..N
    BY <1>2, <1>4
  <2>2. c(n) = c(n - 1) + Num(s[n] \in S)
    BY <1>2, <1>4
  <2> QED
    BY <1>2, <2>1, <2>2 DEF Num
<1> DEFINE Q == {k \in 0..N : k >= n => C(k)[c(n)] = s[n]}
<1>7. 0 \in Q
  BY <1>2, <1>4
<1>8. ASSUME NEW k \in 1..N, k - 1 \in Q PROVE k \in Q
  <2> SUFFICES ASSUME k >= n PROVE C(k)[c(n)] = s[n]
    BY <1>2
  <2>1. k - 1 \in 0..N /\ C(k - 1) \in Seq(T \cap S) /\ Len(C(k - 1)) = c(k - 1) /\ c(k - 1) \in Nat
    BY <1>1, <1>2, <1>3
  <2>2. s[k] \in S => /\ Append(C(k - 1), s[k])[c(k - 1) + 1] = s[k]
                      /\ \A i \in 1..c(k - 1) : Append(C(k - 1), s[k])[i] = C(k - 1)[i]
    <3> SUFFICES ASSUME s[k] \in S
                 PROVE  /\ Append(C(k - 1), s[k])[c(k - 1) + 1] = s[k]
                        /\ \A i \in 1..c(k - 1) : Append(C(k - 1), s[k])[i] = C(k - 1)[i]
      OBVIOUS
    <3>1. s[k] \in T \cap S
      BY <1>4
    <3> QED
      BY <2>1, <3>1, Appended
  <2>3. CASE k = n
    BY <1>1, <1>6, <2>2, <2>3
  <2>4. CASE k # n
    <3>1. k - 1 >= n /\ n \in 0..(k - 1)
      BY <1>6, <2>4
    <3>2. C(k - 1)[c(n)] = s[n] /\ c(n) <= c(k - 1)
      BY <1>5, <1>8, <2>1, <3>1
    <3>3. c(n) \in 1..c(k - 1)
      BY <1>6, <2>1, <3>2
    <3> QED
      BY <1>1, <2>2, <3>2, <3>3
  <2> QED
    BY <2>3, <2>4
<1>9. 0..N \subseteq Q
  <2> HIDE DEF Q
  <2> QED
    BY <1>2, <1>7, <1>8, UpTo
<1>10. C(N)[c(n)] = s[n] /\ c(n) <= c(N)
  <2>1. N \in 0..N /\ N >= n /\ n \in 0..N
    BY <1>2, <1>4, <1>6
  <2> QED
    BY <1>5, <1>9, <2>1
<1> QED
  BY <1>1, <1>2, <1>6, <1>10 DEF c, C, N

\* What is kept behind the first n elements comes from behind them.
LEMMA KeptFrom ==
  ASSUME NEW T, NEW s \in Seq(T), NEW S, NEW n \in 0..Len(s), NEW i \in Nat,
         Count(s, n, S) < i, i <= Len(Kept(s, S))
  PROVE  \E k \in (n + 1)..Len(s) : s[k] \in S /\ Count(s, k, S) = i /\ Kept(s, S)[i] = s[k]
<1> DEFINE c(j) == Count(s, j, S)
           N == Len(s)
<1>1. /\ N \in Nat /\ c(N) = Len(Kept(s, S)) /\ \A j \in 0..N : c(j) \in Nat
      /\ \A j \in 1..N : c(j) = c(j - 1) + Num(s[j] \in S)
  BY CountNext
<1>2. n \in 0..N /\ n \in Nat /\ c(n) < i /\ i <= c(N)
  BY <1>1
<1> HIDE DEF c, N
<1> DEFINE Q == {k \in 0..N : k >= n /\ i <= c(k) => \E j \in (n + 1)..k : s[j] \in S /\ c(j) = i}
<1>3. 0 \in Q
  BY <1>1, <1>2
<1>4. ASSUME NEW k \in 1..N, k - 1 \in Q PROVE k \in Q
  <2> SUFFICES ASSUME k >= n, i <= c(k) PROVE \E j \in (n + 1)..k : s[j] \in S /\ c(j) = i
    BY <1>1
  <2>1. k > n /\ k - 1 \in 0..N /\ k \in 0..N
    BY <1>1, <1>2
  <2>2. c(k) = c(k - 1) + Num(s[k] \in S) /\ c(k - 1) \in Nat /\ c(k) \in Nat
    BY <1>1, <2>1
  <2>3. CASE i <= c(k - 1)
    <3>1. \E j \in (n + 1)..(k - 1) : s[j] \in S /\ c(j) = i
      BY <1>2, <1>4, <2>1, <2>3
    <3> QED
      BY <1>2, <2>1, <3>1
  <2>4. CASE ~(i <= c(k - 1))
    <3>1. s[k] \in S /\ c(k) = i
      BY <2>2, <2>4 DEF Num
    <3> QED
      BY <1>2, <2>1, <3>1
  <2> QED
    BY <2>3, <2>4
<1>5. 0..N \subseteq Q
  <2> HIDE DEF Q
  <2> QED
    BY <1>1, <1>3, <1>4, UpTo
<1>6. PICK k \in (n + 1)..N : s[k] \in S /\ c(k) = i
  <2>1. N \in 0..N /\ N >= n
    BY <1>1, <1>2
  <2> QED
    BY <1>2, <1>5, <2>1
<1>7. k \in 1..Len(s) /\ k \in (n + 1)..Len(s)
  BY <1>2, <1>6 DEF N
<1>8. Kept(s, S)[Count(s, k, S)] = s[k]
  BY <1>6, <1>7, KeptAt
<1> QED
  BY <1>6, <1>7, <1>8 DEF c

LEMMA KeptLater ==
  ASSUME NEW T, NEW s \in Seq(T), NEW S, NEW k \in 0..Len(s)
  PROVE  Count(s, k, S) < Len(Kept(s, S)) <=> \E m \in (k + 1)..Len(s) : s[m] \in S
<1>1. Count(s, k, S) \in Nat /\ Len(Kept(s, S)) \in Nat /\ Len(s) \in Nat
  <2>1. Kept(s, S) \in Seq(T \cap S)
    BY KeptElements
  <2> QED
    BY <2>1, CountNext, LenProperties
<1>2. ASSUME Count(s, k, S) < Len(Kept(s, S)) PROVE \E m \in (k + 1)..Len(s) : s[m] \in S
  <2> DEFINE i == Len(Kept(s, S))
  <2>1. i \in Nat /\ Count(s, k, S) < i /\ i <= Len(Kept(s, S))
    BY <1>1, <1>2
  <2> HIDE DEF i
  <2>2. \E m \in (k + 1)..Len(s) : s[m] \in S /\ Count(s, m, S) = i /\ Kept(s, S)[i] = s[m]
    BY <2>1, KeptFrom
  <2> QED
    BY <2>2
<1>3. ASSUME NEW m \in (k + 1)..Len(s), s[m] \in S PROVE Count(s, k, S) < Len(Kept(s, S))
  <2>1. m \in 1..Len(s) /\ m - 1 \in 0..Len(s) /\ k \in 0..(m - 1)
    BY <1>1
  <2>2. /\ Count(s, m, S) = Count(s, m - 1, S) + 1 /\ Count(s, m - 1, S) \in Nat
        /\ Count(s, m, S) <= Len(Kept(s, S))
    BY <1>3, <2>1, KeptAt
  <2>3. Count(s, k, S) <= Count(s, m - 1, S)
    BY <2>1, CountGrows
  <2> QED
    BY <1>1, <2>2, <2>3
<1> QED
  BY <1>2, <1>3

\* An element that is not in S is not counted.
LEMMA CountSame ==
  ASSUME NEW T, NEW s \in Seq(T), NEW S, NEW n \in 1..Len(s), s[n] \notin S
  PROVE  Count(s, n, S) = Count(s, n - 1, S)
<1>1. /\ \A i \in 0..Len(s) : Count(s, i, S) \in Nat
      /\ \A i \in 1..Len(s) : Count(s, i, S) = Count(s, i - 1, S) + Num(s[i] \in S)
      /\ Len(s) \in Nat
  BY CountNext
<1>2. n - 1 \in 0..Len(s)
  BY <1>1
<1> QED
  BY <1>1, <1>2 DEF Num

-----------------------------------------------------------------------------
(***************************************************************************)
(* Indicators are only ever added.                                         *)
(***************************************************************************)

LEMMA ShownGrows ==
  ASSUME NEW s, Ordered(s), NEW n \in 0..Len(s)
  PROVE  ShownIn(s, n) \in Int /\ \A m \in 0..n : ShownIn(s, m) <= ShownIn(s, n)
<1> DEFINE c(i) == ShownIn(s, i)
           N == Len(s)
           more(i) == ShownBy(s[i], DueDahai(s, i - 1), DueDraw(s, i - 1))
<1>1. s \in Seq(RoundEvents) /\ N \in Nat /\ Chain(s) /\ \A i \in 1..N : Orderly(s, i - 1, s[i])
  BY LenProperties DEF Ordered, Chain
<1>2. ASSUME NEW i \in 0..N PROVE c(i) \in Int
  <2>1. Len(Kept(First(s, i), KanEvents)) \in Nat
    <3> DEFINE S == KanEvents
    <3> HIDE DEF S
    <3>1. Kept(First(s, i), S) \in Seq(RoundEvents \cap S)
      BY <1>1, FirstKept
    <3>2. Len(Kept(First(s, i), S)) \in Nat
      BY <3>1, LenProperties
    <3> QED
      BY <3>2 DEF S
  <2> QED
    BY <2>1 DEF ShownIn, KansUpTo, Num
<1>3. ASSUME NEW i \in 1..N PROVE c(i) = c(i - 1) + more(i) /\ more(i) \in Nat
  <2>1. s[i].type = "reach" => ~DueDahai(s, i - 1)
    BY <1>1 DEF Orderly
  <2>2. c(i) = c(i - 1) + more(i)
    BY <1>1, <2>1, DueNext
  <2>3. more(i) \in Nat
    BY DEF ShownBy, Num
  <2> QED
    BY <2>2, <2>3
<1>4. n \in 0..N /\ n \in Nat
  BY <1>1
<1> HIDE DEF c, N, more
<1> DEFINE Q == {k \in 0..n : \A m \in 0..k : c(m) <= c(k)}
<1>5. 0 \in Q
  <2>1. c(0) \in Int /\ c(0) <= c(0)
    BY <1>1, <1>2
  <2> QED
    BY <1>4, <2>1
<1>6. ASSUME NEW k \in 1..n, k - 1 \in Q PROVE k \in Q
  <2>1. k \in 1..N /\ k - 1 \in 0..N /\ k \in 0..N
    BY <1>1, <1>4
  <2>2. c(k) = c(k - 1) + more(k) /\ c(k) \in Int /\ c(k - 1) \in Int /\ more(k) \in Nat
    BY <1>2, <1>3, <2>1
  <2>3. c(k - 1) <= c(k)
    BY <2>2
  <2>4. ASSUME NEW m \in 0..k PROVE c(m) <= c(k)
    <3>1. m = k \/ m \in 0..(k - 1)
      OBVIOUS
    <3>2. CASE m \in 0..(k - 1)
      <4>1. c(m) <= c(k - 1)
        BY <1>6, <3>2
      <4>2. c(m) \in Int
        BY <1>1, <1>2, <1>4, <2>1, <3>2
      <4> QED
        BY <2>2, <2>3, <4>1, <4>2
    <3> QED
      BY <2>2, <3>1, <3>2
  <2> QED
    BY <2>1, <2>4
<1>7. 0..n \subseteq Q
  <2> HIDE DEF Q
  <2> QED
    BY <1>4, <1>5, <1>6, UpTo
<1>8. c(n) \in Int /\ \A m \in 0..n : c(m) <= c(n)
  BY <1>2, <1>4, <1>7
<1> QED
  BY <1>8 DEF c

-----------------------------------------------------------------------------
(***************************************************************************)
(* The turns of a round that is over.                                      *)
(***************************************************************************)

RoundOver(s, shown) ==
  /\ Ordered(s) /\ Len(s) > 0 /\ s[Len(s)].type \in {"tsumo", "dahai", "kakan"}
  /\ ShownIn(s, Len(s)) = shown - 1 /\ shown \in Nat \ {0}

LEMMA OverIs == RoundInv /\ PlayedInv /\ TurnsInv /\ Over => RoundOver(played, indicators)
<1> SUFFICES ASSUME RoundInv, PlayedInv, TurnsInv, Over PROVE RoundOver(played, indicators)
  OBVIOUS
<1>1. Ordered(played) /\ TableFits(played, table, indicators) /\ indicators \in Nat \ {0}
  BY DEF TurnsInv, RoundInv
<1>2. LastFits(played, table) /\ played \in Seq(RoundEvents) /\ table.stage = "over"
  BY DEF PlayedInv, Chain, Over
<1>3. LastIs(played, IF table.byDraw THEN {"tsumo"} ELSE {"dahai", "kakan"}, table.seat)
  BY <1>2 DEF LastFits
<1>4. played # << >> /\ played[Len(played)].type \in {"tsumo", "dahai", "kakan"}
  BY <1>3 DEF LastIs
<1>5. Len(played) > 0
  BY <1>2, <1>4, EmptySeq, LenProperties
<1>6. ShownIn(played, Len(played)) = indicators - 1
  BY <1>1 DEF TableFits
<1> QED
  BY <1>1, <1>4, <1>5, <1>6 DEF RoundOver

LEMMA EventAt ==
  ASSUME NEW s, Ordered(s), NEW n \in 1..Len(s)
  PROVE  /\ s \in Seq(RoundEvents) /\ Len(s) \in Nat /\ s[n] \in RoundEvents
         /\ s[n].type \in {"tsumo", "dahai", "reach", "reach_accepted", "ankan", "kakan",
                           "chi", "pon", "daiminkan"}
         /\ Orderly(s, n - 1, s[n])
         /\ n = 1 => s[n].type = "tsumo" /\ s[n].actor = 0
         /\ n < Len(s) => /\ s[n + 1] \in RoundEvents
                          /\ Follows(s[n], s[n + 1]) /\ Orderly(s, n, s[n + 1])
<1>1. s \in Seq(RoundEvents) /\ Len(s) \in Nat /\ Chain(s) /\ \A i \in 1..Len(s) : Orderly(s, i - 1, s[i])
  BY LenProperties DEF Ordered, Chain
<1>2. \A i \in 1..Len(s) : s[i] \in RoundEvents
  BY <1>1, ElementOfSeq
<1>3. s[n].type \in {"tsumo", "dahai", "reach", "reach_accepted", "ankan", "kakan", "chi", "pon", "daiminkan"}
  BY <1>2 DEF RoundEvents, Nakis
<1>4. n = 1 => s[n].type = "tsumo" /\ s[n].actor = 0
  <2> SUFFICES ASSUME n = 1 PROVE s[n].type = "tsumo" /\ s[n].actor = 0
    OBVIOUS
  <2>1. s # << >>
    BY <1>1, EmptySeq
  <2>2. Orderly(s, 0, s[1])
    BY <1>1
  <2> QED
    BY <1>1, <2>1, <2>2 DEF Chain, Orderly
<1>5. n < Len(s) => /\ s[n + 1] \in RoundEvents
                    /\ Follows(s[n], s[n + 1]) /\ Orderly(s, n, s[n + 1])
  <2> SUFFICES ASSUME n < Len(s)
               PROVE  s[n + 1] \in RoundEvents /\ Follows(s[n], s[n + 1]) /\ Orderly(s, n, s[n + 1])
    OBVIOUS
  <2> DEFINE m == n + 1
  <2>1. m \in 2..Len(s) /\ m \in 1..Len(s) /\ m - 1 = n
    BY <1>1
  <2> HIDE DEF m
  <2>2. Follows(s[m - 1], s[m]) /\ Orderly(s, m - 1, s[m])
    BY <1>1, <2>1 DEF Chain
  <2> QED
    BY <1>2, <2>1, <2>2 DEF m
<1> QED
  BY <1>1, <1>2, <1>3, <1>4, <1>5

\* A dahai is discarded by its actor.
LEMMA DahaiAt ==
  ASSUME NEW s, Ordered(s), NEW n \in 1..Len(s), s[n].type = "dahai"
  PROVE  s[n] = Event("dahai", s[n].actor, s[n].actor, s[n].pai) /\ s[n].pai \in Tiles
<1>1. s[n] \in RoundEvents /\ Orderly(s, n - 1, s[n])
  BY EventAt
<1>2. s[n].target = s[n].actor /\ s[n].pai \in Tiles
  BY <1>1 DEF Orderly
<1>3. s[n] \in [type : {"tsumo", "dahai", "reach", "reach_accepted", "ankan", "kakan"} \cup Nakis,
                actor : Seats, target : Seats, pai : Tiles \cup {Other}]
  BY <1>1 DEF RoundEvents
<1>4. s[n] = [type |-> s[n].type, actor |-> s[n].actor, target |-> s[n].target, pai |-> s[n].pai]
  BY <1>3
<1> QED
  BY <1>2, <1>4 DEF Event

\* A call answers the dahai before it, or before the acceptance of a reach.
LEMMA NakiAnswers ==
  ASSUME NEW s, Ordered(s), NEW k \in 1..Len(s), s[k].type \in Nakis
  PROVE  /\ s[k].actor # s[k].target
         /\ \E d \in 1..(k - 1) :
              /\ s[d] = Event("dahai", s[k].target, s[k].target, s[k].pai)
              /\ d = k - 1 \/ (d = k - 2 /\ Reached(s, d))
<1> DEFINE y == s[k]
           n == k - 1
<1>1. k # 1
  <2>1. k = 1 => s[k].type = "tsumo"
    BY EventAt
  <2> QED
    BY <2>1 DEF Nakis
<1>2. n \in 1..Len(s) /\ n < Len(s) /\ n + 1 = k /\ n \in Nat /\ Len(s) \in Nat
  <2>1. Len(s) \in Nat
    BY EventAt
  <2> QED
    BY <1>1, <2>1
<1> HIDE DEF n
<1>3. /\ s[n].type \in {"tsumo", "dahai", "reach", "reach_accepted", "ankan", "kakan", "chi", "pon", "daiminkan"}
      /\ Follows(s[n], s[n + 1]) /\ Orderly(s, n, s[n + 1])
      /\ s[n] \in RoundEvents /\ (n = 1 => s[n].type = "tsumo")
  BY <1>2, EventAt
<1>4. Follows(s[n], y) /\ Orderly(s, n, y) /\ y.type \in {"chi", "pon", "daiminkan"}
  BY <1>2, <1>3 DEF Nakis
<1> HIDE DEF y
<1>5. s[n].type \in {"dahai", "reach_accepted"}
  BY <1>3, <1>4 DEF Follows
<1>6. CASE s[n].type = "dahai"
  <2>1. ~Reached(s, n)
    <3>1. Event("reach_accepted", s[n].actor, s[n].actor, Other).type = "reach_accepted"
      BY DEF Event
    <3> QED
      BY <1>2, <1>4, <1>6, <3>1 DEF Orderly
  <2>2. AfterDahai(s[n], y)
    BY <1>2, <1>4, <1>6, <2>1 DEF Orderly
  <2>3. y.target = s[n].actor /\ y.pai = s[n].pai /\ y.actor # s[n].actor
    BY <1>4, <2>2 DEF AfterDahai, Nakis
  <2>4. s[n] = Event("dahai", s[n].actor, s[n].actor, s[n].pai)
    BY <1>2, <1>6, DahaiAt
  <2>5. n \in 1..(k - 1) /\ n = k - 1
    BY <1>2
  <2> QED
    BY <2>3, <2>4, <2>5 DEF y
<1>7. CASE s[n].type = "reach_accepted"
  <2> DEFINE d == n - 1
  <2>1. d \in 1..Len(s) /\ d < Len(s) /\ d + 1 = n /\ d \in 1..(k - 1) /\ d = k - 2
    BY <1>2, <1>3, <1>7
  <2>2. AfterDahai(s[d], y)
    BY <1>2, <1>4, <1>7 DEF Orderly
  <2> HIDE DEF d
  <2>3. /\ s[d].type \in {"tsumo", "dahai", "reach", "reach_accepted", "ankan", "kakan", "chi", "pon", "daiminkan"}
        /\ Follows(s[d], s[n]) /\ Orderly(s, d, s[n])
    <3>1. /\ s[d].type \in {"tsumo", "dahai", "reach", "reach_accepted", "ankan", "kakan", "chi", "pon", "daiminkan"}
          /\ Follows(s[d], s[d + 1]) /\ Orderly(s, d, s[d + 1])
      BY <2>1, EventAt
    <3> QED
      BY <2>1, <3>1
  <2>4. s[d].type = "dahai"
    BY <1>7, <2>3 DEF Follows, Nakis
  <2>5. Reached(s, d)
    BY <1>7, <2>1, <2>3, <2>4 DEF Orderly
  <2>6. y.target = s[d].actor /\ y.pai = s[d].pai /\ y.actor # s[d].actor
    BY <1>4, <2>2 DEF AfterDahai, Nakis
  <2>7. s[d] = Event("dahai", s[d].actor, s[d].actor, s[d].pai)
    BY <2>1, <2>4, DahaiAt
  <2> QED
    BY <2>1, <2>5, <2>6, <2>7 DEF y
<1> QED
  BY <1>5, <1>6, <1>7

\* Where the next take is.
NextAt(s, n) == IF Reached(s, n) THEN n + 2 ELSE n + 1
AcceptedAt(s, n) ==
  IF Reached(s, n) THEN <<Event("reach_accepted", s[n].actor, s[n].actor, Other)>> ELSE << >>

LEMMA Onward ==
  ASSUME NEW s, NEW shown, RoundOver(s, shown), NEW n \in 0..Len(s), n < Len(s),
         n > 0 => s[n].type \in {"dahai", "ankan", "kakan", "daiminkan"}
  PROVE  LET k == NextAt(s, n)
             y == s[k]
         IN /\ k \in 1..Len(s) /\ k \in {n + 1, n + 2} /\ y \in RoundEvents /\ y.type \in TakeTypes
            /\ n = 0 => y.type = "tsumo" /\ y.actor = 0
            /\ n > 0 /\ s[n].type # "dahai" => y.type = "tsumo" /\ y.actor = s[n].actor
            /\ n > 0 /\ s[n].type = "dahai" => AfterDahai(s[n], y)
            /\ Reached(s, n) => s[n + 1] = Event("reach_accepted", s[n].actor, s[n].actor, Other)
            /\ DueDahai(s, k - 1) = DueDahai(s, n) /\ DueDraw(s, k - 1) = DueDraw(s, n)
            /\ ShownIn(s, k - 1) = ShownIn(s, n)
            /\ Reached(s, n) => n > 0 /\ s[n].type = "dahai"
<1> DEFINE N == Len(s)
           k == NextAt(s, n)
           y == s[k]
           r == Event("reach_accepted", s[n].actor, s[n].actor, Other)
<1>1. Ordered(s) /\ s[N].type \in {"tsumo", "dahai", "kakan"} /\ N > 0
  BY DEF RoundOver
<1>2. N \in Nat /\ n \in Nat /\ s \in Seq(RoundEvents)
  BY <1>1, LenProperties DEF Ordered, Chain
<1>3. Reached(s, n) => n > 1 /\ s[n].type = "dahai"
  BY DEF Reached
<1>4. \A i \in 1..N : /\ s[i] \in RoundEvents
                      /\ s[i].type \in {"tsumo", "dahai", "reach", "reach_accepted", "ankan", "kakan",
                                        "chi", "pon", "daiminkan"}
                      /\ i < N => Follows(s[i], s[i + 1]) /\ Orderly(s, i, s[i + 1])
                      /\ i = 1 => s[i].type = "tsumo" /\ s[i].actor = 0
  BY <1>1, EventAt
<1> HIDE DEF N
<1>5. CASE n = 0
  <2>1. k = 1 /\ 1 \in 1..N /\ k - 1 = n
    BY <1>1, <1>2, <1>3, <1>5 DEF NextAt
  <2>2. y.type = "tsumo" /\ y.actor = 0 /\ y \in RoundEvents
    BY <1>4, <2>1
  <2> HIDE DEF k
  <2> QED
    BY <1>3, <1>5, <2>1, <2>2 DEF TakeTypes, k, N
<1>6. CASE n > 0 /\ ~Reached(s, n)
  <2>1. k = n + 1 /\ k \in 1..N /\ n \in 1..N /\ k - 1 = n /\ n < N
    BY <1>2, <1>6 DEF NextAt, N
  <2>2. y \in RoundEvents /\ Follows(s[n], y) /\ Orderly(s, n, y)
        /\ y.type \in {"tsumo", "dahai", "reach", "reach_accepted", "ankan", "kakan", "chi", "pon", "daiminkan"}
    BY <1>4, <2>1
  <2> HIDE DEF k
  <2>3. CASE s[n].type = "dahai"
    <3>1. y.type # "reach_accepted" /\ AfterDahai(s[n], y)
      BY <1>6, <2>2, <2>3 DEF Orderly
    <3>2. y.type \in TakeTypes
      BY <2>2, <2>3, <3>1 DEF Follows, TakeTypes
    <3> QED
      BY <1>6, <2>1, <2>2, <2>3, <3>1, <3>2 DEF k, N
  <2>4. CASE s[n].type \in {"ankan", "kakan", "daiminkan"}
    <3>1. y.type = "tsumo"
      BY <2>2, <2>4 DEF Follows
    <3>2. y.actor = s[n].actor
      BY <1>6, <2>2, <2>4 DEF Orderly
    <3> QED
      BY <1>6, <2>1, <2>2, <2>4, <3>1, <3>2 DEF k, N, TakeTypes
  <2> QED
    BY <1>6, <2>3, <2>4
<1>7. CASE Reached(s, n)
  <2> DEFINE m == n + 1
  <2>1. n \in 1..N /\ n < N /\ n > 0 /\ m \in 1..N /\ s[n].type = "dahai"
    BY <1>2, <1>3, <1>7 DEF N
  <2>2. s[m] = r
    <3>1. Orderly(s, n, s[n + 1])
      BY <1>4, <2>1
    <3> QED
      BY <1>7, <2>1, <3>1 DEF Orderly
  <2>3. s[m].type = "reach_accepted" /\ m # N
    BY <1>1, <2>2 DEF Event, N
  <2>4. m < N /\ k = m + 1 /\ k \in 1..N /\ m > 1 /\ k - 1 = m /\ m - 1 = n /\ k = n + 2
    BY <1>2, <1>7, <2>1, <2>3 DEF NextAt
  <2>5. y \in RoundEvents /\ Follows(s[m], y) /\ Orderly(s, m, y)
    BY <1>4, <2>1, <2>4
  <2>6. y.type \in TakeTypes
    BY <2>3, <2>5 DEF Follows, TakeTypes
  <2> HIDE DEF k, m, r, y
  <2>7. AfterDahai(s[n], y)
    BY <2>3, <2>4, <2>5 DEF Orderly
  <2>8. ~DueDahai(s, n) /\ ~DueDraw(s, n)
    BY <2>1 DEF DueDahai, DueDraw, OpenKans
  <2>9. /\ DueDahai(s, m) <=> \/ s[m].type \in OpenKans
                              \/ s[m].type = "tsumo" /\ DueDahai(s, m - 1)
        /\ DueDraw(s, m) <=> s[m].type = "kakan" /\ DueDahai(s, m - 1)
        /\ ShownIn(s, m) = ShownIn(s, m - 1) + ShownBy(s[m], DueDahai(s, m - 1), DueDraw(s, m - 1))
    <3>1. Chain(s) /\ s[m].type # "reach" /\ m \in 1..Len(s)
      BY <1>1, <2>1, <2>3 DEF Ordered, N
    <3> QED
      BY <3>1, DueNext
  <2>10. ~DueDahai(s, m) /\ ~DueDraw(s, m)
    BY <2>3, <2>9 DEF OpenKans
  <2>11. ShownIn(s, m) = ShownIn(s, n)
    <3>1. ShownBy(s[m], DueDahai(s, m - 1), DueDraw(s, m - 1)) = 0
      BY <2>3 DEF ShownBy, Num
    <3>2. ShownIn(s, n) \in Int
      BY <1>1, ShownGrows
    <3> QED
      BY <2>4, <2>9, <3>1, <3>2
  <2>12. DueDahai(s, k - 1) = DueDahai(s, n) /\ DueDraw(s, k - 1) = DueDraw(s, n)
    BY <2>4, <2>8, <2>10 DEF DueDahai, DueDraw
  <2>13. ShownIn(s, k - 1) = ShownIn(s, n)
    BY <2>4, <2>11
  <2>14. s[n + 1] = r
    BY <2>2 DEF m
  <2> QED
    BY <2>1, <2>4, <2>5, <2>6, <2>7, <2>12, <2>13, <2>14 DEF k, y, N, r
<1> QED
  BY <1>2, <1>5, <1>6, <1>7

\* Nothing but the acceptance of a reach comes before the next take.
LEMMA NextOnward ==
  ASSUME NEW s, NEW shown, RoundOver(s, shown), NEW n \in 0..Len(s), n < Len(s),
         n > 0 => s[n].type \in {"dahai", "ankan", "kakan", "daiminkan"}
  PROVE  LET k == NextAt(s, n)
         IN /\ AcceptedAt(s, n) \in Seq(RoundEvents)
            /\ First(s, k) = (First(s, n) \o AcceptedAt(s, n)) \o <<s[k]>>
            /\ \A a \in Seats, types \in {TakeTypes, PutTypes} :
                 Count(s, k - 1, By(a, types)) = Count(s, n, By(a, types))
<1> DEFINE k == NextAt(s, n)
           r == Event("reach_accepted", s[n].actor, s[n].actor, Other)
<1>1. /\ k \in 1..Len(s) /\ s[k] \in RoundEvents
      /\ Reached(s, n) => s[n + 1] = r
  BY Onward
<1>2. s \in Seq(RoundEvents) /\ Len(s) \in Nat /\ n \in Nat
  BY LenProperties DEF RoundOver, Ordered, Chain
<1>3. /\ \A i \in 0..Len(s) : First(s, i) \in Seq(RoundEvents)
      /\ \A i \in 1..Len(s) : s[i] \in RoundEvents /\ First(s, i) = Append(First(s, i - 1), s[i])
  BY <1>2, Firsts
<1>4. CASE ~Reached(s, n)
  <2>1. k = n + 1 /\ k - 1 = n /\ AcceptedAt(s, n) = << >> /\ n \in 0..Len(s)
    BY <1>2, <1>4 DEF NextAt, AcceptedAt
  <2> DEFINE f == First(s, n)
  <2>2. f \in Seq(RoundEvents) /\ First(s, k) = Append(f, s[k])
    BY <1>1, <1>3, <2>1
  <2> HIDE DEF f, k
  <2>3. f \o << >> = f /\ f \o <<s[k]>> = Append(f, s[k])
    BY <1>1, <2>2, Lengthened
  <2>4. << >> \in Seq(RoundEvents)
    BY EmptySeq
  <2> QED
    BY <2>1, <2>2, <2>3, <2>4 DEF f, k
<1>5. CASE Reached(s, n)
  <2> DEFINE f == First(s, n)
             m == n + 1
  <2>1. k = n + 2 /\ AcceptedAt(s, n) = <<r>> /\ n \in 0..Len(s) /\ m = n + 1
    BY <1>5 DEF NextAt, AcceptedAt
  <2>2. k - 1 = m /\ m - 1 = n /\ m \in 1..Len(s) /\ s[m] = r
    BY <1>1, <1>2, <1>5, <2>1
  <2> HIDE DEF r, f, k, m
  <2>3. r \in RoundEvents /\ f \in Seq(RoundEvents) /\ First(s, m) = Append(f, r)
    BY <1>3, <2>1, <2>2 DEF f
  <2>4. First(s, k) = Append(Append(f, r), s[k])
    BY <1>1, <1>3, <2>2, <2>3
  <2> DEFINE g == Append(f, r)
  <2>5. f \o <<r>> = g /\ g \in Seq(RoundEvents)
    BY <2>3, Appended, Lengthened
  <2> HIDE DEF g
  <2>6. g \o <<s[k]>> = Append(g, s[k])
    BY <1>1, <2>5, Lengthened
  <2>7. <<r>> \in Seq(RoundEvents)
    BY <2>3
  <2>8. ASSUME NEW a \in Seats, NEW types \in {TakeTypes, PutTypes}
        PROVE  Count(s, k - 1, By(a, types)) = Count(s, n, By(a, types))
    <3> DEFINE S == By(a, types)
    <3>1. s[m] \notin S
      BY <2>2 DEF r, Event, By, TakeTypes, PutTypes, Nakis
    <3> HIDE DEF S
    <3>2. Count(s, m, S) = Count(s, m - 1, S)
      BY <1>2, <2>2, <3>1, CountSame
    <3> QED
      BY <2>2, <3>2 DEF S
  <2> QED
    BY <2>1, <2>4, <2>5, <2>6, <2>7, <2>8 DEF g, f, k
<1> QED
  BY <1>4, <1>5

-----------------------------------------------------------------------------
(***************************************************************************)
(* An attempt without a guess keeps to the round as it was played.         *)
(***************************************************************************)

Searches ==
  [takes : [Seats -> Seq(RoundEvents)], discards : [Seats -> Seq(RoundEvents)],
   events : Seq(RoundEvents \cup {Dora}), doraFeed : Int,
   takeIdx : [Seats -> Nat], discardIdx : [Seats -> Nat],
   reach : Seats \cup {Nobody}, lastDiscard : Tiles \cup {Other},
   lastActor : Seats \cup {Nobody},
   doraAtDiscard : BOOLEAN, doraAtTsumo : BOOLEAN, actor : Seats]

\* what the actor does next goes with the event n
Continues(s, n, x, ph) ==
  /\ ph = "take" =>
       LET y == s[NextAt(s, n)]
       IN /\ n < Len(s) /\ (n > 0 => s[n].type \in {"dahai", "ankan", "kakan", "daiminkan"})
          /\ y.actor = x.actor
          /\ y.type \in Nakis => x.lastDiscard = y.pai /\ x.lastActor = y.target
  /\ ph = "discard" =>
       0 < n /\ n < Len(s) /\ s[n].type \in {"tsumo", "chi", "pon"} /\ s[n].actor = x.actor
  /\ ph = "next" =>
       0 < n /\ n < Len(s) /\ s[n].type = "dahai" /\ s[n].actor = x.actor /\ x.lastDiscard = s[n].pai
  /\ ph = "done" => n = Len(s)

\* The attempt has come to the event n of the round s.
Track(s, n, shown, x, ph) ==
  /\ x \in Searches /\ n \in 0..Len(s)
  /\ Kept(x.events, RoundEvents) = First(s, n)
  /\ \A a \in Seats :
       /\ x.takes[a] = Kept(s, By(a, TakeTypes)) /\ x.discards[a] = Kept(s, By(a, PutTypes))
       /\ x.takeIdx[a] = Count(s, n, By(a, TakeTypes))
       /\ x.discardIdx[a] = Count(s, n, By(a, PutTypes))
  /\ x.reach = IF Reached(s, n) THEN s[n].actor ELSE Nobody
  /\ ph # "done" => /\ x.doraAtDiscard = DueDahai(s, n) /\ x.doraAtTsumo = DueDraw(s, n)
                    /\ x.doraFeed = shown - 1 - ShownIn(s, n)
  /\ Continues(s, n, x, ph)

LEMMA SearchTaken ==
  ASSUME NEW x \in Searches
  PROVE  LET y == Taken(x)
             accepted == IF x.reach = Nobody THEN << >>
                         ELSE <<Event("reach_accepted", x.reach, x.reach, Other)>>
         IN /\ DOMAIN y = DOMAIN x /\ y.takes = x.takes /\ y.discards = x.discards
            /\ y.events = x.events \o accepted \o Reveal(ShownAtTake(x)) \o <<TakeOf(x)>>
            /\ y.doraFeed = x.doraFeed - ShownAtTake(x)
            /\ y.takeIdx = [x.takeIdx EXCEPT ![x.actor] = x.takeIdx[x.actor] + 1]
            /\ y.discardIdx = x.discardIdx /\ y.reach = Nobody
            /\ y.lastDiscard = x.lastDiscard /\ y.lastActor = x.lastActor
            /\ y.doraAtDiscard = (x.doraAtDiscard \/ TakeOf(x).type = "daiminkan")
            /\ y.doraAtTsumo = (x.doraAtTsumo /\ TakeOf(x).type # "tsumo")
            /\ y.actor = x.actor
  BY DEF Taken, Searches

LEMMA SearchThrown ==
  ASSUME NEW x \in Searches
  PROVE  LET y == Thrown(x)
             discard == DiscardOf(x)
             last == Last(Group(x))
         IN /\ DOMAIN y = DOMAIN x /\ y.takes = x.takes /\ y.discards = x.discards
            /\ y.events = x.events \o Reveal(ShownBefore(x)) \o Group(x) \o Reveal(ShownAfter(x))
            /\ y.doraFeed = x.doraFeed - ShownBefore(x) - ShownAfter(x)
            /\ y.takeIdx = x.takeIdx
            /\ y.discardIdx = [x.discardIdx EXCEPT ![x.actor] = x.discardIdx[x.actor] + Len(Group(x))]
            /\ y.reach = IF discard.type = "reach" THEN x.actor ELSE x.reach
            /\ y.lastDiscard = IF last.type = "dahai" THEN last.pai ELSE x.lastDiscard
            /\ y.lastActor = x.lastActor
            /\ y.doraAtTsumo = (x.doraAtTsumo \/ (x.doraAtDiscard /\ discard.type = "kakan"))
            /\ y.doraAtDiscard = (\/ x.doraAtDiscard /\ ~DueAtDiscard(x, discard)
                                  \/ discard.type = "kakan" /\ ~NoTakesLeft(x))
            /\ y.actor = x.actor
  BY DEF Thrown, Searches

LEMMA SearchPassed ==
  ASSUME NEW x \in Searches, NEW a \in Seats
  PROVE  LET y == PassTo(x, a)
         IN /\ y \in Searches /\ y.takes = x.takes /\ y.discards = x.discards /\ y.actor = a
            /\ y.events = x.events /\ y.doraFeed = x.doraFeed
            /\ y.takeIdx = x.takeIdx /\ y.discardIdx = x.discardIdx
            /\ y.reach = x.reach /\ y.lastDiscard = x.lastDiscard /\ y.lastActor = x.actor
            /\ y.doraAtTsumo = x.doraAtTsumo /\ y.doraAtDiscard = x.doraAtDiscard
  BY DEF PassTo, Searches

LEMMA SearchType ==
  ASSUME NEW x \in Searches, NEW y, y = [f \in DOMAIN x |-> y[f]],
         y.takes = x.takes, y.discards = x.discards, y.lastActor = x.lastActor, y.actor = x.actor,
         y.events \in Seq(RoundEvents \cup {Dora}), y.doraFeed \in Int,
         y.takeIdx \in [Seats -> Nat], y.discardIdx \in [Seats -> Nat],
         y.reach \in Seats \cup {Nobody}, y.lastDiscard \in Tiles \cup {Other},
         y.doraAtDiscard \in BOOLEAN, y.doraAtTsumo \in BOOLEAN
  PROVE  y \in Searches
  BY DEF Searches

\* Indicators between the events do not count.
LEMMA Revealed ==
  ASSUME NEW n \in {0, 1}
  PROVE  Reveal(n) \in Seq(RoundEvents \cup {Dora}) /\ Kept(Reveal(n), RoundEvents) = << >>
<1>1. Dora \notin RoundEvents
  BY DEF Dora, Event, RoundEvents, Nakis
<1>2. Reveal(n) \in Seq({Dora})
  BY DEF Reveal
<1>3. Kept(Reveal(n), RoundEvents) = << >>
  <2> DEFINE S == RoundEvents
             T == {Dora}
  <2>1. \A z \in T : z \notin S
    BY <1>1
  <2> HIDE DEF S, T
  <2>2. \A t \in Seq(T) : Kept(t, S) = << >>
    BY <2>1, KeptNone
  <2> QED
    BY <1>2, <2>2 DEF S, T
<1>4. Reveal(n) \in Seq(RoundEvents \cup {Dora})
  <2>1. {Dora} \subseteq RoundEvents \cup {Dora}
    OBVIOUS
  <2> QED
    BY <1>2, <2>1, SeqMonotonic
<1> QED
  BY <1>3, <1>4

LEMMA EventsAdded ==
  ASSUME NEW ev \in Seq(RoundEvents \cup {Dora}), NEW p \in Seq(RoundEvents), NEW n \in {0, 1},
         NEW q \in Seq(RoundEvents)
  PROVE  /\ ev \o p \o Reveal(n) \o q \in Seq(RoundEvents \cup {Dora})
         /\ Kept(ev \o p \o Reveal(n) \o q, RoundEvents) = (Kept(ev, RoundEvents) \o p) \o q
<1> DEFINE S == RoundEvents
           M == S \cup {Dora}
           u == Reveal(n)
           K(t) == Kept(t, S)
<1>1. u \in Seq(M) /\ K(u) = << >> /\ ev \in Seq(M) /\ p \in Seq(S) /\ q \in Seq(S)
  BY Revealed
<1> HIDE DEF S, u
<1>2. p \in Seq(M) /\ q \in Seq(M)
  <2>1. S \subseteq M
    OBVIOUS
  <2> HIDE DEF M
  <2> QED
    BY <1>1, <2>1, SeqMonotonic
<1>3. K(p) = p /\ K(q) = q
  BY <1>1, KeptAll
<1> HIDE DEF M
<1>4. ASSUME NEW s \in Seq(M), NEW t \in Seq(M) PROVE K(s \o t) = K(s) \o K(t) /\ s \o t \in Seq(M)
  BY KeptConcat, ConcatProperties
<1>5. ASSUME NEW s \in Seq(M) PROVE K(s) \in Seq(M \cap S)
  BY KeptElements
<1>6. ASSUME NEW s \in Seq(M) PROVE K(s) \o << >> = K(s)
  BY <1>5, ConcatEmptySeq
<1> HIDE DEF K
<1>7. K(ev \o p) = K(ev) \o p /\ ev \o p \in Seq(M)
  BY <1>1, <1>2, <1>3, <1>4
<1>8. K((ev \o p) \o u) = K(ev) \o p /\ (ev \o p) \o u \in Seq(M)
  BY <1>1, <1>4, <1>6, <1>7
<1>9. K(((ev \o p) \o u) \o q) = (K(ev) \o p) \o q /\ ((ev \o p) \o u) \o q \in Seq(M)
  BY <1>2, <1>3, <1>4, <1>8
<1> QED
  BY <1>9 DEF K, M, S, u

LEMMA EventsPut ==
  ASSUME NEW ev \in Seq(RoundEvents \cup {Dora}), NEW n \in {0, 1},
         NEW q \in Seq(RoundEvents), NEW m \in {0, 1}
  PROVE  /\ ev \o Reveal(n) \o q \o Reveal(m) \in Seq(RoundEvents \cup {Dora})
         /\ Kept(ev \o Reveal(n) \o q \o Reveal(m), RoundEvents) = Kept(ev, RoundEvents) \o q
<1> DEFINE S == RoundEvents
           M == S \cup {Dora}
           u == ev \o Reveal(n) \o q
           v == Reveal(m)
           p == << >>
           K(t) == Kept(t, S)
<1>1. p \in Seq(RoundEvents)
  BY EmptySeq
<1> HIDE DEF p
<1>2. /\ ev \o p \o Reveal(n) \o q \in Seq(RoundEvents \cup {Dora})
      /\ Kept(ev \o p \o Reveal(n) \o q, RoundEvents) = (Kept(ev, RoundEvents) \o p) \o q
  BY <1>1, EventsAdded
<1> HIDE DEF S
<1>3. ASSUME NEW s \in Seq(M), NEW t \in Seq(M) PROVE K(s \o t) = K(s) \o K(t) /\ s \o t \in Seq(M)
  BY KeptConcat, ConcatProperties
<1>4. ASSUME NEW s \in Seq(M) PROVE K(s) \in Seq(M \cap S)
  BY KeptElements
<1>5. ASSUME NEW s \in Seq(M) PROVE K(s) \o << >> = K(s)
  BY <1>4, ConcatEmptySeq
<1> HIDE DEF K
<1>6. ev \in Seq(M) /\ v \in Seq(M) /\ K(v) = << >>
  BY Revealed DEF M, K, S
<1>7. ev \o p = ev /\ K(ev) \o p = K(ev)
  <2>1. K(ev) \in Seq(M \cap S)
    BY <1>6, <1>4
  <2> QED
    BY <1>6, <2>1, ConcatEmptySeq DEF p
<1>8. u \in Seq(M) /\ K(u) = K(ev) \o q
  BY <1>2, <1>7 DEF K, M, S
<1> HIDE DEF u, v
<1>9. K(u \o v) = K(ev) \o q /\ u \o v \in Seq(M)
  <2>1. K(u \o v) = K(u) \o << >> /\ u \o v \in Seq(M)
    BY <1>6, <1>3, <1>8
  <2> QED
    BY <1>5, <1>8, <2>1
<1> QED
  BY <1>9 DEF K, M, S, u, v

LEMMA TrackTaken ==
  ASSUME NEW s, NEW shown, RoundOver(s, shown), NEW n, NEW x, Track(s, n, shown, x, "take")
  PROVE  LET ph == PhaseAfterTake(x)
         IN /\ ~TakeFails(x) /\ ph \in {"take", "discard", "done"}
            /\ Track(s, NextAt(s, n), shown, Taken(x), ph)
<1> DEFINE N == Len(s)
           k == NextAt(s, n)
           y == s[k]
           a == x.actor
           S == By(a, TakeTypes)
           z == Taken(x)
           D == DueDahai(s, n)
           W == DueDraw(s, n)
<1>1. /\ x \in Searches /\ n \in 0..N /\ n < N
      /\ Kept(x.events, RoundEvents) = First(s, n)
      /\ \A b \in Seats :
           /\ x.takes[b] = Kept(s, By(b, TakeTypes)) /\ x.discards[b] = Kept(s, By(b, PutTypes))
           /\ x.takeIdx[b] = Count(s, n, By(b, TakeTypes))
           /\ x.discardIdx[b] = Count(s, n, By(b, PutTypes))
      /\ x.reach = (IF Reached(s, n) THEN s[n].actor ELSE Nobody)
      /\ x.doraAtDiscard = D /\ x.doraAtTsumo = W
      /\ x.doraFeed = shown - 1 - ShownIn(s, n)
      /\ n > 0 => s[n].type \in {"dahai", "ankan", "kakan", "daiminkan"}
      /\ y.actor = a
      /\ y.type \in Nakis => x.lastDiscard = y.pai /\ x.lastActor = y.target
  BY DEF Track, Continues
<1>2. /\ Ordered(s) /\ s[N].type \in {"tsumo", "dahai", "kakan"} /\ N \in Nat /\ N > 0
      /\ ShownIn(s, N) = shown - 1 /\ shown \in Nat \ {0} /\ s \in Seq(RoundEvents) /\ Chain(s)
      /\ n \in Nat
  BY <1>1, LenProperties DEF RoundOver, Ordered, Chain
<1>3. /\ k \in 1..N /\ k \in {n + 1, n + 2} /\ y \in RoundEvents /\ y.type \in TakeTypes
      /\ n = 0 => y.type = "tsumo" /\ y.actor = 0
      /\ n > 0 /\ s[n].type # "dahai" => y.type = "tsumo" /\ y.actor = s[n].actor
      /\ n > 0 /\ s[n].type = "dahai" => AfterDahai(s[n], y)
      /\ DueDahai(s, k - 1) = D /\ DueDraw(s, k - 1) = W
      /\ ShownIn(s, k - 1) = ShownIn(s, n)
      /\ Reached(s, n) => n > 0 /\ s[n].type = "dahai"
  BY <1>1, Onward
<1>4. /\ AcceptedAt(s, n) \in Seq(RoundEvents)
      /\ First(s, k) = (First(s, n) \o AcceptedAt(s, n)) \o <<y>>
      /\ \A b \in Seats, types \in {TakeTypes, PutTypes} :
           Count(s, k - 1, By(b, types)) = Count(s, n, By(b, types))
  BY <1>1, NextOnward
<1>5. a \in Seats
  BY <1>1 DEF Searches
<1>6. /\ s[k].type \in {"tsumo", "dahai", "reach", "reach_accepted", "ankan", "kakan", "chi", "pon", "daiminkan"}
      /\ k < N => Follows(y, s[k + 1]) /\ Orderly(s, k, s[k + 1]) /\ s[k + 1] \in RoundEvents
  BY <1>2, <1>3, EventAt
<1> HIDE DEF N, k, y, a, S, z, D, W
<1>7. MoreTakes(x, a) /\ TakeOf(x) = y /\ x.takes[a] = Kept(s, S) /\ Count(s, n, S) \in Nat
      /\ Count(s, n, S) + 1 = Count(s, k, S)
  <2>1. y \in S /\ S = By(a, TakeTypes)
    BY <1>1, <1>3 DEF S, By
  <2>2. LET c == Count(s, k, S)
        IN /\ c = Count(s, k - 1, S) + 1 /\ Count(s, k - 1, S) \in Nat
           /\ c <= Len(Kept(s, S)) /\ Kept(s, S)[c] = s[k]
    <3>1. k \in 1..Len(s) /\ s[k] \in S
      BY <1>3, <2>1 DEF N, y
    <3> QED
      BY <1>2, <3>1, KeptAt
  <2>3. Count(s, k - 1, S) = Count(s, n, S)
    BY <1>4, <1>5, <2>1
  <2>4. x.takes[a] = Kept(s, S) /\ x.takeIdx[a] = Count(s, n, S)
    BY <1>1, <1>5, <2>1
  <2>5. Len(Kept(s, S)) \in Nat
    <3>1. Kept(s, S) \in Seq(RoundEvents \cap S)
      BY <1>2, KeptElements
    <3> QED
      BY <3>1, LenProperties
  <2>6. MoreTakes(x, a)
    BY <2>2, <2>3, <2>4, <2>5 DEF MoreTakes
  <2>7. TakeOf(x) = y
    BY <2>2, <2>3, <2>4 DEF TakeOf, NextTake, a, y
  <2> QED
    BY <2>2, <2>3, <2>4, <2>6, <2>7
<1>8. y.type \in Nakis => n > 0 /\ s[n].type = "dahai" /\ y.target = s[n].actor /\ y.actor # s[n].actor /\ ~D /\ ~W
  <2> SUFFICES ASSUME y.type \in Nakis
               PROVE  n > 0 /\ s[n].type = "dahai" /\ y.target = s[n].actor /\ y.actor # s[n].actor /\ ~D /\ ~W
    OBVIOUS
  <2>1. y.type # "tsumo"
    BY DEF Nakis
  <2>2. n > 0 /\ s[n].type = "dahai"
    BY <1>2, <1>3, <2>1
  <2>3. y.target = s[n].actor /\ y.actor # s[n].actor
    BY <1>3, <2>2 DEF AfterDahai
  <2>4. ~D /\ ~W
    BY <2>2 DEF D, W, DueDahai, DueDraw, OpenKans
  <2> QED
    BY <2>2, <2>3, <2>4
<1>9. ~Unexpected(x, y)
  <2>1. IsNaki(y) => x.lastDiscard = y.pai /\ x.lastActor = y.target /\ y.actor # y.target
    BY <1>1, <1>8 DEF IsNaki
  <2> QED
    BY <2>1 DEF Unexpected
<1>10. ShownAtTake(x) = ShownBy(y, D, W) /\ ShownAtTake(x) \in {0, 1}
  <2>1. DueAtTake(x, y) <=> y.type = "tsumo" /\ W
    <3>1. y.type = "daiminkan" => ~D
      BY <1>8 DEF Nakis
    <3> QED
      BY <1>1, <3>1 DEF DueAtTake
  <2>2. ShownAtTake(x) = Num(y.type = "tsumo" /\ W)
    BY <1>7, <2>1 DEF ShownAtTake, Num
  <2>3. y.type \notin {"dahai", "ankan"}
    BY <1>3 DEF TakeTypes, Nakis
  <2> QED
    BY <2>2, <2>3 DEF ShownBy, Num
<1>11. /\ DueDahai(s, k) <=> y.type \in OpenKans \/ (y.type = "tsumo" /\ D)
       /\ DueDraw(s, k) <=> y.type = "kakan" /\ D
       /\ ShownIn(s, k) = ShownIn(s, n) + ShownBy(y, D, W)
  <2>1. y.type # "reach"
    BY <1>3 DEF TakeTypes, Nakis
  <2>2. /\ DueDahai(s, k) <=> \/ s[k].type \in OpenKans
                              \/ s[k].type = "tsumo" /\ DueDahai(s, k - 1)
        /\ DueDraw(s, k) <=> s[k].type = "kakan" /\ DueDahai(s, k - 1)
        /\ ShownIn(s, k) = ShownIn(s, k - 1) + ShownBy(s[k], DueDahai(s, k - 1), DueDraw(s, k - 1))
    <3>1. k \in 1..Len(s) /\ s[k].type # "reach"
      BY <1>3, <2>1 DEF N, y
    <3> QED
      BY <1>2, <3>1, DueNext
  <2>3. s[k] = y
    BY DEF y
  <2> QED
    BY <1>3, <2>2, <2>3
<1>12. /\ ShownIn(s, n) \in Int /\ ShownIn(s, k) \in Int /\ ShownIn(s, k) <= ShownIn(s, N)
       /\ ShownIn(s, N) \in Int
  <2>1. n \in 0..Len(s) /\ k \in 0..Len(s) /\ Len(s) \in 0..Len(s) /\ k \in 0..N /\ N = Len(s)
    BY <1>1, <1>2, <1>3 DEF N
  <2>2. ShownIn(s, n) \in Int /\ ShownIn(s, k) \in Int
    BY <1>2, <2>1, ShownGrows
  <2>3. ShownIn(s, Len(s)) \in Int /\ \A m \in 0..Len(s) : ShownIn(s, m) <= ShownIn(s, Len(s))
    BY <1>2, <2>1, ShownGrows
  <2> QED
    BY <2>1, <2>2, <2>3
<1>13. ~TakeFails(x)
  <2>1. Feeds(x, ShownAtTake(x))
    BY <1>1, <1>2, <1>10, <1>11, <1>12 DEF Feeds
  <2> QED
    BY <1>7, <1>9, <2>1 DEF TakeFails, a
<1> DEFINE accepted == IF x.reach = Nobody THEN << >>
                       ELSE <<Event("reach_accepted", x.reach, x.reach, Other)>>
<1>14. /\ z.takes = x.takes /\ z.discards = x.discards
       /\ z.events = x.events \o accepted \o Reveal(ShownAtTake(x)) \o <<y>>
       /\ z.doraFeed = x.doraFeed - ShownAtTake(x)
       /\ z.takeIdx = [x.takeIdx EXCEPT ![a] = x.takeIdx[a] + 1]
       /\ z.discardIdx = x.discardIdx /\ z.reach = Nobody
       /\ z.lastDiscard = x.lastDiscard /\ z.lastActor = x.lastActor
       /\ z.doraAtDiscard = (x.doraAtDiscard \/ y.type = "daiminkan")
       /\ z.doraAtTsumo = (x.doraAtTsumo /\ y.type # "tsumo")
       /\ z.actor = a
  BY <1>1, <1>7, SearchTaken DEF z, a
<1>15. accepted = AcceptedAt(s, n)
  <2>1. CASE Reached(s, n)
    <3>1. s[n] \in RoundEvents
      <4>1. n \in 1..Len(s)
        BY <1>1, <1>2, <1>3, <2>1 DEF N
      <4> QED
        BY <1>2, <4>1, EventAt
    <3>2. x.reach = s[n].actor /\ s[n].actor \in Seats
      BY <1>1, <2>1, <3>1 DEF RoundEvents
    <3> QED
      BY <2>1, <3>2, NobodyAssumption DEF AcceptedAt
  <2>2. CASE ~Reached(s, n)
    BY <1>1, <2>2 DEF AcceptedAt
  <2> QED
    BY <2>1, <2>2
<1> HIDE DEF accepted
<1>16. z.events \in Seq(RoundEvents \cup {Dora}) /\ Kept(z.events, RoundEvents) = First(s, k)
  <2> DEFINE q == <<y>>
             m == ShownAtTake(x)
             ev == x.events
             p == accepted
  <2>1. q \in Seq(RoundEvents) /\ m \in {0, 1} /\ ev \in Seq(RoundEvents \cup {Dora}) /\ p \in Seq(RoundEvents)
    BY <1>1, <1>3, <1>4, <1>10, <1>15 DEF Searches
  <2>2. z.events = ev \o p \o Reveal(m) \o q
    BY <1>14
  <2>3. First(s, k) = (Kept(ev, RoundEvents) \o p) \o q
    BY <1>1, <1>4, <1>15
  <2> HIDE DEF q, m, ev, p
  <2>4. ev \o p \o Reveal(m) \o q \in Seq(RoundEvents \cup {Dora})
        /\ Kept(ev \o p \o Reveal(m) \o q, RoundEvents) = (Kept(ev, RoundEvents) \o p) \o q
    BY <2>1, EventsAdded
  <2> QED
    BY <2>2, <2>3, <2>4
<1>17. z \in Searches
  <2>1. /\ z.doraFeed \in Int /\ z.takeIdx \in [Seats -> Nat] /\ z.discardIdx \in [Seats -> Nat]
        /\ z.reach \in Seats \cup {Nobody} /\ z.lastDiscard \in Tiles \cup {Other}
        /\ z.doraAtDiscard \in BOOLEAN /\ z.doraAtTsumo \in BOOLEAN
    <3>1. /\ x.doraFeed \in Int /\ x.takeIdx \in [Seats -> Nat] /\ x.discardIdx \in [Seats -> Nat]
          /\ x.lastDiscard \in Tiles \cup {Other}
      BY <1>1 DEF Searches
    <3>2. z.doraFeed \in Int
      BY <1>10, <1>14, <3>1
    <3>3. z.takeIdx \in [Seats -> Nat]
      BY <1>5, <1>14, <3>1
    <3> QED
      BY <1>14, <3>1, <3>2, <3>3
  <2>2. z = [f \in DOMAIN x |-> z[f]]
    <3>1. DOMAIN z = DOMAIN x
      BY <1>1, SearchTaken DEF z
    <3> QED
      BY <3>1 DEF z, Taken
  <2> QED
    BY <1>1, <1>14, <1>16, <2>1, <2>2, SearchType DEF a
<1>18. ASSUME NEW b \in Seats
       PROVE  /\ z.takes[b] = Kept(s, By(b, TakeTypes)) /\ z.discards[b] = Kept(s, By(b, PutTypes))
              /\ z.takeIdx[b] = Count(s, k, By(b, TakeTypes))
              /\ z.discardIdx[b] = Count(s, k, By(b, PutTypes))
  <2> DEFINE R == By(b, TakeTypes)
             P == By(b, PutTypes)
  <2>1. /\ Count(s, k - 1, R) = Count(s, n, R) /\ Count(s, k - 1, P) = Count(s, n, P)
        /\ x.takes[b] = Kept(s, R) /\ x.discards[b] = Kept(s, P)
        /\ x.takeIdx[b] = Count(s, n, R) /\ x.discardIdx[b] = Count(s, n, P)
    BY <1>1, <1>4
  <2>2. y \notin P
    BY <1>3 DEF By, TakeTypes, PutTypes, Nakis
  <2>3. b # a => y \notin R
    BY <1>1 DEF By
  <2>4. b = a => R = S
    BY DEF S
  <2> HIDE DEF R, P
  <2>5. k \in 1..Len(s) /\ s[k] = y
    BY <1>3 DEF N, y
  <2>6. Count(s, k, P) = Count(s, n, P)
    BY <1>2, <2>1, <2>2, <2>5, CountSame
  <2>7. b # a => Count(s, k, R) = Count(s, n, R)
    BY <1>2, <2>1, <2>3, <2>5, CountSame
  <2>8. x.takeIdx \in [Seats -> Nat]
    BY <1>1 DEF Searches
  <2>9. z.takeIdx[b] = IF b = a THEN x.takeIdx[a] + 1 ELSE x.takeIdx[b]
    BY <1>14, <2>8
  <2>10. z.takeIdx[b] = Count(s, k, R)
    <3>1. CASE b = a
      BY <1>7, <2>1, <2>4, <2>9, <3>1
    <3>2. CASE b # a
      BY <2>1, <2>7, <2>9, <3>2
    <3> QED
      BY <3>1, <3>2
  <2> QED
    BY <1>14, <2>1, <2>6, <2>10 DEF R, P
<1>19. ~Reached(s, k) /\ k \in 0..N
  BY <1>2, <1>3 DEF Reached, TakeTypes, Nakis, y
<1>20. z.doraAtDiscard = DueDahai(s, k) /\ z.doraAtTsumo = DueDraw(s, k)
  <2>1. DueDahai(s, k) \in BOOLEAN /\ DueDraw(s, k) \in BOOLEAN /\ D \in BOOLEAN /\ W \in BOOLEAN
    BY DEF DueDahai, DueDraw, D, W
  <2>2. y.type \in {"tsumo", "chi", "pon", "daiminkan"} /\ (y.type # "tsumo" => ~D /\ ~W)
    BY <1>3, <1>8 DEF TakeTypes, Nakis
  <2>3. DueDahai(s, k) <=> D \/ y.type = "daiminkan"
    BY <1>11, <2>2 DEF OpenKans
  <2>4. DueDraw(s, k) <=> W /\ y.type # "tsumo"
    BY <1>11, <2>2
  <2> QED
    BY <1>1, <1>14, <2>1, <2>3, <2>4
<1>21. z.doraFeed = shown - 1 - ShownIn(s, k)
  BY <1>1, <1>2, <1>10, <1>11, <1>12, <1>14
<1>22. MoreDiscards(x, a) <=> \E m \in (k + 1)..N : s[m] \in By(a, PutTypes)
  <2> DEFINE P == By(a, PutTypes)
  <2>1. /\ x.discards[a] = Kept(s, P) /\ x.discardIdx[a] = Count(s, n, P)
        /\ Count(s, k - 1, P) = Count(s, n, P)
    BY <1>1, <1>4, <1>5
  <2>2. y \notin P
    BY <1>3 DEF By, TakeTypes, PutTypes, Nakis
  <2> HIDE DEF P
  <2>3. k \in 1..Len(s) /\ s[k] = y /\ k \in 0..Len(s) /\ k \in Nat
    BY <1>3 DEF N, y
  <2>4. Count(s, k, P) = Count(s, n, P)
    BY <1>2, <2>1, <2>2, <2>3, CountSame
  <2>5. MoreDiscards(x, a) <=> Count(s, k, P) < Len(Kept(s, P))
    BY <2>1, <2>4 DEF MoreDiscards
  <2>6. Count(s, k, P) < Len(Kept(s, P)) <=> \E m \in (k + 1)..Len(s) : s[m] \in P
    BY <1>2, <2>3, KeptLater
  <2> QED
    BY <2>5, <2>6 DEF P, N
<1>23. CASE y.type = "daiminkan"
  <2>1. PhaseAfterTake(x) = "take"
    BY <1>7, <1>23 DEF PhaseAfterTake
  <2>2. k < N
    BY <1>2, <1>3, <1>23 DEF y
  <2>3. NextAt(s, k) = k + 1
    BY <1>19 DEF NextAt
  <2>4. s[k + 1].type = "tsumo" /\ s[k + 1].actor = a
    <3>1. s[k + 1].type = "tsumo"
      BY <1>6, <1>23, <2>2 DEF Follows
    <3>2. k > 0
      BY <1>3
    <3>3. s[k + 1].actor = s[k].actor
      BY <1>6, <1>23, <2>2, <3>2 DEF Orderly, y
    <3> QED
      BY <1>1, <3>1, <3>3 DEF y
  <2>5. Continues(s, k, z, "take")
    <3>1. s[NextAt(s, k)].actor = z.actor /\ s[NextAt(s, k)].type \notin Nakis
      BY <1>14, <2>3, <2>4 DEF Nakis
    <3>2. s[k].type = "daiminkan"
      BY <1>23 DEF y
    <3> QED
      BY <2>2, <3>1, <3>2 DEF Continues, N
  <2>6. Track(s, k, shown, z, "take")
    BY <1>14, <1>16, <1>17, <1>18, <1>19, <1>20, <1>21, <2>5 DEF Track, N
  <2> QED
    BY <1>13, <2>1, <2>6 DEF z, k
<1>24. CASE y.type # "daiminkan" /\ MoreDiscards(x, a)
  <2>1. PhaseAfterTake(x) = "discard"
    BY <1>7, <1>24 DEF PhaseAfterTake, a
  <2>2. k < N
    BY <1>2, <1>3, <1>22, <1>24
  <2>3. y.type \in {"tsumo", "chi", "pon"}
    BY <1>3, <1>24 DEF TakeTypes, Nakis
  <2>4. Continues(s, k, z, "discard")
    <3>1. 0 < k /\ k < Len(s) /\ s[k].type \in {"tsumo", "chi", "pon"} /\ s[k].actor = z.actor
      BY <1>1, <1>3, <1>14, <2>2, <2>3 DEF N, y
    <3> QED
      BY <3>1 DEF Continues
  <2>5. Track(s, k, shown, z, "discard")
    BY <1>14, <1>16, <1>17, <1>18, <1>19, <1>20, <1>21, <2>4 DEF Track, N
  <2> QED
    BY <1>13, <2>1, <2>5 DEF z, k
<1>25. CASE y.type # "daiminkan" /\ ~MoreDiscards(x, a)
  <2>1. PhaseAfterTake(x) = "done"
    BY <1>7, <1>25 DEF PhaseAfterTake, a
  <2>2. k = N
    <3> SUFFICES ASSUME k # N PROVE FALSE
      OBVIOUS
    <3>1. k < N /\ k > 0 /\ k + 1 \in (k + 1)..N
      BY <1>2, <1>3
    <3>2. y.type \in {"tsumo", "chi", "pon"}
      BY <1>3, <1>25 DEF TakeTypes, Nakis
    <3>3. s[k + 1].type \in PutTypes
      BY <1>6, <3>1, <3>2 DEF Follows, PutTypes
    <3>4. s[k + 1].actor = a
      BY <1>1, <1>6, <3>1, <3>2 DEF Orderly, y
    <3>5. s[k + 1] \in By(a, PutTypes)
      BY <1>6, <3>1, <3>3, <3>4 DEF By
    <3> QED
      BY <1>22, <1>25, <3>1, <3>5
  <2>3. Continues(s, k, z, "done")
    BY <2>2 DEF Continues, N
  <2>4. Track(s, k, shown, z, "done")
    BY <1>14, <1>16, <1>17, <1>18, <1>19, <2>3 DEF Track, N
  <2> QED
    BY <1>13, <2>1, <2>4 DEF z, k
<1> QED
  BY <1>23, <1>24, <1>25

\* What a seat puts down after its take: a dahai, a reach with its dahai, or a kan.
PutAt(s, n) == IF s[n + 1].type = "reach" THEN n + 2 ELSE n + 1
PutGroup(s, n) == IF s[n + 1].type = "reach" THEN <<s[n + 1], s[n + 2]>> ELSE <<s[n + 1]>>

LEMMA PutEvents ==
  ASSUME NEW s, NEW shown, RoundOver(s, shown), NEW n \in 1..Len(s), n < Len(s),
         s[n].type \in {"tsumo", "chi", "pon"}
  PROVE  LET d == s[n + 1]
             k == PutAt(s, n)
             D == DueDahai(s, n)
         IN /\ n + 1 \in 1..Len(s) /\ k \in 1..Len(s) /\ k > 1
            /\ d \in RoundEvents /\ d.type \in PutTypes /\ d.actor = s[n].actor
            /\ k = IF d.type = "reach" THEN (n + 1) + 1 ELSE n + 1
            /\ s[k] \in RoundEvents /\ s[k].actor = s[n].actor
            /\ s[k].type = IF d.type = "reach" THEN "dahai" ELSE d.type
            /\ PutGroup(s, n) \in Seq(RoundEvents)
            /\ First(s, k) = First(s, n) \o PutGroup(s, n)
            /\ DueDahai(s, k) <=> d.type = "kakan"
            /\ DueDraw(s, k) <=> d.type = "kakan" /\ D
            /\ Reached(s, k) <=> d.type = "reach"
            /\ d.type = "reach" => ~D
            /\ ~DueDraw(s, n)
            /\ ShownIn(s, k) = ShownIn(s, n) + Num(d.type \in {"dahai", "ankan"} /\ D)
                                             + Num(d.type = "ankan")
            /\ d.type = "ankan" => k < Len(s)
<1> DEFINE N == Len(s)
           d == s[n + 1]
           k == PutAt(s, n)
           a == s[n].actor
           D == DueDahai(s, n)
           m == n + 1
<1>0. Ordered(s) /\ s[N].type \in {"tsumo", "dahai", "kakan"} /\ N > 0
  BY DEF RoundOver
<1>1. /\ Ordered(s) /\ s[N].type \in {"tsumo", "dahai", "kakan"} /\ N \in Nat /\ N > 0
      /\ s \in Seq(RoundEvents) /\ Chain(s) /\ n \in Nat /\ n > 0
  <2>1. s \in Seq(RoundEvents) /\ Chain(s)
    BY <1>0 DEF Ordered, Chain
  <2>2. Len(s) \in Nat
    BY <2>1, LenProperties
  <2> QED
    BY <1>0, <2>1, <2>2
<1>2. \A i \in 1..N : /\ s[i] \in RoundEvents
                      /\ i < N => Follows(s[i], s[i + 1]) /\ Orderly(s, i, s[i + 1])
  BY <1>1, EventAt
<1>3. m \in 1..N /\ n \in 1..N /\ n < N /\ m - 1 = n /\ m > 1 /\ m \in Nat
  BY <1>1
<1>4. \A i \in 0..N : First(s, i) \in Seq(RoundEvents)
  BY <1>1, Firsts
<1>5. \A i \in 1..N : First(s, i) = Append(First(s, i - 1), s[i])
  BY <1>1, Firsts
<1> HIDE DEF N, m
<1>6. s[m] \in RoundEvents /\ s[m].type \in PutTypes /\ s[m].actor = a
  <2>1. Follows(s[n], s[n + 1]) /\ Orderly(s, n, s[n + 1]) /\ s[m] \in RoundEvents
    BY <1>2, <1>3
  <2>2. Follows(s[n], s[m]) /\ Orderly(s, n, s[m])
    BY <2>1 DEF m
  <2>3. s[m].type \in PutTypes
    BY <2>2 DEF Follows, PutTypes
  <2>4. s[m].actor = s[n].actor
    BY <1>1, <2>2 DEF Orderly
  <2> QED
    BY <2>1, <2>3, <2>4
<1>7. ~DueDraw(s, n) /\ (s[m].type = "reach" => ~D)
  <2>1. Orderly(s, n, s[n + 1])
    BY <1>2, <1>3
  <2> QED
    BY <2>1 DEF DueDraw, Orderly, m
<1>8. ShownIn(s, n) \in Int
  <2>1. n \in 0..Len(s)
    BY <1>1
  <2> QED
    BY <1>1, <2>1, ShownGrows
<1>9. /\ DueDahai(s, m) <=> s[m].type = "kakan"
      /\ DueDraw(s, m) <=> s[m].type = "kakan" /\ D
      /\ ShownIn(s, m) = ShownIn(s, n) + Num(s[m].type \in {"dahai", "ankan"} /\ D)
                                       + Num(s[m].type = "ankan")
  <2>1. /\ DueDahai(s, m) <=> \/ s[m].type \in OpenKans
                              \/ s[m].type = "tsumo" /\ DueDahai(s, m - 1)
        /\ DueDraw(s, m) <=> s[m].type = "kakan" /\ DueDahai(s, m - 1)
        /\ ShownIn(s, m) = ShownIn(s, m - 1) + ShownBy(s[m], DueDahai(s, m - 1), DueDraw(s, m - 1))
    <3>1. m \in 1..Len(s) /\ (s[m].type = "reach" => ~DueDahai(s, m - 1))
      BY <1>3, <1>7 DEF N, D
    <3> QED
      BY <1>1, <3>1, DueNext
  <2>2. s[m].type \in {"dahai", "reach", "ankan", "kakan"}
    BY <1>6 DEF PutTypes
  <2>3. ShownBy(s[m], D, DueDraw(s, n)) = Num(s[m].type \in {"dahai", "ankan"} /\ D) + Num(s[m].type = "ankan")
    BY <2>2 DEF ShownBy, Num
  <2>4. /\ DueDahai(s, m) <=> s[m].type \in OpenKans
        /\ DueDraw(s, m) <=> s[m].type = "kakan" /\ D
        /\ ShownIn(s, m) = ShownIn(s, n) + ShownBy(s[m], D, DueDraw(s, n))
    BY <1>3, <2>1, <2>2 DEF D
  <2>5. Num(s[m].type \in {"dahai", "ankan"} /\ D) \in Nat /\ Num(s[m].type = "ankan") \in Nat
    BY DEF Num
  <2> QED
    BY <1>8, <2>2, <2>3, <2>4, <2>5 DEF OpenKans
<1>10. d = s[m] /\ m = n + 1
  BY DEF m
<1>11. CASE s[m].type # "reach"
  <2>1. k = m /\ PutGroup(s, n) = <<s[m]>>
    BY <1>11 DEF PutAt, PutGroup, m
  <2>2. ~Reached(s, m)
    BY <1>3 DEF Reached
  <2> DEFINE f == First(s, n)
  <2>3. First(s, m) = f \o <<s[m]>> /\ <<s[m]>> \in Seq(RoundEvents)
    <3>1. f \in Seq(RoundEvents) /\ First(s, m) = Append(f, s[m])
      <4>1. n \in 0..N
        BY <1>1, <1>3
      <4> QED
        BY <1>3, <1>4, <1>5, <4>1
    <3> HIDE DEF f
    <3> QED
      BY <1>6, <3>1, Lengthened
  <2>4. s[m].type = "ankan" => m < N
    BY <1>1, <1>3
  <2> HIDE DEF f, k, d
  <2> QED
    BY <1>3, <1>6, <1>7, <1>9, <1>10, <1>11, <2>1, <2>2, <2>3, <2>4 DEF f, k, d, N, D
<1>12. CASE s[m].type = "reach"
  <2> DEFINE e == m + 1
             x == s[m]
             y == s[e]
  <2>1. m < N /\ e \in 1..N /\ e - 1 = m /\ k = e /\ e = n + 2 /\ e \in Nat
    BY <1>1, <1>3, <1>12 DEF PutAt, m
  <2>2. Follows(x, y) /\ y \in RoundEvents
    BY <1>2, <1>3, <2>1
  <2>3. y.type = "dahai" /\ x = Event("reach", y.actor, y.actor, Other)
    BY <1>12, <2>2 DEF Follows
  <2>4. y.actor = a
    BY <1>6, <2>3 DEF Event
  <2>5. PutGroup(s, n) = <<x, y>>
    BY <1>12, <2>1 DEF PutGroup, m
  <2> HIDE DEF x, y, e
  <2> DEFINE f == First(s, n)
  <2>6. First(s, e) = f \o <<x, y>> /\ <<x, y>> \in Seq(RoundEvents)
    <3>1. f \in Seq(RoundEvents) /\ First(s, m) = Append(f, x) /\ First(s, e) = Append(First(s, m), y)
      <4>1. n \in 0..N
        BY <1>1, <1>3
      <4> QED
        BY <1>3, <1>4, <1>5, <2>1, <4>1 DEF x, y
    <3>2. x \in RoundEvents /\ y \in RoundEvents
      BY <1>6, <2>2 DEF x
    <3> HIDE DEF f
    <3>3. f \o <<x, y>> = Append(Append(f, x), y)
      BY <3>1, <3>2, Lengthened
    <3> QED
      BY <3>1, <3>2, <3>3
  <2>7. /\ ~DueDahai(s, e) /\ ~DueDraw(s, e) /\ ShownIn(s, e) = ShownIn(s, m)
    <3>1. /\ DueDahai(s, e) <=> \/ s[e].type \in OpenKans
                                \/ s[e].type = "tsumo" /\ DueDahai(s, e - 1)
          /\ DueDraw(s, e) <=> s[e].type = "kakan" /\ DueDahai(s, e - 1)
          /\ ShownIn(s, e) = ShownIn(s, e - 1) + ShownBy(s[e], DueDahai(s, e - 1), DueDraw(s, e - 1))
      <4>1. e \in 1..Len(s) /\ s[e].type # "reach"
        BY <2>1, <2>3 DEF N, y
      <4> QED
        BY <1>1, <4>1, DueNext
    <3>2. s[e] = y /\ ~DueDahai(s, m)
      BY <1>9, <1>12 DEF y
    <3>3. ShownBy(y, DueDahai(s, m), DueDraw(s, m)) = 0
      BY <2>3, <3>2 DEF ShownBy, Num
    <3>4. ShownIn(s, m) \in Int
      <4>1. m \in 0..Len(s)
        BY <1>3 DEF N
      <4> QED
        BY <1>1, <4>1, ShownGrows
    <3> QED
      BY <2>1, <2>3, <3>1, <3>2, <3>3, <3>4 DEF OpenKans
  <2>8. Reached(s, e)
    BY <1>12, <2>1, <2>3 DEF Reached, x, y
  <2>9. x = s[m] /\ y = s[e]
    BY DEF x, y
  <2>10. e > 1
    BY <1>3, <2>1
  <2> HIDE DEF f, k, d
  <2> QED
    BY <1>3, <1>6, <1>7, <1>9, <1>10, <1>12, <2>1, <2>2, <2>3, <2>4, <2>5, <2>6, <2>7, <2>8, <2>9,
       <2>10 DEF f, k, d, N, D, e
<1> QED
  BY <1>11, <1>12

\* The same in the lists of the seats.
LEMMA PutCounts ==
  ASSUME NEW s, NEW shown, RoundOver(s, shown), NEW n \in 1..Len(s), n < Len(s),
         s[n].type \in {"tsumo", "chi", "pon"}
  PROVE  LET k == PutAt(s, n)
             a == s[n].actor
             P == By(a, PutTypes)
             c == Count(s, n, P)
         IN /\ \A b \in Seats : Count(s, k, By(b, TakeTypes)) = Count(s, n, By(b, TakeTypes))
            /\ \A b \in Seats : b # a => Count(s, k, By(b, PutTypes)) = Count(s, n, By(b, PutTypes))
            /\ c \in Nat /\ Count(s, k, P) = c + Len(PutGroup(s, n))
            /\ Kept(s, P)[c + 1] = s[n + 1]
            /\ s[n + 1].type = "reach" => Kept(s, P)[c + 2] = s[n + 2]
            /\ k < Len(s) <=> \E b \in Seats : Count(s, k, By(b, TakeTypes)) < Len(Kept(s, By(b, TakeTypes)))
<1> DEFINE N == Len(s)
           m == n + 1
           k == PutAt(s, n)
           a == s[n].actor
           P == By(a, PutTypes)
           reach == s[m].type = "reach"
<1>1. /\ m \in 1..N /\ k \in 1..N
      /\ s[m] \in RoundEvents /\ s[m].type \in PutTypes /\ s[m].actor = a
      /\ k = IF reach THEN m + 1 ELSE m
      /\ s[k] \in RoundEvents /\ s[k].actor = a
      /\ s[k].type = IF reach THEN "dahai" ELSE s[m].type
  BY PutEvents
<1>2. /\ Ordered(s) /\ s[N].type \in {"tsumo", "dahai", "kakan"} /\ N \in Nat
      /\ s \in Seq(RoundEvents) /\ n \in Nat /\ m - 1 = n /\ m \in Nat /\ m = n + 1
  BY LenProperties DEF RoundOver, Ordered, Chain
<1>3. /\ PutGroup(s, n) = (IF reach THEN <<s[m], s[n + 2]>> ELSE <<s[m]>>)
      /\ reach => n + 2 = m + 1
  BY <1>2 DEF PutGroup
<1> HIDE DEF N, m, k, a, reach
<1>4. s[k].type \in PutTypes /\ k - 1 \in {n, m} /\ (k - 1 = n => k = m) /\ (reach => k - 1 = m /\ k = n + 2)
      /\ (~reach => k = m)
  BY <1>1, <1>2 DEF PutTypes
<1>5. ASSUME NEW S, s[m] \notin S, s[k] \notin S PROVE Count(s, k, S) = Count(s, n, S)
  <2>1. Count(s, m, S) = Count(s, m - 1, S)
    BY <1>1, <1>2, <1>5, CountSame DEF N
  <2>2. Count(s, k, S) = Count(s, k - 1, S)
    BY <1>1, <1>2, <1>5, CountSame DEF N
  <2> QED
    BY <1>2, <1>4, <2>1, <2>2
<1>6. ASSUME NEW b \in Seats PROVE Count(s, k, By(b, TakeTypes)) = Count(s, n, By(b, TakeTypes))
  <2> DEFINE S == By(b, TakeTypes)
  <2>1. s[m] \notin S /\ s[k] \notin S
    BY <1>1, <1>4 DEF By, TakeTypes, PutTypes, Nakis
  <2> HIDE DEF S
  <2>2. Count(s, k, S) = Count(s, n, S)
    BY <1>5, <2>1
  <2> QED
    BY <2>2 DEF S
<1>7. ASSUME NEW b \in Seats, b # a PROVE Count(s, k, By(b, PutTypes)) = Count(s, n, By(b, PutTypes))
  <2> DEFINE S == By(b, PutTypes)
  <2>1. s[m] \notin S /\ s[k] \notin S
    BY <1>1, <1>7 DEF By
  <2> HIDE DEF S
  <2>2. Count(s, k, S) = Count(s, n, S)
    BY <1>5, <2>1
  <2> QED
    BY <2>2 DEF S
<1>8. s[m] \in P /\ s[k] \in P
  BY <1>1, <1>4 DEF By
<1> DEFINE c == Count(s, n, P)
<1> HIDE DEF P
<1>9. /\ Count(s, m, P) = c + 1 /\ c \in Nat /\ Kept(s, P)[c + 1] = s[m]
  <2>1. /\ Count(s, m, P) = Count(s, m - 1, P) + 1 /\ Count(s, m - 1, P) \in Nat
        /\ Kept(s, P)[Count(s, m, P)] = s[m]
    <3>1. m \in 1..Len(s) /\ s[m] \in P
      BY <1>1, <1>8 DEF N
    <3> QED
      BY <1>2, <3>1, KeptAt
  <2> QED
    BY <1>2, <2>1
<1>10. reach => Count(s, k, P) = c + 2 /\ Kept(s, P)[c + 2] = s[k]
  <2> SUFFICES ASSUME reach PROVE Count(s, k, P) = c + 2 /\ Kept(s, P)[c + 2] = s[k]
    OBVIOUS
  <2>1. /\ Count(s, k, P) = Count(s, k - 1, P) + 1
        /\ Kept(s, P)[Count(s, k, P)] = s[k]
    <3>1. k \in 1..Len(s) /\ s[k] \in P
      BY <1>1, <1>8 DEF N
    <3> QED
      BY <1>2, <3>1, KeptAt
  <2>2. k - 1 = m
    BY <1>4
  <2>3. Count(s, k, P) = c + 2
    BY <1>9, <2>1, <2>2
  <2> QED
    BY <2>1, <2>3
<1> HIDE DEF c
<1>11. Count(s, k, P) = c + Len(PutGroup(s, n))
  <2>1. CASE reach
    <3>1. Len(PutGroup(s, n)) = 2
      BY <1>3, <2>1
    <3> QED
      BY <1>10, <2>1, <3>1
  <2>2. CASE ~reach
    <3>1. Len(PutGroup(s, n)) = 1 /\ k = m
      BY <1>3, <1>4, <2>2
    <3> QED
      BY <1>9, <3>1
  <2> QED
    BY <2>1, <2>2
<1>12. ASSUME k < N
       PROVE  \E b \in Seats : Count(s, k, By(b, TakeTypes)) < Len(Kept(s, By(b, TakeTypes)))
  <2>1. k \in 0..Len(s) /\ k < Len(s) /\ k > 0 /\ k \in Nat
    BY <1>1, <1>2, <1>12 DEF N
  <2>2. s[k].type \in {"dahai", "ankan", "kakan", "daiminkan"}
    BY <1>1 DEF PutTypes, reach
  <2> DEFINE j == NextAt(s, k)
  <2>3. j \in 1..Len(s) /\ j \in {k + 1, k + 2} /\ s[j] \in RoundEvents /\ s[j].type \in TakeTypes
    BY <2>1, <2>2, Onward
  <2> HIDE DEF j
  <2> DEFINE b == s[j].actor
             S == By(b, TakeTypes)
  <2>4. b \in Seats /\ s[j] \in S
    BY <2>3 DEF RoundEvents, By
  <2>5. j \in (k + 1)..Len(s)
    BY <2>1, <2>3
  <2> HIDE DEF S, b
  <2>6. Count(s, k, S) < Len(Kept(s, S))
    BY <1>2, <2>1, <2>4, <2>5, KeptLater
  <2> QED
    BY <2>4, <2>6 DEF S
<1>13. ASSUME NEW b \in Seats, Count(s, k, By(b, TakeTypes)) < Len(Kept(s, By(b, TakeTypes)))
       PROVE  k < N
  <2> DEFINE S == By(b, TakeTypes)
  <2>1. Count(s, k, S) < Len(Kept(s, S))
    BY <1>13
  <2> HIDE DEF S
  <2>2. k \in 0..Len(s)
    BY <1>1, <1>2 DEF N
  <2>3. PICK i \in (k + 1)..Len(s) : s[i] \in S
    BY <1>2, <2>1, <2>2, KeptLater
  <2> QED
    BY <1>1, <1>2, <2>3 DEF N
<1>14. reach => Kept(s, P)[c + 2] = s[n + 2]
  BY <1>4, <1>10
<1> QED
  BY <1>2, <1>6, <1>7, <1>9, <1>11, <1>12, <1>13, <1>14 DEF c, P, N, m, k, a, reach


LEMMA TrackThrown ==
  ASSUME NEW s, NEW shown, RoundOver(s, shown), NEW n, NEW x, Track(s, n, shown, x, "discard")
  PROVE  LET ph == PhaseAfterDiscard(x)
         IN /\ ~DiscardFails(x) /\ ph \in {"take", "next", "done"}
            /\ Track(s, PutAt(s, n), shown, Thrown(x), ph)
<1> DEFINE N == Len(s)
           k == PutAt(s, n)
           d == s[n + 1]
           a == x.actor
           P == By(a, PutTypes)
           c == Count(s, n, P)
           z == Thrown(x)
           D == DueDahai(s, n)
           g == PutGroup(s, n)
<1>1. /\ x \in Searches /\ n \in 0..N /\ n < N /\ 0 < n
      /\ Kept(x.events, RoundEvents) = First(s, n)
      /\ \A b \in Seats :
           /\ x.takes[b] = Kept(s, By(b, TakeTypes)) /\ x.discards[b] = Kept(s, By(b, PutTypes))
           /\ x.takeIdx[b] = Count(s, n, By(b, TakeTypes))
           /\ x.discardIdx[b] = Count(s, n, By(b, PutTypes))
      /\ x.reach = (IF Reached(s, n) THEN s[n].actor ELSE Nobody)
      /\ x.doraAtDiscard = D /\ x.doraAtTsumo = DueDraw(s, n)
      /\ x.doraFeed = shown - 1 - ShownIn(s, n)
      /\ s[n].type \in {"tsumo", "chi", "pon"} /\ s[n].actor = a
  BY DEF Track, Continues
<1>2. /\ Ordered(s) /\ N \in Nat /\ s \in Seq(RoundEvents)
      /\ ShownIn(s, N) = shown - 1 /\ shown \in Nat \ {0}
  <2>1. Ordered(s) /\ s \in Seq(RoundEvents)
    BY DEF RoundOver, Ordered, Chain
  <2> QED
    BY <2>1, LenProperties DEF RoundOver
<1>3. n \in 1..Len(s) /\ n < Len(s) /\ n \in Nat
  BY <1>1, <1>2
<1>4. /\ n + 1 \in 1..Len(s) /\ k \in 1..Len(s) /\ k > 1
      /\ d \in RoundEvents /\ d.type \in PutTypes /\ d.actor = a
      /\ k = (IF d.type = "reach" THEN (n + 1) + 1 ELSE n + 1)
      /\ s[k] \in RoundEvents /\ s[k].actor = a
      /\ s[k].type = (IF d.type = "reach" THEN "dahai" ELSE d.type)
      /\ g \in Seq(RoundEvents)
      /\ First(s, k) = First(s, n) \o g
      /\ (DueDahai(s, k) <=> d.type = "kakan")
      /\ (DueDraw(s, k) <=> d.type = "kakan" /\ D)
      /\ (Reached(s, k) <=> d.type = "reach")
      /\ (d.type = "reach" => ~D)
      /\ ~DueDraw(s, n)
      /\ ShownIn(s, k) = ShownIn(s, n) + Num(d.type \in {"dahai", "ankan"} /\ D)
                                       + Num(d.type = "ankan")
      /\ (d.type = "ankan" => k < Len(s))
  BY <1>1, <1>3, PutEvents
<1>5. /\ \A b \in Seats : Count(s, k, By(b, TakeTypes)) = Count(s, n, By(b, TakeTypes))
      /\ \A b \in Seats : b # a => Count(s, k, By(b, PutTypes)) = Count(s, n, By(b, PutTypes))
      /\ c \in Nat /\ Count(s, k, P) = c + Len(g)
      /\ Kept(s, P)[c + 1] = d
      /\ (d.type = "reach" => Kept(s, P)[c + 2] = s[n + 2])
      /\ (k < Len(s) <=> \E b \in Seats : Count(s, k, By(b, TakeTypes)) < Len(Kept(s, By(b, TakeTypes))))
  BY <1>1, <1>3, PutCounts
<1>6. a \in Seats
  BY <1>1 DEF Searches
<1>7. g = IF d.type = "reach" THEN <<d, s[n + 2]>> ELSE <<d>>
  BY DEF PutGroup
<1>8. d.type = "reach" => s[k] = s[n + 2]
  BY <1>1, <1>3 DEF PutAt
<1>9. d.type # "reach" => s[k] = d
  BY DEF PutAt
<1> HIDE DEF N, k, d, a, z, D, g, c
<1>10. x.discards[a] = Kept(s, P) /\ x.discardIdx[a] = c
  BY <1>1, <1>6 DEF c
<1> HIDE DEF P
<1>11. DiscardOf(x) = d /\ Group(x) = g
  <2>1. DiscardOf(x) = d
    BY <1>5, <1>10 DEF DiscardOf, NextDiscard, a
  <2>2. d.type = "reach" => x.discards[x.actor][x.discardIdx[x.actor] + 2] = s[n + 2]
    BY <1>5, <1>10 DEF a
  <2> QED
    BY <1>7, <2>1, <2>2 DEF Group
<1>12. NoTakesLeft(x) <=> k = N
  <2>1. \A b \in Seats : MoreTakes(x, b) <=> Count(s, k, By(b, TakeTypes)) < Len(Kept(s, By(b, TakeTypes)))
    BY <1>1, <1>5 DEF MoreTakes
  <2>2. NoTakesLeft(x) <=> ~(k < Len(s))
    BY <1>5, <2>1 DEF NoTakesLeft
  <2> QED
    BY <1>2, <1>4, <2>2 DEF N
<1>13. /\ ShownBefore(x) = Num(d.type \in {"dahai", "ankan"} /\ D) /\ ShownBefore(x) \in {0, 1}
       /\ ShownAfter(x) = Num(d.type = "ankan") /\ ShownAfter(x) \in {0, 1}
  <2>1. d.type = "ankan" => ~NoTakesLeft(x)
    BY <1>2, <1>4, <1>12 DEF N
  <2> QED
    BY <1>1, <1>11, <2>1 DEF ShownBefore, ShownAfter, DueAtDiscard, Num
<1>14. /\ ShownIn(s, n) \in Int /\ ShownIn(s, k) \in Int /\ ShownIn(s, k) <= ShownIn(s, N)
       /\ ShownIn(s, N) \in Int
  <2>1. n \in 0..Len(s) /\ k \in 0..Len(s) /\ Len(s) \in 0..Len(s) /\ N = Len(s)
    BY <1>1, <1>2, <1>4 DEF N
  <2>2. ShownIn(s, n) \in Int /\ ShownIn(s, k) \in Int
    BY <1>2, <2>1, ShownGrows
  <2>3. ShownIn(s, Len(s)) \in Int /\ \A m \in 0..Len(s) : ShownIn(s, m) <= ShownIn(s, Len(s))
    BY <1>2, <2>1, ShownGrows
  <2> QED
    BY <2>1, <2>2, <2>3
<1>15. ~DiscardFails(x)
  <2>1. ShownIn(s, k) = ShownIn(s, n) + ShownBefore(x) + ShownAfter(x)
    BY <1>4, <1>13
  <2> QED
    BY <1>1, <1>2, <1>13, <1>14, <2>1 DEF DiscardFails, Feeds
<1>16. Last(g) = s[k] /\ Len(g) \in Nat
  <2>1. CASE d.type = "reach"
    <3>1. g = <<d, s[n + 2]>> /\ s[k] = s[n + 2]
      BY <1>7, <1>8, <2>1
    <3> QED
      BY <3>1 DEF Last
  <2>2. CASE d.type # "reach"
    <3>1. g = <<d>> /\ s[k] = d
      BY <1>7, <1>9, <2>2
    <3> QED
      BY <3>1 DEF Last
  <2> QED
    BY <2>1, <2>2
<1>17. /\ z.takes = x.takes /\ z.discards = x.discards
       /\ z.events = x.events \o Reveal(ShownBefore(x)) \o g \o Reveal(ShownAfter(x))
       /\ z.doraFeed = x.doraFeed - ShownBefore(x) - ShownAfter(x)
       /\ z.takeIdx = x.takeIdx
       /\ z.discardIdx = [x.discardIdx EXCEPT ![a] = x.discardIdx[a] + Len(g)]
       /\ z.reach = (IF d.type = "reach" THEN a ELSE x.reach)
       /\ z.lastDiscard = (IF s[k].type = "dahai" THEN s[k].pai ELSE x.lastDiscard)
       /\ z.lastActor = x.lastActor
       /\ z.doraAtTsumo = (x.doraAtTsumo \/ (x.doraAtDiscard /\ d.type = "kakan"))
       /\ z.doraAtDiscard = (\/ x.doraAtDiscard /\ ~DueAtDiscard(x, d)
                             \/ d.type = "kakan" /\ ~NoTakesLeft(x))
       /\ z.actor = a
  <2>1. x \in Searches
    BY <1>1
  <2> QED
    BY <1>11, <1>16, <2>1, SearchThrown DEF z, a
<1>18. z.events \in Seq(RoundEvents \cup {Dora}) /\ Kept(z.events, RoundEvents) = First(s, k)
  <2> DEFINE m == ShownBefore(x)
             l == ShownAfter(x)
             ev == x.events
  <2>1. m \in {0, 1} /\ l \in {0, 1} /\ ev \in Seq(RoundEvents \cup {Dora}) /\ g \in Seq(RoundEvents)
    BY <1>1, <1>4, <1>13 DEF Searches
  <2>2. z.events = ev \o Reveal(m) \o g \o Reveal(l)
    BY <1>17
  <2>3. First(s, k) = Kept(ev, RoundEvents) \o g
    BY <1>1, <1>4
  <2> HIDE DEF m, l, ev
  <2>4. /\ ev \o Reveal(m) \o g \o Reveal(l) \in Seq(RoundEvents \cup {Dora})
        /\ Kept(ev \o Reveal(m) \o g \o Reveal(l), RoundEvents) = Kept(ev, RoundEvents) \o g
    BY <2>1, EventsPut
  <2> QED
    BY <2>2, <2>3, <2>4
<1>19. z \in Searches
  <2>1. /\ z.doraFeed \in Int /\ z.takeIdx \in [Seats -> Nat] /\ z.discardIdx \in [Seats -> Nat]
        /\ z.reach \in Seats \cup {Nobody} /\ z.lastDiscard \in Tiles \cup {Other}
        /\ z.doraAtDiscard \in BOOLEAN /\ z.doraAtTsumo \in BOOLEAN
    <3>1. /\ x.doraFeed \in Int /\ x.takeIdx \in [Seats -> Nat] /\ x.discardIdx \in [Seats -> Nat]
          /\ x.lastDiscard \in Tiles \cup {Other} /\ x.reach \in Seats \cup {Nobody}
      BY <1>1 DEF Searches
    <3>2. z.doraFeed \in Int
      BY <1>13, <1>17, <3>1
    <3>3. z.discardIdx \in [Seats -> Nat]
      BY <1>6, <1>16, <1>17, <3>1
    <3>4. s[k].pai \in Tiles \cup {Other}
      BY <1>4 DEF RoundEvents
    <3>5. z.doraAtDiscard \in BOOLEAN /\ z.doraAtTsumo \in BOOLEAN
      BY <1>17
    <3> QED
      BY <1>6, <1>17, <3>1, <3>2, <3>3, <3>4, <3>5
  <2>2. z = [f \in DOMAIN x |-> z[f]]
    <3>1. DOMAIN z = DOMAIN x
      BY <1>1, SearchThrown DEF z
    <3> QED
      BY <3>1 DEF z, Thrown
  <2> QED
    BY <1>1, <1>17, <1>18, <2>1, <2>2, SearchType DEF a
<1>20. ASSUME NEW b \in Seats
       PROVE  /\ z.takes[b] = Kept(s, By(b, TakeTypes)) /\ z.discards[b] = Kept(s, By(b, PutTypes))
              /\ z.takeIdx[b] = Count(s, k, By(b, TakeTypes))
              /\ z.discardIdx[b] = Count(s, k, By(b, PutTypes))
  <2>1. x.discardIdx \in [Seats -> Nat]
    BY <1>1 DEF Searches
  <2>2. z.discardIdx[b] = IF b = a THEN x.discardIdx[a] + Len(g) ELSE x.discardIdx[b]
    BY <1>17, <2>1
  <2>3. z.discardIdx[b] = Count(s, k, By(b, PutTypes))
    <3>1. CASE b = a
      BY <1>5, <1>10, <2>2, <3>1 DEF P
    <3>2. CASE b # a
      BY <1>1, <1>5, <2>2, <3>2
    <3> QED
      BY <3>1, <3>2
  <2> QED
    BY <1>1, <1>5, <1>17, <2>3
<1>21. z.reach = (IF Reached(s, k) THEN s[k].actor ELSE Nobody) /\ k \in 0..N
  <2>1. ~Reached(s, n)
    BY <1>1 DEF Reached
  <2> QED
    BY <1>1, <1>2, <1>4, <1>17, <2>1 DEF N
<1>22. k # N => /\ z.doraAtDiscard = DueDahai(s, k) /\ z.doraAtTsumo = DueDraw(s, k)
                /\ z.doraFeed = shown - 1 - ShownIn(s, k)
  <2> SUFFICES ASSUME k # N
               PROVE  /\ z.doraAtDiscard = DueDahai(s, k) /\ z.doraAtTsumo = DueDraw(s, k)
                      /\ z.doraFeed = shown - 1 - ShownIn(s, k)
    OBVIOUS
  <2>1. ~NoTakesLeft(x)
    BY <1>12
  <2>2. DueDahai(s, k) \in BOOLEAN /\ DueDraw(s, k) \in BOOLEAN /\ D \in BOOLEAN
    BY DEF DueDahai, DueDraw, D
  <2>3. DueAtDiscard(x, d) <=> D /\ d.type \in {"dahai", "ankan"}
    BY <1>1 DEF DueAtDiscard
  <2>4. d.type \in {"dahai", "reach", "ankan", "kakan"}
    BY <1>4 DEF PutTypes
  <2>5. z.doraAtDiscard <=> d.type = "kakan"
    BY <1>1, <1>4, <1>17, <2>1, <2>3, <2>4
  <2>6. z.doraAtTsumo <=> D /\ d.type = "kakan"
    BY <1>1, <1>4, <1>17
  <2>7. z.doraAtDiscard \in BOOLEAN /\ z.doraAtTsumo \in BOOLEAN
    BY <1>17
  <2>8. z.doraFeed = shown - 1 - ShownIn(s, k)
    <3>1. ShownIn(s, k) = ShownIn(s, n) + ShownBefore(x) + ShownAfter(x)
      BY <1>4, <1>13
    <3> QED
      BY <1>1, <1>2, <1>13, <1>14, <1>17, <3>1
  <2> QED
    BY <1>4, <2>2, <2>5, <2>6, <2>7, <2>8
<1>23. CASE k = N
  <2>1. PhaseAfterDiscard(x) = "done"
    BY <1>12, <1>23 DEF PhaseAfterDiscard
  <2>2. Continues(s, k, z, "done")
    BY <1>23 DEF Continues, N
  <2>3. Track(s, k, shown, z, "done")
    BY <1>17, <1>18, <1>19, <1>20, <1>21, <2>2 DEF Track, N
  <2> QED
    BY <1>15, <2>1, <2>3 DEF z, k
<1>24. CASE k # N /\ d.type \in {"ankan", "kakan"}
  <2>1. PhaseAfterDiscard(x) = "take"
    BY <1>11, <1>12, <1>24 DEF PhaseAfterDiscard
  <2>2. k \in 0..Len(s) /\ k < Len(s) /\ k > 0 /\ s[k].type \in {"dahai", "ankan", "kakan", "daiminkan"}
        /\ s[k].type # "dahai"
    BY <1>2, <1>4, <1>21, <1>24 DEF N
  <2>3. s[NextAt(s, k)].type = "tsumo" /\ s[NextAt(s, k)].actor = s[k].actor
    BY <2>2, Onward
  <2>4. Continues(s, k, z, "take")
    <3>1. s[NextAt(s, k)].actor = z.actor /\ s[NextAt(s, k)].type \notin Nakis
      BY <1>4, <1>17, <2>3 DEF Nakis
    <3> QED
      BY <2>2, <3>1 DEF Continues
  <2>5. Track(s, k, shown, z, "take")
    BY <1>17, <1>18, <1>19, <1>20, <1>21, <1>22, <1>24, <2>4 DEF Track, N
  <2> QED
    BY <1>15, <2>1, <2>5 DEF z, k
<1>25. CASE k # N /\ d.type \notin {"ankan", "kakan"}
  <2>1. PhaseAfterDiscard(x) = "next"
    BY <1>11, <1>12, <1>25 DEF PhaseAfterDiscard
  <2>2. s[k].type = "dahai"
    BY <1>4, <1>25 DEF PutTypes
  <2>3. Continues(s, k, z, "next")
    <3>1. 0 < k /\ k < Len(s) /\ s[k].actor = z.actor /\ z.lastDiscard = s[k].pai
      BY <1>2, <1>4, <1>17, <1>25, <2>2 DEF N
    <3> QED
      BY <2>2, <3>1 DEF Continues
  <2>4. Track(s, k, shown, z, "next")
    BY <1>17, <1>18, <1>19, <1>20, <1>21, <1>22, <1>25, <2>3 DEF Track, N
  <2> QED
    BY <1>15, <2>1, <2>4 DEF z, k
<1> QED
  BY <1>23, <1>24, <1>25

\* The turn passes to the seat that took next.
LEMMA TrackPassed ==
  ASSUME NEW s, NEW shown, RoundOver(s, shown), NEW n, NEW x, Track(s, n, shown, x, "next")
  PROVE  Track(s, n, shown, PassTo(x, s[NextAt(s, n)].actor), "take")
<1> DEFINE k == NextAt(s, n)
           y == s[k]
           z == PassTo(x, y.actor)
<1>1. /\ x \in Searches /\ n \in 0..Len(s) /\ n < Len(s) /\ 0 < n
      /\ s[n].type = "dahai" /\ s[n].actor = x.actor /\ x.lastDiscard = s[n].pai
  BY DEF Track, Continues
<1>2. /\ k \in 1..Len(s) /\ y \in RoundEvents /\ AfterDahai(s[n], y)
  BY <1>1, Onward
<1>3. y.actor \in Seats
  BY <1>2 DEF RoundEvents
<1> HIDE DEF k, y, z
<1>4. /\ z \in Searches /\ z.takes = x.takes /\ z.discards = x.discards /\ z.actor = y.actor
      /\ z.events = x.events /\ z.doraFeed = x.doraFeed
      /\ z.takeIdx = x.takeIdx /\ z.discardIdx = x.discardIdx
      /\ z.reach = x.reach /\ z.lastDiscard = x.lastDiscard /\ z.lastActor = x.actor
      /\ z.doraAtTsumo = x.doraAtTsumo /\ z.doraAtDiscard = x.doraAtDiscard
  BY <1>1, <1>3, SearchPassed DEF z
<1>5. y.type \in Nakis => z.lastDiscard = y.pai /\ z.lastActor = y.target
  BY <1>1, <1>2, <1>4 DEF AfterDahai
<1>6. Continues(s, n, z, "take")
  BY <1>1, <1>4, <1>5 DEF Continues, y, k
<1>7. Track(s, n, shown, z, "take")
  BY <1>4, <1>6 DEF Track
<1> QED
  BY <1>7 DEF z, y, k

\* A call is seen as soon as the called discard is.
LEMMA NextClaims ==
  ASSUME NEW s, NEW shown, RoundOver(s, shown), NEW n, NEW x, Track(s, n, shown, x, "next")
  PROVE  LET y == s[NextAt(s, n)]
         IN IF y.type \in Nakis THEN y.actor \in Candidates(x) ELSE y.actor = Shimocha(x.actor)
<1> DEFINE k == NextAt(s, n)
           y == s[k]
           b == y.actor
           S == By(b, TakeTypes)
<1>1. /\ x \in Searches /\ n \in 0..Len(s) /\ n < Len(s) /\ 0 < n
      /\ s[n].type = "dahai" /\ s[n].actor = x.actor /\ x.lastDiscard = s[n].pai
      /\ \A a \in Seats : /\ x.takes[a] = Kept(s, By(a, TakeTypes))
                          /\ x.takeIdx[a] = Count(s, n, By(a, TakeTypes))
  BY DEF Track, Continues
<1>2. /\ k \in 1..Len(s) /\ y \in RoundEvents /\ y.type \in TakeTypes /\ AfterDahai(s[n], y)
  BY <1>1, Onward
<1>3. Count(s, k - 1, S) = Count(s, n, S)
  <2>1. \A a \in Seats, types \in {TakeTypes, PutTypes} :
          Count(s, k - 1, By(a, types)) = Count(s, n, By(a, types))
    BY <1>1, NextOnward
  <2> QED
    BY <1>2, <2>1 DEF RoundEvents
<1>4. b \in Seats
  BY <1>2 DEF RoundEvents
<1>5. y \in S
  BY <1>2 DEF By
<1>6. x.takes[b] = Kept(s, S) /\ x.takeIdx[b] = Count(s, n, S)
  BY <1>1, <1>4
<1>7. s \in Seq(RoundEvents) /\ s[k] = y
  BY DEF RoundOver, Ordered, Chain
<1> HIDE DEF k, y, S, b
<1>8. LET c == Count(s, k, S)
      IN /\ c = Count(s, k - 1, S) + 1 /\ Count(s, k - 1, S) \in Nat
         /\ c <= Len(Kept(s, S)) /\ Kept(s, S)[c] = s[k]
  <2>1. k \in 1..Len(s) /\ s[k] \in S
    BY <1>2, <1>5, <1>7
  <2> QED
    BY <1>7, <2>1, KeptAt
<1>9. Len(Kept(s, S)) \in Nat
  <2>1. Kept(s, S) \in Seq(RoundEvents \cap S)
    BY <1>7, KeptElements
  <2> QED
    BY <2>1, LenProperties
<1>10. MoreTakes(x, b) /\ NextTake(x, b) = y
  BY <1>3, <1>6, <1>7, <1>8, <1>9 DEF MoreTakes, NextTake
<1>11. CASE y.type \in Nakis
  <2>1. y.target = x.actor /\ y.pai = x.lastDiscard /\ b # x.actor
    BY <1>1, <1>2, <1>11 DEF AfterDahai, b
  <2>2. b \in Candidates(x)
    BY <1>4, <1>10, <1>11, <2>1 DEF Candidates, IsNaki
  <2> QED
    BY <1>11, <2>2 DEF b, y, k
<1>12. CASE y.type \notin Nakis
  <2>1. y.type = "tsumo"
    BY <1>2, <1>12 DEF TakeTypes
  <2>2. b = Shimocha(x.actor)
    BY <1>1, <1>2, <2>1 DEF AfterDahai, b
  <2> QED
    BY <1>12, <2>2 DEF b, y, k
<1> QED
  BY <1>11, <1>12

\* A claim that fits no later discard is the call that was played.
LEMMA ClaimIsNext ==
  ASSUME NEW s, NEW shown, RoundOver(s, shown), NEW n, NEW x, Track(s, n, shown, x, "next"),
         ~Ambiguous(x), NEW b \in Candidates(x)
  PROVE  b = s[NextAt(s, n)].actor
<1> DEFINE S == By(b, TakeTypes)
           P == By(x.actor, PutTypes)
           c == Count(s, n, S)
           e == Event("dahai", x.actor, x.actor, x.lastDiscard)
           i == c + 1
<1>1. /\ x \in Searches /\ n \in 0..Len(s) /\ n < Len(s) /\ 0 < n
      /\ s[n].type = "dahai" /\ s[n].actor = x.actor /\ x.lastDiscard = s[n].pai
      /\ \A a \in Seats :
           /\ x.takes[a] = Kept(s, By(a, TakeTypes)) /\ x.discards[a] = Kept(s, By(a, PutTypes))
           /\ x.takeIdx[a] = Count(s, n, By(a, TakeTypes))
           /\ x.discardIdx[a] = Count(s, n, By(a, PutTypes))
  BY DEF Track, Continues
<1>2. Ordered(s) /\ s \in Seq(RoundEvents) /\ Len(s) \in Nat /\ n \in Nat
  <2>1. Ordered(s) /\ s \in Seq(RoundEvents)
    BY DEF RoundOver, Ordered, Chain
  <2> QED
    BY <1>1, <2>1, LenProperties
<1>3. /\ b \in Seats /\ MoreTakes(x, b) /\ NextTake(x, b).type \in Nakis
      /\ NextTake(x, b).target = x.actor /\ NextTake(x, b).pai = x.lastDiscard
  BY DEF Candidates, IsNaki
<1>4. x.actor \in Seats
  BY <1>1 DEF Searches
<1>5. /\ x.takes[b] = Kept(s, S) /\ x.takeIdx[b] = c
      /\ x.discards[x.actor] = Kept(s, P) /\ x.discardIdx[x.actor] = Count(s, n, P)
  BY <1>1, <1>3, <1>4
<1>6. c < Len(Kept(s, S)) /\ NextTake(x, b) = Kept(s, S)[i]
  BY <1>3, <1>5 DEF MoreTakes, NextTake
<1>7. \A z \in S : z.actor = b
  BY DEF By
<1> HIDE DEF S
<1>8. c \in Nat /\ Len(Kept(s, S)) \in Nat
  <2>1. Kept(s, S) \in Seq(RoundEvents \cap S)
    BY <1>2, KeptElements
  <2>2. \A j \in 0..Len(s) : Count(s, j, S) \in Nat
    BY <1>2, CountNext
  <2> QED
    BY <1>1, <2>1, <2>2, LenProperties
<1>9. PICK m \in (n + 1)..Len(s) : s[m] \in S /\ Kept(s, S)[i] = s[m]
  <2>1. i \in Nat /\ Count(s, n, S) < i /\ i <= Len(Kept(s, S))
    BY <1>6, <1>8
  <2> HIDE DEF i, c
  <2>2. \E m \in (n + 1)..Len(s) : s[m] \in S /\ Count(s, m, S) = i /\ Kept(s, S)[i] = s[m]
    BY <1>1, <1>2, <2>1, KeptFrom
  <2> QED
    BY <2>2
<1>10. s[m].type \in Nakis /\ s[m].target = x.actor /\ s[m].pai = x.lastDiscard /\ s[m].actor = b
  BY <1>3, <1>6, <1>7, <1>9
<1>11. m \in 1..Len(s) /\ m \in Nat
  BY <1>2, <1>9
<1>12. PICK d \in 1..(m - 1) : s[d] = e /\ (d = m - 1 \/ (d = m - 2 /\ Reached(s, d)))
  <2>1. \E d \in 1..(m - 1) :
          /\ s[d] = Event("dahai", s[m].target, s[m].target, s[m].pai)
          /\ d = m - 1 \/ (d = m - 2 /\ Reached(s, d))
    BY <1>2, <1>10, <1>11, NakiAnswers
  <2> QED
    BY <1>10, <2>1
<1> HIDE DEF c, i
<1>13. d <= n
  <2> SUFFICES ASSUME d > n PROVE FALSE
    BY <1>2, <1>12
  <2>1. d \in 1..Len(s) /\ n \in 0..(d - 1) /\ d - 1 \in 0..Len(s)
    BY <1>2, <1>11, <1>12
  <2>2. s[d] \in P
    <3>1. s[d] \in RoundEvents
      BY <1>2, <2>1, EventAt
    <3>2. e.type = "dahai" /\ e.actor = x.actor
      BY DEF Event
    <3> QED
      BY <1>12, <3>1, <3>2 DEF By, PutTypes
  <2> HIDE DEF P
  <2> DEFINE j == Count(s, d, P)
  <2>3. /\ j = Count(s, d - 1, P) + 1 /\ Count(s, d - 1, P) \in Nat
        /\ j <= Len(Kept(s, P)) /\ Kept(s, P)[j] = s[d]
    BY <1>2, <2>1, <2>2, KeptAt
  <2>4. Count(s, n, P) <= Count(s, d - 1, P)
    BY <1>2, <2>1, CountGrows
  <2>5. Count(s, n, P) \in Nat /\ Len(Kept(s, P)) \in Nat
    <3>1. \A l \in 0..Len(s) : Count(s, l, P) \in Nat
      BY <1>2, CountNext
    <3>2. Kept(s, P) \in Seq(RoundEvents \cap P)
      BY <1>2, KeptElements
    <3> QED
      BY <1>1, <3>1, <3>2, LenProperties
  <2> HIDE DEF j
  <2>6. j \in (x.discardIdx[x.actor] + 1)..Len(x.discards[x.actor]) /\ x.discards[x.actor][j] = e
    BY <1>5, <1>12, <2>3, <2>4, <2>5
  <2> QED
    BY <2>6 DEF Ambiguous
<1>14. m = NextAt(s, n)
  <2>1. Reached(s, n) => s[n + 1] = Event("reach_accepted", s[n].actor, s[n].actor, Other)
    BY <1>1, Onward
  <2>2. CASE d = m - 1
    <3>1. d = n /\ m = n + 1
      BY <1>2, <1>9, <1>11, <1>13, <2>2
    <3>2. ~Reached(s, n)
      BY <1>10, <2>1, <3>1 DEF Event, Nakis
    <3> QED
      BY <3>1, <3>2 DEF NextAt
  <2>3. CASE d = m - 2 /\ Reached(s, d) /\ d = n
    <3>1. m = n + 2
      BY <1>2, <1>11, <2>3
    <3> QED
      BY <2>3, <3>1 DEF NextAt
  <2>4. CASE d = m - 2 /\ Reached(s, d) /\ d # n
    <3>1. d = n - 1 /\ d + 1 = n /\ d \in 0..Len(s) /\ d < Len(s)
      BY <1>1, <1>2, <1>9, <1>11, <1>12, <1>13, <2>4
    <3>2. s[d].type = "dahai"
      BY <2>4 DEF Reached
    <3>3. s[d + 1] = Event("reach_accepted", s[d].actor, s[d].actor, Other)
      BY <2>4, <3>1, <3>2, Onward
    <3>4. s[n].type = "reach_accepted"
      BY <3>1, <3>3 DEF Event
    <3> QED
      BY <1>1, <3>4
  <2> QED
    BY <1>12, <2>2, <2>3, <2>4
<1> QED
  BY <1>10, <1>14

LEMMA TrackNext ==
  ASSUME NEW s, NEW shown, RoundOver(s, shown), NEW n, NEW x, Track(s, n, shown, x, "next")
  PROVE  /\ NobodyClaims(x) => Track(s, n, shown, PassTo(x, Shimocha(x.actor)), "take")
         /\ Certain(x) => Track(s, n, shown, PassTo(x, Caller(x)), "take")
<1> DEFINE y == s[NextAt(s, n)]
<1>1. Track(s, n, shown, PassTo(x, y.actor), "take")
  BY TrackPassed
<1>2. IF y.type \in Nakis THEN y.actor \in Candidates(x) ELSE y.actor = Shimocha(x.actor)
  BY NextClaims
<1>3. \A b \in Candidates(x) : ~Ambiguous(x) => b = y.actor
  BY ClaimIsNext
<1> HIDE DEF y
<1>4. NobodyClaims(x) => y.actor = Shimocha(x.actor)
  BY <1>2 DEF NobodyClaims
<1>5. Certain(x) => y.actor = Caller(x)
  <2> SUFFICES ASSUME Certain(x) PROVE y.actor = Caller(x)
    OBVIOUS
  <2>1. Caller(x) \in Candidates(x)
    BY CallerExists DEF Certain
  <2> QED
    BY <1>3, <2>1 DEF Certain
<1> QED
  BY <1>1, <1>4, <1>5

-----------------------------------------------------------------------------
(***************************************************************************)
(* The search, as long as it does not guess.                               *)
(***************************************************************************)

\* The first attempt begins with the first event.
LEMMA TrackBegins ==
  ASSUME NEW s, RoundOver(s, indicators), NEW l, NEW m,
         l = [a \in Seats |-> Kept(s, By(a, TakeTypes))],
         m = [a \in Seats |-> Kept(s, By(a, PutTypes))]
  PROVE  Track(s, 0, indicators, FreshAttempt(l, m), "take")
<1> DEFINE x == FreshAttempt(l, m)
<1>1. s \in Seq(RoundEvents) /\ Len(s) \in Nat /\ Len(s) > 0 /\ indicators \in Nat \ {0} /\ 0 \in 0..Len(s)
  <2>1. s \in Seq(RoundEvents)
    BY DEF RoundOver, Ordered, Chain
  <2> QED
    BY <2>1, LenProperties DEF RoundOver
<1>2. \A S : Kept(s, S) \in Seq(RoundEvents) /\ Count(s, 0, S) = 0
  <2> SUFFICES ASSUME NEW S PROVE Kept(s, S) \in Seq(RoundEvents) /\ Count(s, 0, S) = 0
    OBVIOUS
  <2>1. Kept(s, S) \in Seq(RoundEvents \cap S)
    BY <1>1, KeptElements
  <2>2. RoundEvents \cap S \subseteq RoundEvents
    OBVIOUS
  <2>3. Kept(s, S) \in Seq(RoundEvents)
    BY <2>1, <2>2, SeqMonotonic
  <2> QED
    BY <1>1, <2>3, CountNext
<1>3. x.events = << >> /\ Kept(x.events, RoundEvents) = First(s, 0) /\ x.events \in Seq(RoundEvents \cup {Dora})
  <2>1. First(s, 0) = << >>
    BY <1>1, Firsts
  <2>2. x.events = << >>
    BY DEF FreshAttempt
  <2> QED
    BY <2>1, <2>2, KeptEmpty, EmptySeq
<1>4. ~Reached(s, 0) /\ ~DueDahai(s, 0) /\ ~DueDraw(s, 0) /\ ShownIn(s, 0) = 0
  <2>1. ~Reached(s, 0) /\ ~DueDahai(s, 0) /\ ~DueDraw(s, 0)
    BY DEF Reached, DueDahai, DueDraw
  <2>2. KansUpTo(s, 0) = 0
    BY <1>2 DEF KansUpTo, Count
  <2> QED
    BY <2>1, <2>2 DEF ShownIn, Num
<1>5. x \in Searches
  <2>1. l \in [Seats -> Seq(RoundEvents)] /\ m \in [Seats -> Seq(RoundEvents)]
    BY <1>2
  <2>2. 0 \in Seats /\ [a \in Seats |-> 0] \in [Seats -> Nat] /\ indicators - 1 \in Int
    BY <1>1 DEF Seats
  <2>3. << >> \in Seq(RoundEvents \cup {Dora})
    BY <1>3
  <2> QED
    BY <2>1, <2>2, <2>3 DEF FreshAttempt, Searches
<1>6. /\ x.takes = l /\ x.discards = m /\ x.takeIdx = [a \in Seats |-> 0] /\ x.discardIdx = [a \in Seats |-> 0]
      /\ x.reach = Nobody /\ x.doraAtDiscard = FALSE /\ x.doraAtTsumo = FALSE
      /\ x.doraFeed = indicators - 1 /\ x.actor = 0
  BY DEF FreshAttempt
<1> HIDE DEF x
<1>7. Continues(s, 0, x, "take")
  <2>1. s[NextAt(s, 0)].type = "tsumo" /\ s[NextAt(s, 0)].actor = 0
    BY <1>1, Onward
  <2> QED
    BY <1>1, <1>6, <2>1 DEF Continues, Nakis
<1>8. DueDahai(s, 0) = FALSE /\ DueDraw(s, 0) = FALSE
  BY DEF DueDahai, DueDraw
<1>9. ASSUME NEW a \in Seats
      PROVE  /\ x.takes[a] = Kept(s, By(a, TakeTypes)) /\ x.discards[a] = Kept(s, By(a, PutTypes))
             /\ x.takeIdx[a] = Count(s, 0, By(a, TakeTypes))
             /\ x.discardIdx[a] = Count(s, 0, By(a, PutTypes))
  BY <1>2, <1>6
<1>10. x.doraFeed = indicators - 1 - ShownIn(s, 0)
  BY <1>1, <1>4, <1>6
<1>11. Track(s, 0, indicators, x, "take")
  BY <1>1, <1>3, <1>4, <1>5, <1>6, <1>7, <1>8, <1>9, <1>10 DEF Track
<1> QED
  BY <1>11 DEF x

\* A key of backtracks names a discard that the attempt has passed.
Noted(B, x, ph) ==
  \A p : \A a \in Seats, i \in Nat :
    <<p, a, i>> \in DOMAIN B => /\ i <= x.discardIdx[a]
                                /\ ph = "next" /\ a = x.actor => i < x.discardIdx[a]

LEMMA NotedKey ==
  ASSUME NEW B, NEW x, NEW ph, Noted(B, x, ph),
         NEW p, NEW a \in Seats, NEW i \in Nat, NEW k, k = <<p, a, i>>, k \in DOMAIN B
  PROVE  i <= x.discardIdx[a] /\ (ph = "next" /\ a = x.actor => i < x.discardIdx[a])
<1>1. <<p, a, i>> \in DOMAIN B
  OBVIOUS
<1> QED
  BY <1>1 DEF Noted

UnguessedInv ==
  /\ phase = "play" => begun = {} /\ backtracks = << >> /\ attempt.events = << >>
  /\ phase # "play" => RoundOver(played, indicators)
  /\ phase # "play" /\ Unguessed =>
       /\ phase \in {"take", "discard", "next", "done"}
       /\ \E n : Track(played, n, indicators, attempt, phase)
  /\ phase # "play" /\ begun \subseteq {<< >>} =>
       AttemptOK(attempt) /\ Noted(backtracks, attempt, phase)

CertainInv == PlayInv /\ ListsInv /\ TurnsInv /\ UnguessedInv

LEMMA CertainBegins == ConvInit => CertainInv
<1> SUFFICES ASSUME ConvInit PROVE CertainInv
  OBVIOUS
<1>1. Init /\ PlayInv
  BY PlayBegins DEF ConvInit
<1>2. ListsInv /\ TurnsInv
  BY <1>1, ListsInit, TurnsInit
<1>3. phase = "play" /\ begun = {} /\ backtracks = << >> /\ attempt.events = << >>
  BY DEF ConvInit, FreshAttempt
<1> QED
  BY <1>1, <1>2, <1>3 DEF CertainInv, UnguessedInv

LEMMA StartStep ==
  ASSUME CertainInv, StartConversion PROVE UnguessedInv'
<1>1. /\ phase = "play" /\ Over /\ phase' = "take" /\ backtracks' = backtracks /\ UNCHANGED roundVars
      /\ attempt' = FreshAttempt(takeEvents', discardEvents')
      /\ takeEvents' = [a \in Seats |-> TakesOf(a)] /\ discardEvents' = [a \in Seats |-> DiscardsOf(a)]
  BY DEF StartConversion
<1>2. backtracks = << >>
  BY <1>1 DEF CertainInv, UnguessedInv
<1>3. RoundOver(played, indicators)
  BY <1>1, OverIs DEF CertainInv, PlayInv
<1>4. played' = played /\ indicators' = indicators
  BY <1>1 DEF roundVars
<1> DEFINE l == [a \in Seats |-> Kept(played, By(a, TakeTypes))]
           m == [a \in Seats |-> Kept(played, By(a, PutTypes))]
<1>5. takeEvents' = l /\ discardEvents' = m
  BY <1>1 DEF CertainInv, ListsInv
<1>6. attempt' = FreshAttempt(l, m)
  BY <1>1, <1>5
<1>7. Track(played, 0, indicators, attempt', "take")
  <2>1. l = [a \in Seats |-> Kept(played, By(a, TakeTypes))] /\ m = [a \in Seats |-> Kept(played, By(a, PutTypes))]
    OBVIOUS
  <2> HIDE DEF l, m
  <2>2. Track(played, 0, indicators, FreshAttempt(l, m), "take")
    BY <1>3, <2>1, TrackBegins
  <2> QED
    BY <1>6, <2>2
<1>8. AttemptOK(attempt')
  BY <1>6, FreshOK
<1>9. Noted(backtracks', attempt', "take")
  <2>1. DOMAIN backtracks' = {}
    BY <1>1, <1>2
  <2> QED
    BY <2>1 DEF Noted
<1> QED
  BY <1>1, <1>3, <1>4, <1>7, <1>8, <1>9 DEF UnguessedInv

\* A take or a discard, also one that fails.
LEMMA MoveStep ==
  ASSUME CertainInv, Take \/ DiscardStep PROVE UnguessedInv'
<1> DEFINE put == phase = "discard"
           s == played
           N == indicators
           x == attempt
<1>1. /\ phase \in {"take", "discard"} /\ UNCHANGED <<roundVars, backtracks, begun>>
      /\ ~put => IF TakeFails(x) THEN Fail ELSE attempt' = Taken(x) /\ phase' = PhaseAfterTake(x)
      /\ put => IF DiscardFails(x) THEN Fail ELSE attempt' = Thrown(x) /\ phase' = PhaseAfterDiscard(x)
  BY DEF Take, DiscardStep
<1>2. played' = s /\ indicators' = N /\ RoundOver(s, N)
  BY <1>1 DEF roundVars, CertainInv, UnguessedInv
<1>3. phase' # "play" /\ (phase' = "next" => put /\ attempt' = Thrown(x))
  BY <1>1 DEF Fail, PhaseAfterTake, PhaseAfterDiscard
<1>4. ASSUME Unguessed'
      PROVE  phase' \in {"take", "discard", "next", "done"} /\ \E n : Track(s, n, N, attempt', phase')
  <2>1. Unguessed
    BY <1>1, <1>4 DEF Unguessed
  <2>2. PICK n : Track(s, n, N, x, phase)
    BY <1>1, <2>1 DEF CertainInv, UnguessedInv
  <2>3. CASE ~put
    <3>1. Track(s, n, N, x, "take")
      BY <1>1, <2>2, <2>3
    <3>2. /\ ~TakeFails(x) /\ PhaseAfterTake(x) \in {"take", "discard", "done"}
          /\ Track(s, NextAt(s, n), N, Taken(x), PhaseAfterTake(x))
      BY <1>2, <3>1, TrackTaken
    <3> QED
      BY <1>1, <2>3, <3>2
  <2>4. CASE put
    <3>1. Track(s, n, N, x, "discard")
      BY <2>2, <2>4
    <3>2. /\ ~DiscardFails(x) /\ PhaseAfterDiscard(x) \in {"take", "next", "done"}
          /\ Track(s, PutAt(s, n), N, Thrown(x), PhaseAfterDiscard(x))
      BY <1>2, <3>1, TrackThrown
    <3> QED
      BY <1>1, <2>4, <3>2
  <2> QED
    BY <2>3, <2>4
<1>5. ASSUME begun' \subseteq {<< >>} PROVE AttemptOK(attempt') /\ Noted(backtracks', attempt', phase')
  <2>1. AttemptOK(x) /\ Noted(backtracks, x, phase)
    BY <1>1, <1>5 DEF CertainInv, UnguessedInv
  <2>2. CASE attempt' = x
    <3>1. phase' # "next" \/ attempt' = Thrown(x)
      BY <1>3
    <3>2. x.actor \in Seats /\ x.discardIdx \in [Seats -> Nat]
      BY <2>1 DEF AttemptOK
    <3>3. x = Thrown(x) => FALSE
      <4>1. x.discardIdx[x.actor] < Thrown(x).discardIdx[x.actor]
        BY <2>1, ThrownOK
      <4> QED
        BY <3>2, <4>1
    <3> QED
      BY <1>1, <2>1, <2>2, <3>1, <3>3 DEF Noted
  <2>3. CASE ~put /\ attempt' = Taken(x)
    <3>1. AttemptOK(attempt') /\ attempt'.discardIdx = x.discardIdx /\ phase' # "next"
      BY <1>3, <2>1, <2>3, TakenOK
    <3> QED
      BY <1>1, <2>1, <3>1 DEF Noted
  <2>4. CASE attempt' = Thrown(x)
    <3> DEFINE y == Thrown(x)
    <3>1. /\ AttemptOK(y) /\ \A a \in Seats : x.discardIdx[a] <= y.discardIdx[a]
          /\ x.discardIdx[x.actor] < y.discardIdx[x.actor] /\ y.actor = x.actor
      BY <2>1, ThrownOK
    <3>2. \A a \in Seats : x.discardIdx[a] \in Nat /\ y.discardIdx[a] \in Nat
      BY <2>1, <3>1 DEF AttemptOK
    <3> HIDE DEF y
    <3>3. Noted(backtracks, y, phase')
      BY <2>1, <3>1, <3>2 DEF Noted
    <3> QED
      BY <1>1, <2>4, <3>1, <3>3 DEF y
  <2> QED
    BY <1>1, <2>2, <2>3, <2>4 DEF Fail
<1> QED
  BY <1>2, <1>3, <1>4, <1>5 DEF UnguessedInv

\* The turn passes without a guess.
LEMMA PassStep ==
  ASSUME CertainInv, NobodyCalls \/ CallIsCertain PROVE UnguessedInv'
<1> DEFINE s == played
           N == indicators
           x == attempt
<1>1. PICK a : /\ phase = "next" /\ GoTo(a) /\ backtracks' = backtracks
               /\ \/ NobodyClaims(x) /\ a = Shimocha(x.actor)
                  \/ Certain(x) /\ a = Caller(x)
  BY DEF NobodyCalls, CallIsCertain
<1>2. attempt' = PassTo(x, a) /\ phase' = "take" /\ UNCHANGED roundVars /\ begun' = begun
  BY <1>1 DEF GoTo
<1>3. played' = s /\ indicators' = N /\ RoundOver(s, N)
  BY <1>1, <1>2 DEF roundVars, CertainInv, UnguessedInv
<1>4. ASSUME Unguessed' PROVE \E n : Track(s, n, N, attempt', "take")
  <2>1. Unguessed
    BY <1>1, <1>2, <1>4 DEF Unguessed
  <2>2. PICK n : Track(s, n, N, x, "next")
    BY <1>1, <2>1 DEF CertainInv, UnguessedInv
  <2>3. Track(s, n, N, PassTo(x, a), "take")
    BY <1>1, <1>3, <2>2, TrackNext
  <2> QED
    BY <1>2, <2>3
<1>5. ASSUME begun' \subseteq {<< >>} PROVE AttemptOK(attempt') /\ Noted(backtracks', attempt', "take")
  <2>1. AttemptOK(x) /\ Noted(backtracks, x, phase)
    BY <1>1, <1>2, <1>5 DEF CertainInv, UnguessedInv
  <2>2. a \in Seats
    <3>1. Certain(x) => Caller(x) \in Seats
      BY CallerExists DEF Certain, Candidates
    <3>2. x.actor \in Seats => Shimocha(x.actor) \in Seats
      BY DEF Seats, Shimocha
    <3> QED
      BY <1>1, <2>1, <3>1, <3>2 DEF AttemptOK
  <2>3. AttemptOK(attempt') /\ attempt'.discardIdx = x.discardIdx
    BY <1>2, <2>1, <2>2, PassToOK
  <2> QED
    BY <1>1, <2>1, <2>3 DEF Noted
<1> QED
  BY <1>2, <1>3, <1>4, <1>5 DEF UnguessedInv

\* A guess is noted, and an attempt does not come to the same guess twice.
LEMMA GuessStep ==
  ASSUME CertainInv, GuessFirst \/ GuessSecond \/ GiveUpGuess PROVE UnguessedInv'
<1> DEFINE x == attempt
           g == Guess(x)
<1>1. PICK a : phase = "next" /\ GoTo(a) /\ Doubtful(x)
  BY DEF GuessFirst, GuessSecond, GiveUpGuess
<1>2. attempt' = PassTo(x, a) /\ phase' = "take" /\ UNCHANGED roundVars /\ begun' = begun
  BY <1>1 DEF GoTo
<1>3. RoundOver(played', indicators')
  BY <1>1, <1>2 DEF roundVars, CertainInv, UnguessedInv
<1>4. begun \subseteq {<< >>} =>
        /\ AttemptOK(x) /\ Noted(backtracks, x, "next") /\ g \notin DOMAIN backtracks
  <2> SUFFICES ASSUME begun \subseteq {<< >>}
               PROVE  AttemptOK(x) /\ Noted(backtracks, x, "next") /\ g \notin DOMAIN backtracks
    OBVIOUS
  <2>1. AttemptOK(x) /\ Noted(backtracks, x, "next")
    BY <1>1 DEF CertainInv, UnguessedInv
  <2>2. x.actor \in Seats /\ x.discardIdx[x.actor] \in Nat
    BY <2>1 DEF AttemptOK
  <2>3. ASSUME g \in DOMAIN backtracks PROVE FALSE
    <3>1. g = <<x.lastDiscard, x.actor, x.discardIdx[x.actor]>>
      BY DEF Guess
    <3> HIDE DEF g
    <3>2. x.discardIdx[x.actor] < x.discardIdx[x.actor]
      BY <2>1, <2>2, <2>3, <3>1, NotedKey
    <3> QED
      BY <2>2, <3>2
  <2> QED
    BY <2>1, <2>3
<1>5. CASE GuessFirst
  <2>1. /\ attempt' = PassTo(x, Caller(x))
        /\ backtracks' = [h \in DOMAIN backtracks \cup {g} |-> IF h = g THEN TRUE ELSE backtracks[h]]
    BY <1>5 DEF GuessFirst, GoTo
  <2>2. DOMAIN backtracks' = DOMAIN backtracks \cup {g}
    BY <2>1
  <2>3. ~Unguessed'
    BY <2>2 DEF Unguessed
  <2>4. ASSUME begun' \subseteq {<< >>} PROVE AttemptOK(attempt') /\ Noted(backtracks', attempt', "take")
    <3>1. AttemptOK(x) /\ Noted(backtracks, x, "next")
      BY <1>2, <1>4, <2>4
    <3>2. Caller(x) \in Seats
      BY <1>1, CallerExists DEF Doubtful, Candidates
    <3>3. AttemptOK(attempt') /\ attempt'.discardIdx = x.discardIdx
      BY <2>1, <3>1, <3>2, PassToOK
    <3>4. ASSUME NEW p, NEW b \in Seats, NEW i \in Nat, <<p, b, i>> \in DOMAIN backtracks'
          PROVE  i <= x.discardIdx[b]
      <4>1. CASE <<p, b, i>> \in DOMAIN backtracks
        <5> DEFINE k == <<p, b, i>>
        <5>1. k = <<p, b, i>> /\ k \in DOMAIN backtracks
          BY <4>1
        <5> HIDE DEF k
        <5> QED
          BY <3>1, <5>1, NotedKey
      <4>2. CASE <<p, b, i>> = g
        <5>1. b = x.actor /\ i = x.discardIdx[x.actor]
          BY <4>2 DEF Guess
        <5> QED
          BY <5>1
      <4> QED
        BY <2>2, <3>4, <4>1, <4>2
    <3> QED
      BY <3>3, <3>4 DEF Noted
  <2> QED
    BY <1>2, <1>3, <2>3, <2>4 DEF UnguessedInv
<1>6. CASE GuessSecond \/ GiveUpGuess
  <2>1. g \in DOMAIN backtracks
    BY <1>6 DEF GuessSecond, GiveUpGuess
  <2>2. ~(begun' \subseteq {<< >>}) /\ ~Unguessed'
    BY <1>2, <1>4, <2>1 DEF Unguessed
  <2> QED
    BY <1>2, <1>3, <2>2 DEF UnguessedInv
<1> QED
  BY <1>5, <1>6

\* An attempt that has not guessed does not fail, so it is not repeated.
LEMMA RetryStep ==
  ASSUME CertainInv, Retry PROVE UnguessedInv'
<1>1. /\ phase = "failed" /\ phase' \in {"error", "take"} /\ begun' = begun \cup {backtracks}
      /\ UNCHANGED <<roundVars, backtracks>>
  BY DEF Retry
<1>2. ~Unguessed /\ RoundOver(played, indicators)
  BY <1>1 DEF CertainInv, UnguessedInv
<1>3. ~(begun' \subseteq {<< >>})
  <2> SUFFICES ASSUME begun' \subseteq {<< >>} PROVE FALSE
    OBVIOUS
  <2>1. begun \subseteq {<< >>} /\ backtracks = << >>
    BY <1>1
  <2>2. DOMAIN backtracks = {}
    BY <2>1
  <2> QED
    BY <1>2, <2>1, <2>2 DEF Unguessed
<1> QED
  BY <1>1, <1>2, <1>3 DEF UnguessedInv, Unguessed, roundVars

LEMMA CertainGoesOn == CertainInv /\ [Next]_vars => CertainInv'
<1> SUFFICES ASSUME CertainInv, [Next]_vars PROVE CertainInv'
  OBVIOUS
<1>1. PlayInv'
  BY PlayGoesOn DEF CertainInv
<1>2. ListsInv' /\ TurnsInv'
  <2>1. CASE Play
    BY <2>1, ListsStep, TurnsStep DEF CertainInv, PlayInv
  <2>2. CASE UNCHANGED roundVars
    <3>1. takes' = takes /\ discards' = discards /\ played' = played /\ table' = table
          /\ indicators' = indicators
      BY <2>2 DEF roundVars
    <3>2. ListsInv'
      BY <3>1 DEF CertainInv, ListsInv, TakesOf, DiscardsOf
    <3>3. TurnsInv'
      BY <3>1 DEF CertainInv, TurnsInv, TableFits
    <3> QED
      BY <3>2, <3>3
  <2> QED
    BY <2>1, <2>2, ConvertLeaves DEF Next, PlayRound, vars
<1>3. UnguessedInv'
  <2>1. CASE PlayRound
    BY <2>1 DEF PlayRound, convVars, CertainInv, UnguessedInv
  <2>2. CASE UNCHANGED vars
    BY <2>2 DEF vars, roundVars, convVars, CertainInv, UnguessedInv, Unguessed
  <2>3. CASE Convert
    BY <2>3, StartStep, MoveStep, PassStep, GuessStep, RetryStep DEF Convert
  <2> QED
    BY <2>1, <2>2, <2>3 DEF Next
<1> QED
  BY <1>1, <1>2, <1>3 DEF CertainInv

\* Without the indicators the events of an attempt are events of the round.
LEMMA WithoutDoraIs ==
  ASSUME NEW ev \in Seq(RoundEvents \cup {Dora})
  PROVE  WithoutDora(ev) = Kept(ev, RoundEvents)
<1> DEFINE A == Range(ev) \ {Dora}
           S == RoundEvents
           T == RoundEvents \cup {Dora}
<1>1. \A i \in DOMAIN ev : ev[i] \in T
  <2>1. DOMAIN ev = 1..Len(ev) /\ \A i \in 1..Len(ev) : ev[i] \in RoundEvents \cup {Dora}
    BY LenProperties, ElementOfSeq
  <2> QED
    BY <2>1
<1>2. Dora \notin S
  BY DEF Dora, Event, RoundEvents, Nakis
<1>3. \A x \in {ev[i] : i \in DOMAIN ev} : x \in A <=> x \in S
  BY <1>1, <1>2 DEF Range
<1> HIDE DEF A, S
<1>4. Kept(ev, A) = Kept(ev, S)
  BY <1>3, KeptRange
<1> QED
  BY <1>4 DEF WithoutDora, A, S

LEMMA FirstIsPrefix ==
  ASSUME NEW s \in Seq(RoundEvents), NEW n \in 0..Len(s)
  PROVE  IsPrefix(First(s, n), s)
<1> DEFINE f == First(s, n)
<1>1. f \in Seq(RoundEvents) /\ Len(f) = n /\ Len(s) \in Nat
  BY Firsts
<1> HIDE DEF f
<1>2. First(f, Len(f)) = f
  BY <1>1, Firsts
<1>3. SubSeq(f, 1, Len(f)) = SubSeq(s, 1, Len(f))
  BY <1>1, <1>2 DEF First, f
<1>4. IsPrefix(f, s)
  BY <1>1, <1>3 DEF IsPrefix
<1> QED
  BY <1>4 DEF f

LEMMA Right == CertainInv => CertainIsRight
<1> SUFFICES ASSUME CertainInv, Unguessed
             PROVE  /\ phase \notin {"failed", "error"}
                    /\ IsPrefix(WithoutDora(attempt.events), played)
                    /\ phase = "done" => WithoutDora(attempt.events) = played
  BY DEF CertainIsRight
<1> DEFINE ev == attempt.events
<1>1. played \in Seq(RoundEvents)
  BY DEF CertainInv, PlayInv, PlayedInv, Chain
<1>2. PICK n \in 0..Len(played) :
        /\ ev \in Seq(RoundEvents \cup {Dora}) /\ Kept(ev, RoundEvents) = First(played, n)
        /\ phase = "play" \/ phase \in {"take", "discard", "next", "done"}
        /\ phase = "done" => n = Len(played)
  <2>1. CASE phase = "play"
    <3>1. ev = << >>
      BY <2>1 DEF CertainInv, UnguessedInv
    <3>2. 0 \in 0..Len(played) /\ First(played, 0) = << >>
      BY <1>1, Firsts
    <3>3. << >> \in Seq(RoundEvents \cup {Dora})
      BY EmptySeq
    <3> QED
      BY <2>1, <3>1, <3>2, <3>3, KeptEmpty
  <2>2. CASE phase # "play"
    <3>1. phase \in {"take", "discard", "next", "done"}
      BY <2>2 DEF CertainInv, UnguessedInv
    <3>2. PICK n : Track(played, n, indicators, attempt, phase)
      BY <2>2 DEF CertainInv, UnguessedInv
    <3>3. /\ n \in 0..Len(played) /\ attempt \in Searches
          /\ Kept(ev, RoundEvents) = First(played, n)
          /\ phase = "done" => n = Len(played)
      BY <3>2 DEF Track, Continues
    <3>4. ev \in Seq(RoundEvents \cup {Dora})
      BY <3>3 DEF Searches
    <3> QED
      BY <3>1, <3>3, <3>4
  <2> QED
    BY <2>1, <2>2
<1> HIDE DEF ev
<1>3. WithoutDora(ev) = First(played, n)
  BY <1>2, WithoutDoraIs
<1>4. IsPrefix(WithoutDora(ev), played)
  BY <1>1, <1>3, FirstIsPrefix
<1>5. phase = "done" => WithoutDora(ev) = played
  BY <1>1, <1>2, <1>3, Firsts
<1> QED
  BY <1>2, <1>4, <1>5 DEF ev

\* Of every round that can be played, of any length and whatever it ends on: as
\* long as no call fits two equal discards, the conversion goes through the
\* events in the order in which they were played.  It does not fail, the
\* indicators of the log suffice at every kan, each call is given to the seat
\* that made it, and it is done with the last event and not before (conv.rs:105-425).
THEOREM CertainIsPlayed == Spec => []CertainIsRight
<1> QED
  BY CertainBegins, CertainGoesOn, Right, PTL DEF Spec
=============================================================================
