------------------------------ MODULE MeldCodes ------------------------------
(***************************************************************************)
(* A call on its way from an mjlog to mjai, through four encodings: the    *)
(* bits of an N tag (crates/mjlog), the tiles in the order in which they   *)
(* lie on the table (crates/mjlog2json-core), a text of tiles with a       *)
(* letter between them (crates/tenhou-json), and the event (crates/        *)
(* convlog).  Which copy was called, from whom, and whether it was the red *)
(* five is in each of them in another place.                               *)
(*                                                                         *)
(* A direction is the distance of the seat called from.  A text is its     *)
(* letter, the number of tiles before the letter, and its tiles.           *)
(***************************************************************************)
EXTENDS Integers, Sequences, SequencesExt

Shimo == 1
Toimen == 2
Kami == 3

\* Hai: 0..135, four copies of each kind; the first copy of a five is red
Kind(hai) == hai \div 4
IsNumber5(hai) == Kind(hai) < 27 /\ Kind(hai) % 9 = 4

IsRed(t) == t \in 51..53
ToBlack(t) == IF IsRed(t) THEN 10 * (t - 50) + 5 ELSE t
ToRed(t) == IF t \in {15, 25, 35} THEN 50 + t \div 10 ELSE t

\* conv_hai_to_tile, which is always called with red_enable
TileOf(hai) ==
  LET tile == 10 * (Kind(hai) \div 9 + 1) + (Kind(hai) % 9) + 1
  IN IF hai \in {16, 52, 88} THEN ToRed(tile) ELSE tile

-----------------------------------------------------------------------------
\* conv_meld_from_u16
Bits(m, low, width) == (m \div 2^low) % 2^width

DecodeChii(m) ==
  LET pattern == Bits(m, 10, 6)
      run == pattern \div 3
      base == 4 * (9 * (run \div 7) + (run % 7))
  IN [kind |-> "chi", pos |-> pattern % 3,
      hais |-> <<base + Bits(m, 3, 2), base + 4 + Bits(m, 5, 2), base + 8 + Bits(m, 7, 2)>>]

\* same_pict_hais after swap(3, unused): the unused copy is the last
Copies(base, unused) ==
  [i \in 0..3 |-> base + CASE i = 3 -> unused [] i # 3 /\ i = unused -> 3 [] OTHER -> i]

DecodePon(m) ==
  LET pattern == Bits(m, 9, 7)
      copies == Copies(4 * (pattern \div 3), Bits(m, 5, 2))
  IN [kind |-> IF Bits(m, 4, 1) = 1 THEN "kakan" ELSE "pon", dir |-> Bits(m, 0, 2),
      called |-> copies[pattern % 3], other |-> copies[3]]

DecodeKan(m) ==
  [kind |-> IF Bits(m, 0, 2) = 0 THEN "ankan" ELSE "daiminkan",
   dir |-> Bits(m, 0, 2), called |-> Bits(m, 8, 8)]

Decode(m) ==
  CASE Bits(m, 2, 1) = 1 -> DecodeChii(m)
    [] Bits(m, 2, 1) = 0 /\ Bits(m, 3, 2) # 0 -> DecodePon(m)
    [] OTHER -> DecodeKan(m)

-----------------------------------------------------------------------------
\* replay_actions, Action::N: the tiles in their order on the table.  Among
\* equal fives only the place of the red one is to be decided.

\* the place of the called tile among three and among four
Of3(dir) == 4 - dir
Of4(dir) == IF dir = Shimo THEN 4 ELSE 4 - dir

Place(tiles, i, tile) == [tiles EXCEPT ![i] = tile]
Same(hai, n) == [i \in 1..n |-> ToBlack(TileOf(hai))]

\* mutant: the red five of the hand lies last, whoever it was called from
PlaceSetLast(dir, called, other) ==
  IF ~IsNumber5(called) \/ IsRed(TileOf(other)) THEN Same(called, 3)
  ELSE IF IsRed(TileOf(called)) THEN Place(Same(called, 3), Of3(dir), TileOf(called))
  ELSE Place(Same(called, 3), 3, ToRed(TileOf(called)))

\* pon, and the pon under a kakan; other is the fourth copy
PlaceSet(dir, called, other) ==
  IF ~IsNumber5(called) \/ IsRed(TileOf(other)) THEN Same(called, 3)
  ELSE IF IsRed(TileOf(called)) THEN Place(Same(called, 3), Of3(dir), TileOf(called))
  ELSE Place(Same(called, 3), IF dir = Shimo THEN 2 ELSE 3, ToRed(TileOf(called)))

PlaceKan(dir, called) ==
  IF ~IsNumber5(called) THEN Same(called, 4)
  ELSE IF IsRed(TileOf(called)) THEN Place(Same(called, 4), Of4(dir), TileOf(called))
  ELSE Place(Same(called, 4), IF dir = Shimo THEN 3 ELSE 4, ToRed(TileOf(called)))

\* the called tile of a chi comes first, whatever its rank
PlaceChii(m) ==
  <<TileOf(m.hais[m.pos + 1])>>
    \o [i \in 1..2 |-> TileOf(RemoveAt(m.hais, m.pos + 1)[i])]

Meld(letter, dir, tiles, added) ==
  [letter |-> letter, dir |-> dir, tiles |-> tiles, added |-> added]

Placed(m) ==
  CASE m.kind = "chi" -> Meld("c", Kami, PlaceChii(m), 0)
    [] m.kind = "pon" -> Meld("p", m.dir, PlaceSet(m.dir, m.called, m.other), 0)
    [] m.kind = "kakan" ->
         Meld("k", m.dir, PlaceSet(m.dir, m.called, m.other), TileOf(m.other))
    [] m.kind = "daiminkan" -> Meld("m", m.dir, PlaceKan(m.dir, m.called), 0)
    [] m.kind = "ankan" -> Meld("a", 0, <<ToRed(TileOf(m.called))>>, 0)

-----------------------------------------------------------------------------
Text(letter, at, tiles) == [letter |-> letter, at |-> at, tiles |-> tiles]

\* export_incoming_tile and export_outgoing_tile
Export(meld) ==
  CASE meld.letter = "c" -> Text("c", 0, meld.tiles)
    [] meld.letter = "p" -> Text("p", Of3(meld.dir) - 1, meld.tiles)
    [] meld.letter = "m" -> Text("m", Of4(meld.dir) - 1, meld.tiles)
    [] meld.letter = "k" ->
         Text("k", Of3(meld.dir) - 1, InsertAt(meld.tiles, Of3(meld.dir), meld.added))
    [] meld.letter = "a" -> Text("a", 3, [i \in 1..3 |-> ToBlack(meld.tiles[1])] \o meld.tiles)

\* conv_incoming_tile and conv_outgoing_tile: tenhou-json reads its own texts
DirAt(text) == IF text.letter = "m" /\ text.at = 3 THEN Shimo ELSE 3 - text.at
ReadBack(text) ==
  CASE text.letter = "c" -> Meld("c", Kami, text.tiles, 0)
    [] text.letter \in {"p", "m"} -> Meld(text.letter, DirAt(text), text.tiles, 0)
    [] text.letter = "k" ->
         Meld("k", DirAt(text), RemoveAt(text.tiles, text.at + 1), text.tiles[text.at + 1])
    [] text.letter = "a" -> Meld("a", 0, <<text.tiles[4]>>, 0)

\* The naki strings of take_action_to_events and discard_action_to_events: the
\* tile after the letter is the one that was called or added.
ReadNaki(text) ==
  IF text.letter = "a" THEN [from |-> 0, pai |-> text.tiles[4], consumed |-> text.tiles]
  ELSE [from |-> CASE text.letter = "k" -> 0 [] text.letter = "c" -> 3 [] OTHER -> DirAt(text),
        pai |-> text.tiles[text.at + 1],
        consumed |-> RemoveAt(text.tiles, text.at + 1)]

-----------------------------------------------------------------------------
(* The calls there are, and what has to become of each.  The N tag of a     *)
(* pon has the unused copy and the rank of the called one among the others. *)

ChiiCode(run, pos, copies) ==
  1024 * (3 * run + pos) + 128 * copies[3] + 32 * copies[2] + 8 * copies[1] + 4 + Kami
PonCode(kind, unused, rank, bit, dir) == 512 * (3 * kind + rank) + 32 * unused + bit + dir
KanCode(hai, dir) == 256 * hai + dir

\* the rest of the copies in ascending order
Others(kind, unused) == RemoveAt([i \in 1..4 |-> 4 * kind + i - 1], unused + 1)
TilesOf(hais) == [i \in DOMAIN hais |-> TileOf(hais[i])]
Alike(s, t) == SortSeq(s, <) = SortSeq(t, <)

\* the event names the seat and the tile, and shows the tiles of the hand
Becomes(m, from, pai, consumed) ==
  LET text == Export(Placed(Decode(m)))
      naki == ReadNaki(text)
  IN /\ naki.from = from /\ naki.pai = pai /\ Alike(naki.consumed, consumed)
     /\ ReadBack(text) = Placed(Decode(m))

ChiisTranslated ==
  \A run \in 0..20, pos \in 0..2, copies \in [1..3 -> 0..3] :
    LET low == 9 * (run \div 7) + (run % 7)
        hais == [i \in 1..3 |-> 4 * (low + i - 1) + copies[i]]
    IN Becomes(ChiiCode(run, pos, copies), Kami, TileOf(hais[pos + 1]),
               TilesOf(RemoveAt(hais, pos + 1)))

PonsTranslated ==
  \A kind \in 0..33, unused \in 0..3, rank \in 0..2, dir \in 1..3 :
    LET hais == Others(kind, unused)
    IN /\ Becomes(PonCode(kind, unused, rank, 8, dir), dir, TileOf(hais[rank + 1]),
                  TilesOf(RemoveAt(hais, rank + 1)))
       /\ Becomes(PonCode(kind, unused, rank, 16, dir), 0, TileOf(4 * kind + unused),
                  TilesOf(hais))

KansTranslated ==
  \A kind \in 0..33, copy \in 0..3 :
    LET hai == 4 * kind + copy
        rest == TilesOf(Others(kind, copy))
    IN /\ \A dir \in 1..3 : Becomes(KanCode(hai, dir), dir, TileOf(hai), rest)
       /\ Alike(ReadNaki(Export(Placed(Decode(KanCode(hai, 0))))).consumed,
                Append(rest, TileOf(hai)))

\* Whatever is called from whomever, with the red five called, held or left
\* out, mjai has the seat and the tile that were called and the tiles they were
\* called with; and tenhou-json reads the text it wrote as the same meld.
MeldsTranslated == ChiisTranslated /\ PonsTranslated /\ KansTranslated
=============================================================================
