----------------------------- MODULE ObfTables ------------------------------
(***************************************************************************)
(* The two generators of obfuscated_pipeline.c, exactly: the tent map that *)
(* makes key bytes of a seed, and the shift register that draws a P-box.   *)
(* A 32-bit word is a set of bits.                                         *)
(***************************************************************************)
EXTENDS ObfPipeline, Sequences, SequencesExt

WordBit == 0 .. 31
LeftBy(x, k)  == {b + k : b \in x} \cap WordBit
RightBy(x, k) == {b - k : b \in x} \cap WordBit

GoldenRatio == {0, 3, 4, 5, 7, 8, 11, 12, 13, 14, 16, 17, 18, 20, 21, 25, 26, 27, 28, 31}
Fallback    == {3, 4, 5, 6, 9, 10, 12, 14, 18, 20, 21, 25, 28}          \* 0x12345678
Taps        == {0, 28, 30, 31}                                          \* 0xd0000001
LfsrDefault == {0, 5, 6, 7, 10, 11, 13, 15}                             \* 0xace1

(***************************************************************************)
(* expand_key_tent_map: the first len bytes of internal_map.               *)
(***************************************************************************)
SeedWord(key) ==
  LET x == FoldLeft(LAMBDA w, q : XorBits(w, LeftBy(key[q], 8 * (q % 4))),
                    {}, [q \in 1 .. 32 |-> q - 1])
  IN  IF x = {} THEN Fallback ELSE x

Tent(x) == LeftBy(IF 31 \in x THEN WordBit \ x ELSE x, 1)

(* k turns of the loop further; and the map, sixteen turns at a time. *)
Further == [x \in SUBSET WordBit, k \in 0 .. 16 |->
  LET word[q \in 0 .. k] ==
        IF q = 0 THEN x ELSE Tent(XorBits(word[q - 1], GoldenRatio))
  IN  word[k]]

TentMap(key, len) ==
  LET row[r \in 0 .. len \div 16] ==
        IF r = 0 THEN Tent(SeedWord(key)) ELSE Further[row[r - 1], 16]
  IN  [q \in 0 .. len - 1 |-> RightBy(Further[row[q \div 16], q % 16], 24)]

(***************************************************************************)
(* generate_dynamic_pbox: a shuffle, and a pass against fixed points.      *)
(***************************************************************************)
Modulo(x, m) ==
  FoldLeft(LAMBDA acc, k : (256 * acc + NumberOf(RightBy(x, k) \cap Bit)) % m,
           0, <<24, 16, 8, 0>>)

Clocked(x) == XorBits(RightBy(x, 1), IF 0 \in x THEN Taps ELSE {})

Swapped(p, q, j) == [p EXCEPT ![q] = p[j], ![j] = p[q]]

(* One turn of the first loop, on <<lfsr, pbox>>, and one of the second.   *)
(* They are taken sixteen at a time; at q = 0 the first swaps nothing.     *)
ShuffleTurn(t, q) == LET x == Clocked(t[1])
                     IN  <<x, Swapped(t[2], q, Modulo(x, q + 1))>>

DerangeTurn(p, q) == IF p[q] = q THEN Swapped(p, q, (q + 1) % 128) ELSE p

ShuffleTurns == [q \in Wire, start \in (SUBSET WordBit) \X [Wire -> Wire] |->
  LET turn[k \in 0 .. 16] == IF k = 0 THEN start ELSE ShuffleTurn(turn[k - 1], q + 1 - k)
  IN  turn[16]]

DerangeTurns == [q \in Wire, start \in [Wire -> Wire] |->
  LET turn[k \in 0 .. 16] == IF k = 0 THEN start ELSE DerangeTurn(turn[k - 1], q + k - 1)
  IN  turn[16]]

GeneratePBox(control) ==
  LET start == <<IF control = {} THEN LfsrDefault ELSE control, [w \in Wire |-> w]>>
      shuffled[r \in 0 .. 8] ==
        IF r = 0 THEN start ELSE ShuffleTurns[143 - 16 * r, shuffled[r - 1]]
      deranged[r \in 0 .. 8] ==
        IF r = 0 THEN shuffled[8][2] ELSE DerangeTurns[16 * r - 16, deranged[r - 1]]
  IN  deranged[8]

InverseOf(p) == [w \in Wire |-> CHOOSE q \in Wire : p[q] = w]
=============================================================================
