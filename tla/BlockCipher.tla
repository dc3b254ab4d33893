---------------------------- MODULE BlockCipher -----------------------------
(***************************************************************************)
(* choi_encrypt_block followed by choi_decrypt_block of its result, layer  *)
(* by layer, in the build the code was compiled for.  A byte is a set of   *)
(* bit positions, so xor is symmetric difference.  deps follows, through   *)
(* the same layers, which input bytes each byte depends on.                *)
(***************************************************************************)
EXTENDS Integers, Sequences, SequencesExt

CONSTANTS W,            \* bits in a byte: 8
          Poly,         \* the bits xtime folds a carry into: {0, 1, 3, 4}
          NR,           \* CHOI_NR: 14
          Builds,       \* subset of {"simd", "scalar"}
          SBoxes,       \* the S-boxes tried, bijections on Byte
          Keys,         \* the 32-byte encryption keys tried
          Inputs        \* the blocks tried

Byte == SUBSET (0 .. W - 1)
Position == 0 .. 15

ASSUME BlockAssumption ==
  /\ W \in Nat \ {0} /\ Poly \in Byte
  /\ NR \in Nat \ {0, 1}
  /\ Builds \subseteq {"simd", "scalar"}
  /\ \A t \in SBoxes : t \in [Byte -> Byte] /\ \A x, y \in Byte : t[x] = t[y] => x = y
  /\ Keys \subseteq [0 .. 31 -> Byte]
  /\ Inputs \subseteq [Position -> Byte]

VARIABLES build, sbox, inv,         \* the engine: fixed for the run,
          rk,                       \*   with its round keys
          layer, round,             \* the layer to come
          state,                    \* the block
          trail,                    \* blocks of the encryption, not yet undone
          deps                      \* position -> input positions

blockVars == <<build, sbox, inv, rk, layer, round, state, trail, deps>>

XorByte(x, y) == (x \ y) \cup (y \ x)

(***************************************************************************)
(* choi_xtime: a left shift, the bit shifted out folded back in.           *)
(***************************************************************************)
DoubleByteWide(x) == {b + 1 : b \in x}     \* mutant of DoubleByte: not cut to W bits

DoubleByte(x) == XorByte({b + 1 : b \in x \ {W - 1}},
                         IF W - 1 \in x THEN Poly ELSE {})

L == INSTANCE BlockLayers
       WITH Xor <- XorByte, Double <- DoubleByte, Sub <- sbox, InvSub <- inv

(***************************************************************************)
(* choi_expand_key.  A word is its four bytes, the most significant first; *)
(* words[n] is CHOI_ROUND_KEYS[n - 1].                                     *)
(***************************************************************************)
XorWord(v, w) == [j \in 0 .. 3 |-> XorByte(v[j], w[j])]
RotWord(w)    == [j \in 0 .. 3 |-> w[(j + 1) % 4]]
SubWord(t, w) == [j \in 0 .. 3 |-> t[w[j]]]

(* CHOI_RCON[k] for k > 0: the powers of 2 in the field. *)
Rcon(k) ==
  LET power[m \in 0 .. k - 1] == IF m = 0 THEN {0} ELSE DoubleByte(power[m - 1])
  IN  power[k - 1]

NextWord(t, words) ==
  LET n    == Len(words)
      last == words[n]
      temp == IF n % 8 = 0
              THEN XorWord(SubWord(t, RotWord(last)),
                           [j \in 0 .. 3 |-> IF j = 0 THEN Rcon(n \div 8) ELSE {}])
              ELSE IF n % 8 = 4 THEN SubWord(t, last) ELSE last
  IN  XorWord(words[n - 7], temp)

KeyWords(key) == [n \in 1 .. 8 |-> [j \in 0 .. 3 |-> key[4 * (n - 1) + j]]]

ExpandKey(t, key) ==
  LET words[m \in 0 .. 4 * (NR + 1) - 8] ==
        IF m = 0 THEN KeyWords(key)
        ELSE LET before == words[m - 1] IN Append(before, NextWord(t, before))
  IN  words[4 * (NR + 1) - 8]

(* The bytes of round key r, in the memory order of a little-endian host. *)
RoundKey(words, r) ==
  [i \in Position |-> words[4 * r + (i \div 4) + 1][3 - (i % 4)]]

(* The layers again, where a byte is what it depends on. *)
Union(x, y) == x \cup y
Same(x) == x
Through == [x \in SUBSET Position |-> x]

D == INSTANCE BlockLayers
       WITH Byte <- SUBSET Position, Xor <- Union, Double <- Same,
            Sub <- Through, InvSub <- Through

NoDeps == [i \in Position |-> {}]

BlockInit ==
  /\ sbox \in SBoxes
  /\ inv = [y \in Byte |-> CHOOSE x \in Byte : sbox[x] = y]
  /\ \E key \in Keys : LET words == ExpandKey(sbox, key)
                       IN  rk = [r \in 0 .. NR |-> RoundKey(words, r)]
  /\ build \in Builds
  /\ layer = "ark" /\ round = 0
  /\ state \in Inputs
  /\ trail = <<state>>
  /\ deps = [i \in Position |-> {i}]

(***************************************************************************)
(* A layer of the encryption puts its result on the trail; one of the      *)
(* decryption takes the block it should have undone off it.                *)
(***************************************************************************)
Forward(s, d, next) ==
  /\ state' = s /\ deps' = d /\ layer' = next
  /\ trail' = Append(trail, s)
  /\ UNCHANGED <<build, sbox, inv, rk>>

Backward(s, next) ==
  /\ state' = s /\ layer' = next
  /\ trail' = Front(trail)
  /\ UNCHANGED <<build, sbox, inv, rk, deps>>

SubBytes ==
  /\ layer = "sub"
  /\ Forward(L!SubBytes(state), D!SubBytes(deps), "shift")
  /\ UNCHANGED round

ShiftRows ==
  /\ layer = "shift"
  /\ Forward(L!ShiftRows(build, state), D!ShiftRows(build, deps),
             IF round < NR THEN "mix" ELSE "hex")
  /\ UNCHANGED round

MixColumns ==
  /\ layer = "mix"
  /\ Forward(L!MixColumns(state), D!MixColumns(deps), "hex")
  /\ UNCHANGED round

Hexagonal ==
  /\ layer = "hex"
  /\ Forward(L!HexagonalLayer(state, rk[round]),
             D!HexagonalLayer(deps, NoDeps), "ark")
  /\ UNCHANGED round

(* The last key addition ends choi_encrypt_block; its result is decrypted. *)
AddRoundKey ==
  /\ layer = "ark"
  /\ Forward(L!AddRoundKey(state, rk[round]), D!AddRoundKey(deps, NoDeps),
             IF round < NR THEN "sub" ELSE "iark")
  /\ round' = IF round < NR THEN round + 1 ELSE round

InvAddRoundKey ==
  /\ layer = "iark"
  /\ Backward(L!AddRoundKey(state, rk[round]),
              IF round = 0 THEN "done" ELSE "ihex")
  /\ UNCHANGED round

InvHexagonal ==
  /\ layer = "ihex"
  /\ Backward(L!InvHexagonalLayer(state, rk[round]),
              IF round = NR THEN "ishift" ELSE "imix")
  /\ UNCHANGED round

InvMixColumns ==
  /\ layer = "imix"
  /\ Backward(L!InvMixColumns(state), "ishift")
  /\ UNCHANGED round

InvShiftRows ==
  /\ layer = "ishift"
  /\ Backward(L!InvShiftRows(build, state), "isub")
  /\ UNCHANGED round

InvSubBytes ==
  /\ layer = "isub"
  /\ Backward(L!InvSubBytes(state), "iark")
  /\ round' = round - 1

BlockDone == layer = "done" /\ UNCHANGED blockVars

BlockNext == SubBytes \/ ShiftRows \/ MixColumns \/ Hexagonal \/ AddRoundKey
             \/ InvAddRoundKey \/ InvHexagonal \/ InvMixColumns \/ InvShiftRows
             \/ InvSubBytes \/ BlockDone

BlockSpec == BlockInit /\ [][BlockNext]_blockVars

-----------------------------------------------------------------------------
(* Rounds and round keys stay inside their arrays and blocks are blocks.    *)
BlockTypeOK ==
  /\ layer \in {"ark", "sub", "shift", "mix", "hex", "iark", "ihex", "imix",
                "ishift", "isub", "done"}
  /\ round \in 0 .. NR
  /\ state \in [Position -> Byte]
  /\ rk \in [0 .. NR -> [Position -> Byte]]
  /\ Len(trail) \in 1 .. 5 * NR + 1
  /\ deps \in [Position -> SUBSET Position]

(* Each layer of choi_decrypt_block undoes the layer of choi_encrypt_block  *)
(* that it meets: at every point the block is the one the encryption had    *)
(* there.  At the end, with one block left on the trail, it is the input.   *)
Retraced ==
  /\ state = Last(trail)
  /\ layer = "done" => Len(trail) = 1

(* "ShiftRows, MixColumns, and the HexagonalLayer propagate single-byte     *)
(* changes across the entire 128-bit block": every byte of the ciphertext   *)
(* depends on every byte of the input.                                      *)
Diffusion ==
  layer = "iark" /\ round = NR => \A i \in Position : deps[i] = Position

(* In the SSSE3 build two rounds are enough for that, antipodes and all.    *)
EarlyDiffusion ==
  build = "simd" /\ round > 2 => \A i \in Position : deps[i] = Position
=============================================================================
