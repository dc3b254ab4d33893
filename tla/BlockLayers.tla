---------------------------- MODULE BlockLayers -----------------------------
(***************************************************************************)
(* The layers of the 16-byte block cipher of choi_common.h, over any kind  *)
(* of byte: the field elements the code computes with, or the sets of      *)
(* input positions that a byte has come to depend on.                      *)
(*                                                                         *)
(* A block is a function on Pos.  The code is built for one of two         *)
(* targets, which differ in the order they give ShiftRows.                 *)
(***************************************************************************)
EXTENDS Naturals

CONSTANTS Byte,
          Xor(_, _),       \* a ^ b
          Double(_),       \* choi_xtime
          Sub, InvSub      \* CHOI_SBOX, CHOI_INV_SBOX: functions on Byte

Pos == 0 .. 15
Block == [Pos -> Byte]

SubBytes(s)    == [i \in Pos |-> Sub[s[i]]]
InvSubBytes(s) == [i \in Pos |-> InvSub[s[i]]]

(***************************************************************************)
(* Where byte i of the shifted block comes from.  The SSSE3 shuffles are   *)
(* AES's: bytes i, i+4, i+8, i+12 are a row.  The scalar code takes bytes  *)
(* 4r .. 4r+3 for a row.                                                   *)
(***************************************************************************)
Row(i) == i \div 4
Col(i) == i % 4

ShiftSourceRows(build, i) ==        \* mutant of ShiftSource: one order for both
  4 * Row(i) + ((Col(i) + Row(i)) % 4)

ShiftSource(build, i) ==
  IF build = "simd" THEN (5 * i) % 16 ELSE 4 * Row(i) + ((Col(i) + Row(i)) % 4)

(* Mutant of InvShiftSource: the scalar rows turned the same way again. *)
InvShiftSourceSame(build, i) ==
  IF build = "simd" THEN (13 * i) % 16 ELSE 4 * Row(i) + ((Col(i) + Row(i)) % 4)

InvShiftSource(build, i) ==
  IF build = "simd" THEN (13 * i) % 16
                    ELSE 4 * Row(i) + ((Col(i) + 4 - Row(i)) % 4)

ShiftRows(build, s)    == [i \in Pos |-> s[ShiftSource(build, i)]]
InvShiftRows(build, s) == [i \in Pos |-> s[InvShiftSource(build, i)]]

(***************************************************************************)
(* MixColumns: bytes 4c .. 4c+3 are a column, in both builds.  At(s, i, k) *)
(* is the k-th byte after byte i, round its column.                        *)
(***************************************************************************)
At(s, i, k) == s[4 * Row(i) + ((i + k) % 4)]

Triple(x) == Xor(x, Double(x))
Mul9(x)   == Xor(Double(Double(Double(x))), x)
MulB(x)   == Xor(Mul9(x), Double(x))
MulD(x)   == Xor(Mul9(x), Double(Double(x)))
MulE(x)   == Xor(Double(Double(Double(x))), Xor(Double(Double(x)), Double(x)))

MixColumns(s) ==
  [i \in Pos |-> Xor(Xor(Double(At(s, i, 0)), Triple(At(s, i, 1))),
                     Xor(At(s, i, 2), At(s, i, 3)))]

InvMixColumns(s) ==
  [i \in Pos |-> Xor(Xor(MulE(At(s, i, 0)), MulB(At(s, i, 1))),
                     Xor(MulD(At(s, i, 2)), Mul9(At(s, i, 3))))]

(***************************************************************************)
(* HexagonalLayer: byte i is read from its antipode, keyed and substituted.*)
(***************************************************************************)
Antipode(i) == (i + 8) % 16

HexagonalLayer(s, rk) == [i \in Pos |-> Sub[Xor(s[Antipode(i)], rk[i])]]

InvHexagonalLayer(s, rk) ==
  [i \in Pos |-> Xor(InvSub[s[Antipode(i)]], rk[Antipode(i)])]

AddRoundKey(s, rk) == [i \in Pos |-> Xor(s[i], rk[i])]
=============================================================================
