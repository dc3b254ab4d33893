------------------------ MODULE BlockCipher_proofs --------------------------
(***************************************************************************)
(* BlockTypeOK, Retraced and EarlyDiffusion for every width of a byte and  *)
(* its polynomial, every number of rounds, every S-box that is a           *)
(* bijection, every key and block, and both builds.                        *)
(***************************************************************************)
EXTENDS BlockCipher, SequenceTheorems, WellFoundedInduction, TLAPS

Blocks == [Position -> Byte]

(* What the engine holds: an S-box of bytes and its inverse.               *)
Engine == /\ sbox \in SBoxes
          /\ inv = [y \in Byte |-> CHOOSE x \in Byte : sbox[x] = y]
          /\ build \in {"simd", "scalar"}
-----------------------------------------------------------------------------
(* Xor, the doubling in the field, and the mixing of a column.             *)

(* Xor stays within bytes.                                                 *)
LEMMA XorTyped == \A x, y \in Byte : XorByte(x, y) \in Byte
  BY DEF XorByte, Byte

(* Xor, bit by bit.                                                        *)
LEMMA XorBit == \A x, y, b : b \in XorByte(x, y) <=> (b \in x <=> b \notin y)
  BY DEF XorByte

(* What is xored twice is gone.                                            *)
LEMMA XorBack == \A x, y : XorByte(XorByte(x, y), y) = x
  BY DEF XorByte

(* Doubling, bit by bit.                                                   *)
LEMMA DoubleBit ==
  ASSUME NEW x \in Byte
  PROVE  /\ DoubleByte(x) \in Byte
         /\ \A b : b \in DoubleByte(x)
              <=> ((b \in 1 .. W - 1 /\ b - 1 \in x) <=> ~(W - 1 \in x /\ b \in Poly))
<1>1. W \in Nat \ {0} /\ Poly \in Byte
  BY BlockAssumption DEF BlockAssumption
<1>2. \A c \in x : c \in 0 .. W - 1
  BY DEF Byte
<1> DEFINE up   == {b + 1 : b \in x \ {W - 1}}
           fold == IF W - 1 \in x THEN Poly ELSE {}
<1>3. \A b : b \in up <=> b \in 1 .. W - 1 /\ b - 1 \in x
  <2>1. ASSUME NEW b \in up PROVE b \in 1 .. W - 1 /\ b - 1 \in x
    <3>1. PICK c \in x \ {W - 1} : b = c + 1
      OBVIOUS
    <3>2. c \in 0 .. W - 1 /\ c # W - 1
      BY <1>2, <3>1
    <3>3. b - 1 = c
      BY <3>1, <3>2
    <3> QED
      BY <1>1, <3>1, <3>2, <3>3
  <2>2. ASSUME NEW b \in 1 .. W - 1, b - 1 \in x PROVE b \in up
    <3>1. b - 1 \in x \ {W - 1} /\ b = (b - 1) + 1
      BY <1>1, <2>2
    <3> QED
      BY <3>1
  <2> QED
    BY <2>1, <2>2
<1>4. \A b : b \in fold <=> W - 1 \in x /\ b \in Poly
  OBVIOUS
<1>5. DoubleByte(x) = XorByte(up, fold)
  BY DEF DoubleByte
<1> HIDE DEF up, fold
<1>6. up \in Byte /\ fold \in Byte
  <2>1. \A b : b \in up => b \in 0 .. W - 1
    BY <1>1, <1>3
  <2> QED
    BY <1>1, <1>4, <2>1 DEF Byte
<1>7. DoubleByte(x) \in Byte
  BY <1>5, <1>6, XorTyped
<1> QED
  BY <1>3, <1>4, <1>5, <1>7, XorBit

(* Doubling is linear, whatever the polynomial.                            *)
LEMMA DoubleLinear ==
  \A x, y \in Byte : DoubleByte(XorByte(x, y)) = XorByte(DoubleByte(x), DoubleByte(y))
<1> TAKE x, y \in Byte
<1>1. XorByte(x, y) \in Byte
  BY XorTyped
<1>2. \A b : b \in DoubleByte(XorByte(x, y)) <=> b \in XorByte(DoubleByte(x), DoubleByte(y))
  <2> TAKE b
  <2>1. /\ b \in DoubleByte(XorByte(x, y))
           <=> ((b \in 1 .. W - 1 /\ b - 1 \in XorByte(x, y))
                <=> ~(W - 1 \in XorByte(x, y) /\ b \in Poly))
        /\ b \in DoubleByte(x)
           <=> ((b \in 1 .. W - 1 /\ b - 1 \in x) <=> ~(W - 1 \in x /\ b \in Poly))
        /\ b \in DoubleByte(y)
           <=> ((b \in 1 .. W - 1 /\ b - 1 \in y) <=> ~(W - 1 \in y /\ b \in Poly))
    BY <1>1, DoubleBit
  <2>2. /\ b - 1 \in XorByte(x, y) <=> (b - 1 \in x <=> b - 1 \notin y)
        /\ W - 1 \in XorByte(x, y) <=> (W - 1 \in x <=> W - 1 \notin y)
        /\ b \in XorByte(DoubleByte(x), DoubleByte(y))
           <=> (b \in DoubleByte(x) <=> b \notin DoubleByte(y))
    BY XorBit
  <2> QED
    BY <2>1, <2>2
<1> QED
  BY <1>2

(* A column that MixColumns mixed: InvMixColumns finds each byte again.    *)
(* The product of the two matrices is one before any power of the doubling *)
(* is reduced, which is why the polynomial plays no part.                  *)
Mixed(a, b, c, d) ==
  XorByte(XorByte(DoubleByte(a), L!Triple(b)), XorByte(c, d))

Unmixed(a, b, c, d) ==
  XorByte(XorByte(L!MulE(a), L!MulB(b)), XorByte(L!MulD(c), L!Mul9(d)))

LEMMA MixedTwice ==
  ASSUME NEW a \in Byte, NEW b \in Byte, NEW c \in Byte, NEW d \in Byte
  PROVE  /\ Mixed(a, b, c, d) \in Byte
         /\ DoubleByte(Mixed(a, b, c, d))
              = Mixed(DoubleByte(a), DoubleByte(b), DoubleByte(c), DoubleByte(d))
<1> DEFINE da == DoubleByte(a)
           db == DoubleByte(b)
<1>1. da \in Byte /\ db \in Byte
  BY DoubleBit
<1>2. L!Triple(b) = XorByte(b, db) /\ L!Triple(db) = XorByte(db, DoubleByte(db))
  BY DEF L!Triple
<1>3. L!Triple(b) \in Byte /\ XorByte(da, L!Triple(b)) \in Byte /\ XorByte(c, d) \in Byte
  BY <1>1, <1>2, XorTyped
<1>4. DoubleByte(L!Triple(b)) = L!Triple(db)
  BY <1>1, <1>2, DoubleLinear
<1>5. DoubleByte(XorByte(da, L!Triple(b))) = XorByte(DoubleByte(da), L!Triple(db))
  BY <1>1, <1>3, <1>4, DoubleLinear
<1>6. DoubleByte(XorByte(c, d)) = XorByte(DoubleByte(c), DoubleByte(d))
  BY DoubleLinear
<1>7. Mixed(a, b, c, d) = XorByte(XorByte(da, L!Triple(b)), XorByte(c, d))
  BY DEF Mixed
<1>8. Mixed(da, db, DoubleByte(c), DoubleByte(d))
        = XorByte(XorByte(DoubleByte(da), L!Triple(db)),
                  XorByte(DoubleByte(c), DoubleByte(d)))
  BY DEF Mixed
<1>9. Mixed(a, b, c, d) \in Byte
  BY <1>3, <1>7, XorTyped
<1>10. DoubleByte(Mixed(a, b, c, d))
         = XorByte(DoubleByte(XorByte(da, L!Triple(b))), DoubleByte(XorByte(c, d)))
  BY <1>3, <1>7, DoubleLinear
<1> QED
  BY <1>5, <1>6, <1>8, <1>9, <1>10

(* A mixed byte, bit by bit.                                               *)
LEMMA MixedBit ==
  \A w, x, y, z, q :
    q \in Mixed(w, x, y, z)
      <=> ((q \in DoubleByte(w) <=> ~(q \in x <=> q \notin DoubleByte(x)))
           <=> ~(q \in y <=> q \notin z))
<1> TAKE w, x, y, z, q
<1>1. L!Triple(x) = XorByte(x, DoubleByte(x))
  BY DEF L!Triple
<1> QED
  BY <1>1, XorBit DEF Mixed

(* The four bytes of a column, mixed, give the first back.                 *)
LEMMA ColumnBack ==
  ASSUME NEW a \in Byte, NEW b \in Byte, NEW c \in Byte, NEW d \in Byte
  PROVE  Unmixed(Mixed(a, b, c, d), Mixed(b, c, d, a),
                 Mixed(c, d, a, b), Mixed(d, a, b, c)) = a
<1> DEFINE a1 == DoubleByte(a)
           a2 == DoubleByte(a1)
           a3 == DoubleByte(a2)
           a4 == DoubleByte(a3)
           b1 == DoubleByte(b)
           b2 == DoubleByte(b1)
           b3 == DoubleByte(b2)
           b4 == DoubleByte(b3)
           c1 == DoubleByte(c)
           c2 == DoubleByte(c1)
           c3 == DoubleByte(c2)
           c4 == DoubleByte(c3)
           d1 == DoubleByte(d)
           d2 == DoubleByte(d1)
           d3 == DoubleByte(d2)
           d4 == DoubleByte(d3)
           m  == Mixed(a, b, c, d)
           n  == Mixed(b, c, d, a)
           o  == Mixed(c, d, a, b)
           p  == Mixed(d, a, b, c)
<1>1. /\ a1 \in Byte /\ a2 \in Byte /\ a3 \in Byte
      /\ b1 \in Byte /\ b2 \in Byte /\ b3 \in Byte
      /\ c1 \in Byte /\ c2 \in Byte /\ c3 \in Byte
      /\ d1 \in Byte /\ d2 \in Byte /\ d3 \in Byte
  BY DoubleBit
<1>2. /\ DoubleByte(m) = Mixed(a1, b1, c1, d1)
      /\ DoubleByte(n) = Mixed(b1, c1, d1, a1)
      /\ DoubleByte(o) = Mixed(c1, d1, a1, b1)
      /\ DoubleByte(p) = Mixed(d1, a1, b1, c1)
  BY MixedTwice
<1>3. /\ DoubleByte(Mixed(a1, b1, c1, d1)) = Mixed(a2, b2, c2, d2)
      /\ DoubleByte(Mixed(b1, c1, d1, a1)) = Mixed(b2, c2, d2, a2)
      /\ DoubleByte(Mixed(c1, d1, a1, b1)) = Mixed(c2, d2, a2, b2)
      /\ DoubleByte(Mixed(d1, a1, b1, c1)) = Mixed(d2, a2, b2, c2)
  BY <1>1, MixedTwice
<1>4. /\ DoubleByte(Mixed(a2, b2, c2, d2)) = Mixed(a3, b3, c3, d3)
      /\ DoubleByte(Mixed(b2, c2, d2, a2)) = Mixed(b3, c3, d3, a3)
      /\ DoubleByte(Mixed(c2, d2, a2, b2)) = Mixed(c3, d3, a3, b3)
      /\ DoubleByte(Mixed(d2, a2, b2, c2)) = Mixed(d3, a3, b3, c3)
  BY <1>1, MixedTwice
<1>5. /\ L!MulE(m) = XorByte(Mixed(a3, b3, c3, d3),
                             XorByte(Mixed(a2, b2, c2, d2), Mixed(a1, b1, c1, d1)))
      /\ L!MulB(n) = XorByte(XorByte(Mixed(b3, c3, d3, a3), n), Mixed(b1, c1, d1, a1))
      /\ L!MulD(o) = XorByte(XorByte(Mixed(c3, d3, a3, b3), o), Mixed(c2, d2, a2, b2))
      /\ L!Mul9(p) = XorByte(Mixed(d3, a3, b3, c3), p)
  BY <1>2, <1>3, <1>4 DEF L!MulE, L!MulB, L!MulD, L!Mul9
<1>6. a1 = DoubleByte(a) /\ a2 = DoubleByte(a1) /\ a3 = DoubleByte(a2) /\ a4 = DoubleByte(a3)
  OBVIOUS
<1>7. b1 = DoubleByte(b) /\ b2 = DoubleByte(b1) /\ b3 = DoubleByte(b2) /\ b4 = DoubleByte(b3)
  OBVIOUS
<1>8. c1 = DoubleByte(c) /\ c2 = DoubleByte(c1) /\ c3 = DoubleByte(c2) /\ c4 = DoubleByte(c3)
  OBVIOUS
<1>9. d1 = DoubleByte(d) /\ d2 = DoubleByte(d1) /\ d3 = DoubleByte(d2) /\ d4 = DoubleByte(d3)
  OBVIOUS
<1>10. m = Mixed(a, b, c, d) /\ n = Mixed(b, c, d, a) /\ o = Mixed(c, d, a, b)
       /\ p = Mixed(d, a, b, c)
  OBVIOUS
<1> HIDE DEF a1, a2, a3, a4, b1, b2, b3, b4, c1, c2, c3, c4, d1, d2, d3, d4, m, n, o, p
<1>11. ASSUME NEW q
       PROVE  q \in Unmixed(m, n, o, p) <=> q \in a
  <2>1. q \in Unmixed(m, n, o, p)
          <=> ((q \in L!MulE(m) <=> q \notin L!MulB(n))
               <=> ~(q \in L!MulD(o) <=> q \notin L!Mul9(p)))
    BY XorBit DEF Unmixed
  <2>2. /\ q \in L!MulE(m)
             <=> (q \in Mixed(a3, b3, c3, d3)
                  <=> ~(q \in Mixed(a2, b2, c2, d2) <=> q \notin Mixed(a1, b1, c1, d1)))
        /\ q \in L!MulB(n)
             <=> ((q \in Mixed(b3, c3, d3, a3) <=> q \notin Mixed(b, c, d, a))
                  <=> q \notin Mixed(b1, c1, d1, a1))
        /\ q \in L!MulD(o)
             <=> ((q \in Mixed(c3, d3, a3, b3) <=> q \notin Mixed(c, d, a, b))
                  <=> q \notin Mixed(c2, d2, a2, b2))
        /\ q \in L!Mul9(p)
             <=> (q \in Mixed(d3, a3, b3, c3) <=> q \notin Mixed(d, a, b, c))
    BY <1>5, <1>10, XorBit
  <2>3. /\ q \in Mixed(a3, b3, c3, d3)
           <=> ((q \in a4 <=> ~(q \in b3 <=> q \notin b4)) <=> ~(q \in c3 <=> q \notin d3))
        /\ q \in Mixed(a2, b2, c2, d2)
           <=> ((q \in a3 <=> ~(q \in b2 <=> q \notin b3)) <=> ~(q \in c2 <=> q \notin d2))
        /\ q \in Mixed(a1, b1, c1, d1)
           <=> ((q \in a2 <=> ~(q \in b1 <=> q \notin b2)) <=> ~(q \in c1 <=> q \notin d1))
        /\ q \in Mixed(b3, c3, d3, a3)
           <=> ((q \in b4 <=> ~(q \in c3 <=> q \notin c4)) <=> ~(q \in d3 <=> q \notin a3))
        /\ q \in Mixed(b, c, d, a)
           <=> ((q \in b1 <=> ~(q \in c <=> q \notin c1)) <=> ~(q \in d <=> q \notin a))
        /\ q \in Mixed(b1, c1, d1, a1)
           <=> ((q \in b2 <=> ~(q \in c1 <=> q \notin c2)) <=> ~(q \in d1 <=> q \notin a1))
        /\ q \in Mixed(c3, d3, a3, b3)
           <=> ((q \in c4 <=> ~(q \in d3 <=> q \notin d4)) <=> ~(q \in a3 <=> q \notin b3))
        /\ q \in Mixed(c, d, a, b)
           <=> ((q \in c1 <=> ~(q \in d <=> q \notin d1)) <=> ~(q \in a <=> q \notin b))
        /\ q \in Mixed(c2, d2, a2, b2)
           <=> ((q \in c3 <=> ~(q \in d2 <=> q \notin d3)) <=> ~(q \in a2 <=> q \notin b2))
        /\ q \in Mixed(d3, a3, b3, c3)
           <=> ((q \in d4 <=> ~(q \in a3 <=> q \notin a4)) <=> ~(q \in b3 <=> q \notin c3))
        /\ q \in Mixed(d, a, b, c)
           <=> ((q \in d1 <=> ~(q \in a <=> q \notin a1)) <=> ~(q \in b <=> q \notin c))
    BY <1>6, <1>7, <1>8, <1>9, MixedBit
  <2> HIDE DEF Mixed
  <2> QED
    BY <2>1, <2>2, <2>3
<1> QED
  BY <1>10, <1>11

-----------------------------------------------------------------------------
(* The layers of a round, each with the one that undoes it.                *)

(* The inverse table finds each byte of the S-box again.                   *)
LEMMA TableBack ==
  ASSUME Engine
  PROVE  \A x \in Byte : sbox[x] \in Byte /\ inv[sbox[x]] = x
<1>1. sbox \in [Byte -> Byte] /\ \A x, y \in Byte : sbox[x] = sbox[y] => x = y
  BY BlockAssumption DEF BlockAssumption, Engine
<1>2. inv = [y \in Byte |-> CHOOSE x \in Byte : sbox[x] = y]
  BY DEF Engine
<1> TAKE x \in Byte
<1>3. sbox[x] \in Byte
  BY <1>1
<1>4. inv[sbox[x]] = CHOOSE z \in Byte : sbox[z] = sbox[x]
  BY <1>2, <1>3
<1>5. /\ (CHOOSE z \in Byte : sbox[z] = sbox[x]) \in Byte
      /\ sbox[CHOOSE z \in Byte : sbox[z] = sbox[x]] = sbox[x]
  OBVIOUS
<1> QED
  BY <1>1, <1>3, <1>4, <1>5

(* SubBytes.                                                               *)
LEMMA SubBack ==
  ASSUME Engine, NEW s \in Blocks
  PROVE  L!SubBytes(s) \in Blocks /\ L!InvSubBytes(L!SubBytes(s)) = s
<1>1. \A i \in Position : s[i] \in Byte
  BY DEF Blocks
<1>2. L!SubBytes(s) = [i \in Position |-> sbox[s[i]]]
  BY DEF L!SubBytes, L!Pos, Position
<1>3. L!InvSubBytes(L!SubBytes(s)) = [i \in Position |-> inv[L!SubBytes(s)[i]]]
  BY DEF L!InvSubBytes, L!Pos, Position
<1> QED
  BY <1>1, <1>2, <1>3, TableBack DEF Blocks

(* Where the bytes come from, and that the way back leads there: the SSSE3 *)
(* shuffles multiply by 5 and by 13 modulo 16, the scalar rows turn.       *)
LEMMA ShiftSources ==
  ASSUME NEW b \in {"simd", "scalar"}, NEW i \in Position
  PROVE  /\ L!ShiftSource(b, i) \in Position /\ L!InvShiftSource(b, i) \in Position
         /\ L!ShiftSource(b, L!InvShiftSource(b, i)) = i
<1>1. CASE b = "simd"
  <2>1. L!InvShiftSource(b, i) = (13 * i) % 16
    BY <1>1 DEF L!InvShiftSource
  <2>2. \A j : L!ShiftSource(b, j) = (5 * j) % 16
    BY <1>1 DEF L!ShiftSource
  <2>3. (5 * i) % 16 \in Position /\ (13 * i) % 16 \in Position
    BY DEF Position
  <2>4. (5 * ((13 * i) % 16)) % 16 = i
    BY DEF Position
  <2> QED
    BY <2>1, <2>2, <2>3, <2>4
<1>2. CASE b = "scalar"
  <2>1. L!InvShiftSource(b, i) = 4 * (i \div 4) + (((i % 4) + 4 - (i \div 4)) % 4)
    BY <1>2 DEF L!InvShiftSource, L!Row, L!Col
  <2>2. \A j : L!ShiftSource(b, j) = 4 * (j \div 4) + (((j % 4) + (j \div 4)) % 4)
    BY <1>2 DEF L!ShiftSource, L!Row, L!Col
  <2> DEFINE j == 4 * (i \div 4) + (((i % 4) + 4 - (i \div 4)) % 4)
  <2>3. j \in Position /\ 4 * (i \div 4) + (((i % 4) + (i \div 4)) % 4) \in Position
    BY DEF Position
  <2>4. 4 * (j \div 4) + (((j % 4) + (j \div 4)) % 4) = i
    BY DEF Position
  <2> QED
    BY <2>1, <2>2, <2>3, <2>4
<1> QED
  BY <1>1, <1>2

(* ShiftRows, in both builds.                                              *)
LEMMA ShiftBack ==
  ASSUME NEW b \in {"simd", "scalar"}, NEW s \in Blocks
  PROVE  L!ShiftRows(b, s) \in Blocks /\ L!InvShiftRows(b, L!ShiftRows(b, s)) = s
<1>1. L!ShiftRows(b, s) = [i \in Position |-> s[L!ShiftSource(b, i)]]
  BY DEF L!ShiftRows, L!Pos, Position
<1>2. L!InvShiftRows(b, L!ShiftRows(b, s))
        = [i \in Position |-> L!ShiftRows(b, s)[L!InvShiftSource(b, i)]]
  BY DEF L!InvShiftRows, L!Pos, Position
<1> QED
  BY <1>1, <1>2, ShiftSources DEF Blocks

(* The bytes of a column, from any of them on.                             *)
LEMMA ColumnPlaces ==
  ASSUME NEW i \in Position, NEW k \in 0 .. 3, NEW j \in 0 .. 3
  PROVE  LET at == 4 * L!Row(i) + ((i + k) % 4)
         IN  /\ at \in Position
             /\ 4 * L!Row(at) + ((at + j) % 4) = 4 * L!Row(i) + ((i + ((k + j) % 4)) % 4)
             /\ 4 * L!Row(i) + ((i + 0) % 4) = i
<1> DEFINE at == 4 * (i \div 4) + ((i + k) % 4)
<1>1. \A q : L!Row(q) = q \div 4
  BY DEF L!Row
<1>2. at \in Position /\ at \div 4 = i \div 4
  BY DEF Position
<1>3. (at + j) % 4 = (i + ((k + j) % 4)) % 4
  BY DEF Position
<1>4. 4 * (i \div 4) + ((i + 0) % 4) = i
  BY DEF Position
<1> QED
  BY <1>1, <1>2, <1>3, <1>4

(* MixColumns.                                                             *)
LEMMA MixBack ==
  ASSUME NEW s \in Blocks
  PROVE  L!MixColumns(s) \in Blocks /\ L!InvMixColumns(L!MixColumns(s)) = s
<1> DEFINE t == L!MixColumns(s)
<1>1. \A i \in Position, k \in 0 .. 3 : L!At(s, i, k) \in Byte
  BY ColumnPlaces DEF L!At, Blocks
<1>2. t = [i \in Position |-> Mixed(L!At(s, i, 0), L!At(s, i, 1), L!At(s, i, 2), L!At(s, i, 3))]
  BY DEF L!MixColumns, L!Pos, Position, Mixed
<1>3. t \in Blocks
  BY <1>1, <1>2, MixedTwice DEF Blocks
<1> HIDE DEF t
<1>4. L!InvMixColumns(t)
        = [i \in Position |-> Unmixed(L!At(t, i, 0), L!At(t, i, 1), L!At(t, i, 2), L!At(t, i, 3))]
  BY DEF L!InvMixColumns, L!Pos, Position, Unmixed
<1>5. ASSUME NEW i \in Position
      PROVE  Unmixed(L!At(t, i, 0), L!At(t, i, 1), L!At(t, i, 2), L!At(t, i, 3)) = s[i]
  <2> DEFINE a == L!At(s, i, 0)
             b == L!At(s, i, 1)
             c == L!At(s, i, 2)
             d == L!At(s, i, 3)
  <2>1. a \in Byte /\ b \in Byte /\ c \in Byte /\ d \in Byte
    BY <1>1
  <2>2. a = s[i]
    <3>1. 0 \in 0 .. 3
      OBVIOUS
    <3>2. 4 * L!Row(i) + ((i + 0) % 4) = i
      BY <3>1, ColumnPlaces
    <3> QED
      BY <3>2 DEF L!At
  <2>3. \A k \in 0 .. 3, j \in 0 .. 3 :
          LET at == 4 * L!Row(i) + ((i + k) % 4)
          IN  at \in Position /\ L!At(s, at, j) = L!At(s, i, (k + j) % 4)
    BY ColumnPlaces DEF L!At
  <2>4. \A k \in 0 .. 3 :
          L!At(t, i, k) = Mixed(L!At(s, i, (k + 0) % 4), L!At(s, i, (k + 1) % 4),
                                L!At(s, i, (k + 2) % 4), L!At(s, i, (k + 3) % 4))
    <3> TAKE k \in 0 .. 3
    <3> DEFINE at == 4 * L!Row(i) + ((i + k) % 4)
    <3>1. L!At(t, i, k) = t[at]
      BY DEF L!At
    <3>2. at \in Position
      BY <2>3
    <3>3. /\ L!At(s, at, 0) = L!At(s, i, (k + 0) % 4)
          /\ L!At(s, at, 1) = L!At(s, i, (k + 1) % 4)
          /\ L!At(s, at, 2) = L!At(s, i, (k + 2) % 4)
          /\ L!At(s, at, 3) = L!At(s, i, (k + 3) % 4)
      <4>1. 0 \in 0 .. 3 /\ 1 \in 0 .. 3 /\ 2 \in 0 .. 3 /\ 3 \in 0 .. 3
        OBVIOUS
      <4> QED
        BY <2>3, <4>1
    <3> HIDE DEF at
    <3> QED
      BY <1>2, <3>1, <3>2, <3>3
  <2>5. /\ L!At(t, i, 0) = Mixed(a, b, c, d) /\ L!At(t, i, 1) = Mixed(b, c, d, a)
        /\ L!At(t, i, 2) = Mixed(c, d, a, b) /\ L!At(t, i, 3) = Mixed(d, a, b, c)
    BY <2>4
  <2> HIDE DEF a, b, c, d
  <2> QED
    BY <2>1, <2>2, <2>5, ColumnBack
<1>6. L!InvMixColumns(t) = [i \in Position |-> s[i]]
  BY <1>4, <1>5
<1> QED
  BY <1>3, <1>6 DEF Blocks, t

(* The hexagonal layer: a byte and its antipode change places.             *)
LEMMA HexBack ==
  ASSUME Engine, NEW s \in Blocks, NEW k \in Blocks
  PROVE  /\ L!HexagonalLayer(s, k) \in Blocks
         /\ L!InvHexagonalLayer(L!HexagonalLayer(s, k), k) = s
<1>1. \A i \in Position : L!Antipode(i) \in Position /\ L!Antipode(L!Antipode(i)) = i
  BY DEF L!Antipode, Position
<1>2. \A i \in Position : XorByte(s[L!Antipode(i)], k[i]) \in Byte
  BY <1>1, XorTyped DEF Blocks
<1>3. L!HexagonalLayer(s, k) = [i \in Position |-> sbox[XorByte(s[L!Antipode(i)], k[i])]]
  BY DEF L!HexagonalLayer, L!Pos, Position
<1>4. L!HexagonalLayer(s, k) \in Blocks
  BY <1>2, <1>3, TableBack DEF Blocks
<1>5. L!InvHexagonalLayer(L!HexagonalLayer(s, k), k)
        = [i \in Position |-> XorByte(inv[L!HexagonalLayer(s, k)[L!Antipode(i)]], k[L!Antipode(i)])]
  BY DEF L!InvHexagonalLayer, L!Pos, Position
<1>6. \A i \in Position :
        inv[L!HexagonalLayer(s, k)[L!Antipode(i)]] = XorByte(s[i], k[L!Antipode(i)])
  BY <1>1, <1>2, <1>3, TableBack
<1> QED
  BY <1>4, <1>5, <1>6, XorBack DEF Blocks

(* The addition of a round key.                                            *)
LEMMA KeyBack ==
  ASSUME NEW s \in Blocks, NEW k \in Blocks
  PROVE  L!AddRoundKey(s, k) \in Blocks /\ L!AddRoundKey(L!AddRoundKey(s, k), k) = s
<1>1. L!AddRoundKey(s, k) = [i \in Position |-> XorByte(s[i], k[i])]
  BY DEF L!AddRoundKey, L!Pos, Position
<1>2. L!AddRoundKey(L!AddRoundKey(s, k), k)
        = [i \in Position |-> XorByte(L!AddRoundKey(s, k)[i], k[i])]
  BY DEF L!AddRoundKey, L!Pos, Position
<1> QED
  BY <1>1, <1>2, XorTyped, XorBack DEF Blocks
-----------------------------------------------------------------------------
(***************************************************************************)
(* Retraced is not inductive: it does not say how the trail was laid.      *)
(* Place(r, p) is where on the trail the block was that went into layer p  *)
(* of round r; Laid, that every layer behind the end of the trail led to   *)
(* the block after; and Standing, that layer and round know the end.       *)
(***************************************************************************)
Layers(r) == IF r = 0 THEN {"ark"}
             ELSE IF r = NR THEN {"sub", "shift", "hex", "ark"}
             ELSE {"sub", "shift", "mix", "hex", "ark"}

Turn(r, p) == IF p = "sub" THEN 0
              ELSE IF p = "shift" THEN 1
              ELSE IF p = "mix" THEN 2
              ELSE (IF p = "hex" THEN 3 ELSE 4) - (IF r < NR THEN 0 ELSE 1)

Place(r, p) == 5 * r - 3 + Turn(r, p)

Layer(r, p, s) == IF p = "sub" THEN L!SubBytes(s)
                  ELSE IF p = "shift" THEN L!ShiftRows(build, s)
                  ELSE IF p = "mix" THEN L!MixColumns(s)
                  ELSE IF p = "hex" THEN L!HexagonalLayer(s, rk[r])
                  ELSE L!AddRoundKey(s, rk[r])

Undone == IF layer = "isub" THEN "sub"
          ELSE IF layer = "ishift" THEN "shift"
          ELSE IF layer = "imix" THEN "mix"
          ELSE IF layer = "ihex" THEN "hex" ELSE "ark"

Encrypting == layer \in {"sub", "shift", "mix", "hex", "ark"}
Decrypting == layer \in {"isub", "ishift", "imix", "ihex", "iark"}

Standing ==
  /\ Encrypting => layer \in Layers(round) /\ Len(trail) = Place(round, layer)
  /\ Decrypting => Undone \in Layers(round) /\ Len(trail) = Place(round, Undone) + 1
  /\ layer = "done" => Len(trail) = 1

Laid ==
  \A r \in 0 .. NR : \A p \in Layers(r) :
    Place(r, p) < Len(trail) => trail[Place(r, p) + 1] = Layer(r, p, trail[Place(r, p)])

BlockIInv == /\ BlockTypeOK /\ Engine
             /\ trail \in Seq(Blocks) /\ state = trail[Len(trail)]
             /\ Standing /\ Laid

(* The places of the layers: each within the trail, no two the same.       *)
LEMMA Places ==
  ASSUME NEW r \in 0 .. NR, NEW p \in Layers(r)
  PROVE  /\ Place(r, p) \in 1 .. 5 * NR
         /\ \A q \in 0 .. NR : \A o \in Layers(q) :
              Place(q, o) = Place(r, p) => q = r /\ o = p
<1>1. NR \in Nat /\ NR >= 2
  BY BlockAssumption DEF BlockAssumption
<1>2. \A q \in 0 .. NR : \A o \in Layers(q) :
        /\ o \in {"sub", "shift", "mix", "hex", "ark"}
        /\ Turn(q, o) \in 0 .. 4
        /\ q = 0 => Turn(q, o) = 4
        /\ q = NR => Turn(q, o) \in 0 .. 3
  BY <1>1 DEF Layers, Turn
<1>3. \A q \in 0 .. NR : \A o1, o2 \in Layers(q) : Turn(q, o1) = Turn(q, o2) => o1 = o2
  BY <1>1 DEF Layers, Turn
<1>4. Place(r, p) \in 1 .. 5 * NR
  <2>1. CASE r = 0
    BY <1>1, <1>2, <2>1 DEF Place
  <2>2. CASE r # 0 /\ r # NR
    BY <1>1, <1>2, <2>2 DEF Place
  <2>3. CASE r = NR
    BY <1>1, <1>2, <2>3 DEF Place
  <2> QED
    BY <2>1, <2>2, <2>3
<1>5. ASSUME NEW q \in 0 .. NR, NEW o \in Layers(q), Place(q, o) = Place(r, p)
      PROVE  q = r /\ o = p
  <2>1. Turn(q, o) \in 0 .. 4 /\ Turn(r, p) \in 0 .. 4
    BY <1>2
  <2>2. 5 * q + Turn(q, o) = 5 * r + Turn(r, p)
    BY <1>1, <1>5, <2>1 DEF Place
  <2>3. q = r
    BY <1>1, <2>1, <2>2
  <2> QED
    BY <1>1, <1>3, <2>1, <2>2, <2>3
<1> QED
  BY <1>4, <1>5

(* A layer gives a block.                                                  *)
LEMMA LayerTyped ==
  ASSUME BlockTypeOK, Engine, NEW r \in 0 .. NR, NEW p, NEW s \in Blocks
  PROVE  Layer(r, p, s) \in Blocks
<1>1. rk[r] \in Blocks /\ build \in {"simd", "scalar"}
  BY DEF BlockTypeOK, Engine, Blocks
<1> QED
  BY <1>1, SubBack, ShiftBack, MixBack, HexBack, KeyBack DEF Layer

(* The layers are the same ones after a step, where the trail is.          *)
LEMMA LayerStays ==
  ASSUME UNCHANGED <<build, sbox, inv, rk>>, NEW r, NEW p, NEW i, trail'[i] = trail[i]
  PROVE  Layer(r, p, trail[i])' = Layer(r, p, trail[i])
BY DEF Layer, L!SubBytes, L!ShiftRows, L!ShiftSource, L!MixColumns, L!At, L!Triple,
       L!HexagonalLayer, L!AddRoundKey, L!Row, L!Col, L!Pos, L!Antipode

(* A layer of the encryption puts its block on the trail.                  *)
LEMMA ForwardLays ==
  ASSUME BlockIInv, Encrypting, NEW d \in [Position -> SUBSET Position], NEW next,
         Forward(Layer(round, layer, state), d, next), round' \in 0 .. NR,
         next \in {"sub", "shift", "mix", "hex", "ark", "iark"},
         Len(trail') = Len(trail) + 1 => Standing'
  PROVE  BlockIInv'
<1> DEFINE s == Layer(round, layer, state)
           n == Len(trail)
<1>1. /\ BlockTypeOK /\ Engine /\ trail \in Seq(Blocks) /\ state = trail[n]
      /\ Laid /\ layer \in Layers(round) /\ n = Place(round, layer)
  BY DEF BlockIInv, Standing
<1>2. /\ state' = s /\ deps' = d /\ layer' = next /\ trail' = Append(trail, s)
      /\ UNCHANGED <<build, sbox, inv, rk>>
  BY DEF Forward
<1>3. NR \in Nat /\ round \in 0 .. NR /\ n \in 1 .. 5 * NR
  BY <1>1, Places, BlockAssumption DEF BlockAssumption, BlockTypeOK
<1>4. state \in Blocks
  BY <1>1 DEF BlockTypeOK, Blocks
<1>5. s \in Blocks
  BY <1>1, <1>3, <1>4, LayerTyped
<1>6. s = Layer(round, layer, trail[n])
  BY <1>1
<1> HIDE DEF s
<1>7. /\ trail' \in Seq(Blocks) /\ Len(trail') = n + 1 /\ trail'[n + 1] = s
      /\ \A i \in 1 .. n : trail'[i] = trail[i]
  BY <1>1, <1>2, <1>5, AppendProperties
<1>8. BlockTypeOK'
  <2>1. Len(trail') \in 1 .. 5 * NR + 1
    BY <1>3, <1>7
  <2> QED
    BY <1>1, <1>2, <1>5, <2>1 DEF BlockTypeOK, Blocks
<1>9. Engine'
  BY <1>1, <1>2 DEF Engine
<1>10. Laid'
  <2> SUFFICES ASSUME NEW r \in 0 .. NR, NEW p \in Layers(r), NEW i,
                      i = Place(r, p), i < n + 1
               PROVE  (trail[i + 1] = Layer(r, p, trail[i]))'
    BY <1>7 DEF Laid
  <2>1. i \in 1 .. n
    BY <1>3, Places
  <2>2. trail'[i] = trail[i]
    BY <1>7, <2>1
  <2>3. Layer(r, p, trail[i])' = Layer(r, p, trail[i])
    BY <1>2, <2>2, LayerStays
  <2>4. CASE i < n
    <3>1. trail[i + 1] = Layer(r, p, trail[i])
      BY <1>1, <2>4 DEF Laid
    <3>2. i + 1 \in 1 .. n
      BY <1>3, <2>1, <2>4
    <3> QED
      BY <1>7, <2>3, <3>1, <3>2
  <2>5. CASE i = n
    <3>1. r = round /\ p = layer
      BY <1>1, <1>3, <2>5, Places
    <3> QED
      BY <1>6, <1>7, <2>3, <2>5, <3>1
  <2> QED
    BY <1>3, <2>1, <2>4, <2>5
<1> QED
  BY <1>2, <1>7, <1>8, <1>9, <1>10 DEF BlockIInv

(* The block behind the last one, from which the last one was made.        *)
LEMMA Behind ==
  ASSUME BlockIInv, Decrypting
  PROVE  /\ Undone \in Layers(round) /\ Len(trail) = Place(round, Undone) + 1
         /\ Len(trail) - 1 \in 1 .. 5 * NR
         /\ trail[Len(trail) - 1] \in Blocks
         /\ state = Layer(round, Undone, trail[Len(trail) - 1])
<1> DEFINE n == Len(trail)
           i == Place(round, Undone)
<1>1. /\ trail \in Seq(Blocks) /\ state = trail[n] /\ Laid /\ round \in 0 .. NR
      /\ Undone \in Layers(round) /\ n = i + 1
  BY DEF BlockIInv, Standing, BlockTypeOK
<1>2. i \in 1 .. 5 * NR /\ NR \in Nat
  BY <1>1, Places, BlockAssumption DEF BlockAssumption
<1>3. i < n /\ n - 1 = i /\ i \in 1 .. n
  BY <1>1, <1>2
<1>4. trail[i + 1] = Layer(round, Undone, trail[i])
  BY <1>1, <1>3 DEF Laid
<1>5. trail[i] \in Blocks
  BY <1>1, <1>3
<1> QED
  BY <1>1, <1>2, <1>3, <1>4, <1>5

(* A layer of the decryption that finds that block takes the last one off. *)
LEMMA BackwardTakes ==
  ASSUME BlockIInv, Decrypting, NEW next, Backward(trail[Len(trail) - 1], next),
         round' \in 0 .. NR,
         next \in {"isub", "ishift", "imix", "ihex", "iark", "done"},
         Len(trail') = Len(trail) - 1 => Standing'
  PROVE  BlockIInv'
<1> DEFINE n == Len(trail)
<1>1. BlockTypeOK /\ Engine /\ trail \in Seq(Blocks) /\ Laid /\ NR \in Nat
  BY BlockAssumption DEF BlockAssumption, BlockIInv
<1>2. n - 1 \in 1 .. 5 * NR /\ trail[n - 1] \in Blocks
  BY Behind
<1>3. /\ state' = trail[n - 1] /\ layer' = next /\ trail' = Front(trail)
      /\ UNCHANGED <<build, sbox, inv, rk, deps>>
  BY DEF Backward
<1>4. n \in Nat /\ n - 1 \in 1 .. n
  BY <1>1, <1>2
<1>5. /\ trail' \in Seq(Blocks) /\ Len(trail') = n - 1
      /\ \A i \in 1 .. n - 1 : trail'[i] = trail[i]
  <2>1. trail' = SubSeq(trail, 1, n - 1)
    BY <1>3 DEF Front
  <2>2. \A i \in 1 .. n - 1 : i \in 1 .. n /\ 1 + i - 1 = i
    BY <1>4
  <2> QED
    BY <1>1, <1>4, <2>1, <2>2, SubSeqProperties
<1>6. state' = trail'[Len(trail')]
  BY <1>2, <1>3, <1>5
<1>7. BlockTypeOK'
  <2>1. Len(trail') \in 1 .. 5 * NR + 1
    BY <1>1, <1>2, <1>5
  <2> QED
    BY <1>1, <1>2, <1>3, <2>1 DEF BlockTypeOK, Blocks
<1>8. Engine'
  BY <1>1, <1>3 DEF Engine
<1>9. Laid'
  <2> SUFFICES ASSUME NEW r \in 0 .. NR, NEW p \in Layers(r), NEW i,
                      i = Place(r, p), i < n - 1
               PROVE  (trail[i + 1] = Layer(r, p, trail[i]))'
    BY <1>5 DEF Laid
  <2>1. i \in 1 .. 5 * NR
    BY Places
  <2>2. i \in 1 .. n - 1 /\ i + 1 \in 1 .. n - 1 /\ i < n
    BY <1>1, <1>4, <2>1
  <2>3. trail'[i] = trail[i] /\ Layer(r, p, trail[i])' = Layer(r, p, trail[i])
    <3>1. trail'[i] = trail[i]
      BY <1>5, <2>2
    <3> QED
      BY <1>3, <3>1, LayerStays
  <2>4. trail[i + 1] = Layer(r, p, trail[i])
    BY <1>1, <2>2 DEF Laid
  <2> QED
    BY <1>5, <2>2, <2>3, <2>4
<1> QED
  BY <1>5, <1>6, <1>7, <1>8, <1>9 DEF BlockIInv

-----------------------------------------------------------------------------
(* The dependencies of bytes stay sets of positions through every layer.   *)
LEMMA DependenciesTyped ==
  ASSUME NEW d \in [Position -> SUBSET Position], NEW b \in {"simd", "scalar"}
  PROVE  /\ D!SubBytes(d) \in [Position -> SUBSET Position]
         /\ D!ShiftRows(b, d) \in [Position -> SUBSET Position]
         /\ D!MixColumns(d) \in [Position -> SUBSET Position]
         /\ D!HexagonalLayer(d, NoDeps) \in [Position -> SUBSET Position]
         /\ D!AddRoundKey(d, NoDeps) \in [Position -> SUBSET Position]
<1>1. D!Pos = Position
  BY DEF D!Pos, Position
<1>2. \A i \in Position : d[i] \in SUBSET Position /\ NoDeps[i] = {}
  BY DEF NoDeps
<1>3. \A x \in SUBSET Position : Through[x] \in SUBSET Position
  BY DEF Through
<1>4. \A x, y \in SUBSET Position : Union(x, y) \in SUBSET Position
  BY DEF Union
<1>5. \A x \in SUBSET Position : D!Triple(x) \in SUBSET Position /\ Same(x) \in SUBSET Position
  BY <1>4 DEF D!Triple, Same
<1>6. D!SubBytes(d) \in [Position -> SUBSET Position]
  BY <1>1, <1>2, <1>3 DEF D!SubBytes
<1>7. D!ShiftRows(b, d) \in [Position -> SUBSET Position]
  <2>1. \A i \in Position : D!ShiftSource(b, i) \in Position
    BY ShiftSources DEF D!ShiftSource, L!ShiftSource, D!Row, L!Row, D!Col, L!Col
  <2> QED
    BY <1>1, <1>2, <2>1 DEF D!ShiftRows
<1>8. D!MixColumns(d) \in [Position -> SUBSET Position]
  <2>1. \A i \in Position, k \in 0 .. 3 : D!At(d, i, k) \in SUBSET Position
    <3> TAKE i \in Position, k \in 0 .. 3
    <3>1. 4 * D!Row(i) + ((i + k) % 4) \in Position
      BY DEF D!Row, Position
    <3> QED
      BY <1>2, <3>1 DEF D!At
  <2>2. \A i \in Position :
          Union(Union(Same(D!At(d, i, 0)), D!Triple(D!At(d, i, 1))),
                Union(D!At(d, i, 2), D!At(d, i, 3))) \in SUBSET Position
    BY <1>4, <1>5, <2>1
  <2> QED
    BY <1>1, <2>2 DEF D!MixColumns
<1>9. D!HexagonalLayer(d, NoDeps) \in [Position -> SUBSET Position]
  <2>1. \A i \in Position : D!Antipode(i) \in Position
    BY DEF D!Antipode, Position
  <2>2. \A i \in Position : Through[Union(d[D!Antipode(i)], NoDeps[i])] \in SUBSET Position
    BY <1>2, <1>3, <1>4, <2>1
  <2> QED
    BY <1>1, <2>2 DEF D!HexagonalLayer
<1>10. D!AddRoundKey(d, NoDeps) \in [Position -> SUBSET Position]
  BY <1>1, <1>2, <1>4 DEF D!AddRoundKey
<1> QED
  BY <1>6, <1>7, <1>8, <1>9, <1>10

(* What every step can rest on.                                            *)
LEMMA Facts ==
  ASSUME BlockIInv
  PROVE  /\ NR \in Nat /\ NR >= 2 /\ round \in 0 .. NR
         /\ Engine /\ build \in {"simd", "scalar"}
         /\ deps \in [Position -> SUBSET Position] /\ rk[round] \in Blocks
         /\ Len(trail) \in Nat
BY BlockAssumption DEF BlockAssumption, BlockIInv, Engine, BlockTypeOK, Blocks

(* Encryption.                                                             *)
LEMMA EncryptionKeeps ==
  ASSUME BlockIInv, SubBytes \/ ShiftRows \/ MixColumns \/ Hexagonal \/ AddRoundKey
  PROVE  BlockIInv'
<1> USE Facts
<1>1. CASE SubBytes
  <2> DEFINE next == "shift"
  <2>1. layer = "sub" /\ Encrypting /\ layer \in Layers(round) /\ Len(trail) = Place(round, layer)
    BY <1>1 DEF SubBytes, Encrypting, BlockIInv, Standing
  <2>2. Layer(round, layer, state) = L!SubBytes(state)
    BY <2>1 DEF Layer
  <2>3. Forward(Layer(round, layer, state), D!SubBytes(deps), next)
    BY <1>1, <2>2 DEF SubBytes
  <2>4. layer' = next /\ round' = round
    BY <1>1 DEF SubBytes, Forward
  <2>5. round' \in 0 .. NR
    BY <2>4
  <2>6. Len(trail') = Len(trail) + 1 => Standing'
    BY <2>1, <2>4 DEF Standing, Encrypting, Decrypting, Undone, Layers, Place, Turn
  <2>7. D!SubBytes(deps) \in [Position -> SUBSET Position]
    BY DependenciesTyped
  <2>8. next \in {"sub", "shift", "mix", "hex", "ark", "iark"}
    OBVIOUS
  <2> HIDE DEF next
  <2> QED
    BY <2>1, <2>3, <2>5, <2>6, <2>7, <2>8, ForwardLays
<1>2. CASE ShiftRows
  <2> DEFINE next == IF round < NR THEN "mix" ELSE "hex"
  <2>1. layer = "shift" /\ Encrypting /\ layer \in Layers(round) /\ Len(trail) = Place(round, layer)
    BY <1>2 DEF ShiftRows, Encrypting, BlockIInv, Standing
  <2>2. Layer(round, layer, state) = L!ShiftRows(build, state)
    BY <2>1 DEF Layer
  <2>3. Forward(Layer(round, layer, state), D!ShiftRows(build, deps), next)
    BY <1>2, <2>2 DEF ShiftRows
  <2>4. layer' = next /\ round' = round
    BY <1>2 DEF ShiftRows, Forward
  <2>5. round' \in 0 .. NR
    BY <2>4
  <2>6. Len(trail') = Len(trail) + 1 => Standing'
    BY <2>1, <2>4 DEF Standing, Encrypting, Decrypting, Undone, Layers, Place, Turn
  <2>7. D!ShiftRows(build, deps) \in [Position -> SUBSET Position]
    BY DependenciesTyped
  <2>8. next \in {"sub", "shift", "mix", "hex", "ark", "iark"}
    OBVIOUS
  <2> HIDE DEF next
  <2> QED
    BY <2>1, <2>3, <2>5, <2>6, <2>7, <2>8, ForwardLays
<1>3. CASE MixColumns
  <2> DEFINE next == "hex"
  <2>1. layer = "mix" /\ Encrypting /\ layer \in Layers(round) /\ Len(trail) = Place(round, layer)
    BY <1>3 DEF MixColumns, Encrypting, BlockIInv, Standing
  <2>2. Layer(round, layer, state) = L!MixColumns(state)
    BY <2>1 DEF Layer
  <2>3. Forward(Layer(round, layer, state), D!MixColumns(deps), next)
    BY <1>3, <2>2 DEF MixColumns
  <2>4. layer' = next /\ round' = round
    BY <1>3 DEF MixColumns, Forward
  <2>5. round' \in 0 .. NR
    BY <2>4
  <2>6. Len(trail') = Len(trail) + 1 => Standing'
    BY <2>1, <2>4 DEF Standing, Encrypting, Decrypting, Undone, Layers, Place, Turn
  <2>7. D!MixColumns(deps) \in [Position -> SUBSET Position]
    BY DependenciesTyped
  <2>8. next \in {"sub", "shift", "mix", "hex", "ark", "iark"}
    OBVIOUS
  <2> HIDE DEF next
  <2> QED
    BY <2>1, <2>3, <2>5, <2>6, <2>7, <2>8, ForwardLays
<1>4. CASE Hexagonal
  <2> DEFINE next == "ark"
  <2>1. layer = "hex" /\ Encrypting /\ layer \in Layers(round) /\ Len(trail) = Place(round, layer)
    BY <1>4 DEF Hexagonal, Encrypting, BlockIInv, Standing
  <2>2. Layer(round, layer, state) = L!HexagonalLayer(state, rk[round])
    BY <2>1 DEF Layer
  <2>3. Forward(Layer(round, layer, state), D!HexagonalLayer(deps, NoDeps), next)
    BY <1>4, <2>2 DEF Hexagonal
  <2>4. layer' = next /\ round' = round
    BY <1>4 DEF Hexagonal, Forward
  <2>5. round' \in 0 .. NR
    BY <2>4
  <2>6. Len(trail') = Len(trail) + 1 => Standing'
    BY <2>1, <2>4 DEF Standing, Encrypting, Decrypting, Undone, Layers, Place, Turn
  <2>7. D!HexagonalLayer(deps, NoDeps) \in [Position -> SUBSET Position]
    BY DependenciesTyped
  <2>8. next \in {"sub", "shift", "mix", "hex", "ark", "iark"}
    OBVIOUS
  <2> HIDE DEF next
  <2> QED
    BY <2>1, <2>3, <2>5, <2>6, <2>7, <2>8, ForwardLays
<1>5. CASE AddRoundKey
  <2> DEFINE next == IF round < NR THEN "sub" ELSE "iark"
  <2>1. layer = "ark" /\ Encrypting /\ layer \in Layers(round) /\ Len(trail) = Place(round, layer)
    BY <1>5 DEF AddRoundKey, Encrypting, BlockIInv, Standing
  <2>2. Layer(round, layer, state) = L!AddRoundKey(state, rk[round])
    BY <2>1 DEF Layer
  <2>3. Forward(Layer(round, layer, state), D!AddRoundKey(deps, NoDeps), next)
    BY <1>5, <2>2 DEF AddRoundKey
  <2>4. layer' = next /\ round' = IF round < NR THEN round + 1 ELSE round
    BY <1>5 DEF AddRoundKey, Forward
  <2>5. round' \in 0 .. NR
    BY <2>4
  <2>6. Len(trail') = Len(trail) + 1 => Standing'
    BY <2>1, <2>4 DEF Standing, Encrypting, Decrypting, Undone, Layers, Place, Turn
  <2>7. D!AddRoundKey(deps, NoDeps) \in [Position -> SUBSET Position]
    BY DependenciesTyped
  <2>8. next \in {"sub", "shift", "mix", "hex", "ark", "iark"}
    OBVIOUS
  <2> HIDE DEF next
  <2> QED
    BY <2>1, <2>3, <2>5, <2>6, <2>7, <2>8, ForwardLays
<1> QED
  BY <1>1, <1>2, <1>3, <1>4, <1>5

(* Decryption: each layer meets the one that it undoes.                    *)
LEMMA DecryptionKeeps ==
  ASSUME BlockIInv,
         InvAddRoundKey \/ InvHexagonal \/ InvMixColumns \/ InvShiftRows \/ InvSubBytes
  PROVE  BlockIInv'
<1> USE Facts
<1> DEFINE s == trail[Len(trail) - 1]
<1>1. CASE InvAddRoundKey
  <2> DEFINE next == IF round = 0 THEN "done" ELSE "ihex"
  <2>1. layer = "iark" /\ Decrypting /\ Undone = "ark"
    BY <1>1 DEF InvAddRoundKey, Decrypting, Undone
  <2>2. /\ s \in Blocks /\ state = L!AddRoundKey(s, rk[round])
        /\ "ark" \in Layers(round) /\ Len(trail) = Place(round, "ark") + 1
    BY <2>1, Behind DEF Layer
  <2> HIDE DEF s
  <2>3. L!AddRoundKey(state, rk[round]) = s
    BY <2>2, KeyBack
  <2>4. Backward(s, next)
    BY <1>1, <2>3 DEF InvAddRoundKey
  <2>5. layer' = next /\ round' = round
    BY <1>1 DEF InvAddRoundKey, Backward
  <2>6. round' \in 0 .. NR
    BY <2>2, <2>5 DEF Layers
  <2>7. Len(trail') = Len(trail) - 1 => Standing'
    BY <2>2, <2>5 DEF Standing, Encrypting, Decrypting, Undone, Layers, Place, Turn
  <2>8. next \in {"isub", "ishift", "imix", "ihex", "iark", "done"}
    OBVIOUS
  <2> HIDE DEF next
  <2> QED
    BY <2>1, <2>4, <2>6, <2>7, <2>8, BackwardTakes DEF s
<1>2. CASE InvHexagonal
  <2> DEFINE next == IF round = NR THEN "ishift" ELSE "imix"
  <2>1. layer = "ihex" /\ Decrypting /\ Undone = "hex"
    BY <1>2 DEF InvHexagonal, Decrypting, Undone
  <2>2. /\ s \in Blocks /\ state = L!HexagonalLayer(s, rk[round])
        /\ "hex" \in Layers(round) /\ Len(trail) = Place(round, "hex") + 1
    BY <2>1, Behind DEF Layer
  <2> HIDE DEF s
  <2>3. L!InvHexagonalLayer(state, rk[round]) = s
    BY <2>2, HexBack
  <2>4. Backward(s, next)
    BY <1>2, <2>3 DEF InvHexagonal
  <2>5. layer' = next /\ round' = round
    BY <1>2 DEF InvHexagonal, Backward
  <2>6. round' \in 0 .. NR
    BY <2>2, <2>5 DEF Layers
  <2>7. Len(trail') = Len(trail) - 1 => Standing'
    BY <2>2, <2>5 DEF Standing, Encrypting, Decrypting, Undone, Layers, Place, Turn
  <2>8. next \in {"isub", "ishift", "imix", "ihex", "iark", "done"}
    OBVIOUS
  <2> HIDE DEF next
  <2> QED
    BY <2>1, <2>4, <2>6, <2>7, <2>8, BackwardTakes DEF s
<1>3. CASE InvMixColumns
  <2> DEFINE next == "ishift"
  <2>1. layer = "imix" /\ Decrypting /\ Undone = "mix"
    BY <1>3 DEF InvMixColumns, Decrypting, Undone
  <2>2. /\ s \in Blocks /\ state = L!MixColumns(s)
        /\ "mix" \in Layers(round) /\ Len(trail) = Place(round, "mix") + 1
    BY <2>1, Behind DEF Layer
  <2> HIDE DEF s
  <2>3. L!InvMixColumns(state) = s
    BY <2>2, MixBack
  <2>4. Backward(s, next)
    BY <1>3, <2>3 DEF InvMixColumns
  <2>5. layer' = next /\ round' = round
    BY <1>3 DEF InvMixColumns, Backward
  <2>6. round' \in 0 .. NR
    BY <2>2, <2>5 DEF Layers
  <2>7. Len(trail') = Len(trail) - 1 => Standing'
    BY <2>2, <2>5 DEF Standing, Encrypting, Decrypting, Undone, Layers, Place, Turn
  <2>8. next \in {"isub", "ishift", "imix", "ihex", "iark", "done"}
    OBVIOUS
  <2> HIDE DEF next
  <2> QED
    BY <2>1, <2>4, <2>6, <2>7, <2>8, BackwardTakes DEF s
<1>4. CASE InvShiftRows
  <2> DEFINE next == "isub"
  <2>1. layer = "ishift" /\ Decrypting /\ Undone = "shift"
    BY <1>4 DEF InvShiftRows, Decrypting, Undone
  <2>2. /\ s \in Blocks /\ state = L!ShiftRows(build, s)
        /\ "shift" \in Layers(round) /\ Len(trail) = Place(round, "shift") + 1
    BY <2>1, Behind DEF Layer
  <2> HIDE DEF s
  <2>3. L!InvShiftRows(build, state) = s
    BY <2>2, ShiftBack
  <2>4. Backward(s, next)
    BY <1>4, <2>3 DEF InvShiftRows
  <2>5. layer' = next /\ round' = round
    BY <1>4 DEF InvShiftRows, Backward
  <2>6. round' \in 0 .. NR
    BY <2>2, <2>5 DEF Layers
  <2>7. Len(trail') = Len(trail) - 1 => Standing'
    BY <2>2, <2>5 DEF Standing, Encrypting, Decrypting, Undone, Layers, Place, Turn
  <2>8. next \in {"isub", "ishift", "imix", "ihex", "iark", "done"}
    OBVIOUS
  <2> HIDE DEF next
  <2> QED
    BY <2>1, <2>4, <2>6, <2>7, <2>8, BackwardTakes DEF s
<1>5. CASE InvSubBytes
  <2> DEFINE next == "iark"
  <2>1. layer = "isub" /\ Decrypting /\ Undone = "sub"
    BY <1>5 DEF InvSubBytes, Decrypting, Undone
  <2>2. /\ s \in Blocks /\ state = L!SubBytes(s)
        /\ "sub" \in Layers(round) /\ Len(trail) = Place(round, "sub") + 1
    BY <2>1, Behind DEF Layer
  <2> HIDE DEF s
  <2>3. L!InvSubBytes(state) = s
    BY <2>2, SubBack
  <2>4. Backward(s, next)
    BY <1>5, <2>3 DEF InvSubBytes
  <2>5. layer' = next /\ round' = round - 1
    BY <1>5 DEF InvSubBytes, Backward
  <2>6. round' \in 0 .. NR
    BY <2>2, <2>5 DEF Layers
  <2>7. Len(trail') = Len(trail) - 1 => Standing'
    BY <2>2, <2>5 DEF Standing, Encrypting, Decrypting, Undone, Layers, Place, Turn
  <2>8. next \in {"isub", "ishift", "imix", "ihex", "iark", "done"}
    OBVIOUS
  <2> HIDE DEF next
  <2> QED
    BY <2>1, <2>4, <2>6, <2>7, <2>8, BackwardTakes DEF s
<1> QED
  BY <1>1, <1>2, <1>3, <1>4, <1>5

-----------------------------------------------------------------------------
(* The key schedule: whatever the key, all its words are words of bytes.    *)
Word     == [0 .. 3 -> Byte]
Schedule == {words \in Seq(Word) : Len(words) >= 8}

(* Induction over the natural numbers, with a set in the place of a formula. *)
LEMMA NatInductive ==
  ASSUME NEW S, 0 \in S, \A n \in Nat : n \in S => n + 1 \in S
  PROVE  \A n \in Nat : n \in S
<1> SUFFICES ASSUME NEW n \in Nat, n \notin S PROVE FALSE
  OBVIOUS
<1> DEFINE R == OpToRel(<, Nat)
           T == {m \in Nat : m \notin S}
<1>1. PICK t \in T : \A u \in T : <<u, t>> \notin R
  <2>1. T # {} /\ T \subseteq Nat
    OBVIOUS
  <2> QED
    BY <2>1, NatLessThanWellFounded, WFMin
<1>2. \A u \in T : ~(u < t)
  BY <1>1 DEF OpToRel
<1>3. t # 0 /\ t - 1 \in Nat /\ t - 1 < t
  OBVIOUS
<1>4. t - 1 \in S
  BY <1>2, <1>3
<1> QED
  BY <1>3, <1>4

(* v begins with a and goes on by the steps of F.                           *)
Repeated(v, n, a, F) ==
  v = [m \in 0 .. n |-> IF m = 0 THEN a ELSE F[v[m - 1]]]

(* A step that stays in a set can be repeated as often as one likes, and    *)
(* stays there.                                                             *)
LEMMA Repeats ==
  ASSUME NEW V, NEW a \in V, NEW F \in [V -> V], NEW n \in Nat
  PROVE  /\ \E v : Repeated(v, n, a, F)
         /\ \A v : Repeated(v, n, a, F) => v \in [0 .. n -> V]
<1> DEFINE Good(m, v) == v \in [0 .. m -> V] /\ Repeated(v, m, a, F)
           S == {m \in Nat : \E v : Good(m, v)}
<1>1. 0 \in S
  <2>1. Good(0, [m \in 0 .. 0 |-> a])
    BY DEF Repeated
  <2> QED
    BY <2>1
<1>2. ASSUME NEW m \in Nat, m \in S PROVE m + 1 \in S
  <2>1. PICK v : Good(m, v)
    BY <1>2
  <2> DEFINE w == [k \in 0 .. m + 1 |-> IF k = m + 1 THEN F[v[m]] ELSE v[k]]
  <2>2. w \in [0 .. m + 1 -> V] /\ \A k \in 0 .. m : w[k] = v[k]
    BY <2>1
  <2>3. ASSUME NEW k \in 0 .. m + 1 PROVE w[k] = IF k = 0 THEN a ELSE F[w[k - 1]]
    <3>1. CASE k = m + 1
      <4>1. w[k] = F[v[m]] /\ k # 0 /\ k - 1 = m /\ w[m] = v[m]
        BY <3>1, <2>2
      <4> HIDE DEF w
      <4> QED
        BY <4>1
    <3>2. CASE k # m + 1
      <4>1. k \in 0 .. m /\ w[k] = v[k]
        BY <3>2, <2>2
      <4>2. v[k] = IF k = 0 THEN a ELSE F[v[k - 1]]
        BY <2>1, <4>1 DEF Repeated
      <4>3. k # 0 => k - 1 \in 0 .. m /\ w[k - 1] = v[k - 1]
        BY <4>1, <2>2
      <4> HIDE DEF w
      <4> QED
        BY <4>1, <4>2, <4>3
    <3> QED
      BY <3>1, <3>2
  <2> HIDE DEF w
  <2>4. Repeated(w, m + 1, a, F)
    BY <2>2, <2>3 DEF Repeated
  <2> QED
    BY <2>2, <2>4
<1>3. n \in S
  <2> HIDE DEF S
  <2> QED
    BY <1>1, <1>2, NatInductive
<1>4. ASSUME NEW v, Repeated(v, n, a, F) PROVE v \in [0 .. n -> V]
  <2>1. v = [m \in 0 .. n |-> v[m]]
    BY <1>4 DEF Repeated
  <2>2. \A m \in 0 .. n : v[m] = IF m = 0 THEN a ELSE F[v[m - 1]]
    BY <1>4 DEF Repeated
  <2> DEFINE T == {m \in Nat : m <= n => v[m] \in V}
  <2>3. 0 \in T
    BY <2>2
  <2>4. ASSUME NEW m \in Nat, m \in T PROVE m + 1 \in T
    <3>1. CASE m + 1 <= n
      <4>1. m + 1 \in 0 .. n /\ m + 1 # 0 /\ (m + 1) - 1 = m /\ v[m] \in V
        BY <2>4, <3>1
      <4>2. v[m + 1] = F[v[m]]
        BY <2>2, <4>1
      <4> QED
        BY <4>1, <4>2
    <3>2. CASE ~(m + 1 <= n)
      BY <3>2
    <3> QED
      BY <3>1, <3>2
  <2> HIDE DEF T
  <2>5. \A m \in Nat : m \in T
    BY <2>3, <2>4, NatInductive
  <2>6. \A m \in 0 .. n : v[m] \in V
    BY <2>5 DEF T
  <2> QED
    BY <2>1, <2>6
<1> QED
  BY <1>3, <1>4

(* The round constants are bytes.                                           *)
LEMMA RconTyped ==
  ASSUME NEW k \in Nat \ {0}
  PROVE  Rcon(k) \in Byte
<1> DEFINE F == [x \in Byte |-> DoubleByte(x)]
           Rec(v) == v = [m \in 0 .. k - 1 |-> IF m = 0 THEN {0} ELSE DoubleByte(v[m - 1])]
           power == CHOOSE v : Rec(v)
<1>1. {0} \in Byte /\ F \in [Byte -> Byte] /\ k - 1 \in Nat
  BY BlockAssumption, DoubleBit DEF Byte
<1>2. PICK v : Repeated(v, k - 1, {0}, F)
  BY <1>1, Repeats
<1>3. v \in [0 .. k - 1 -> Byte]
  BY <1>1, <1>2, Repeats
<1>4. ASSUME NEW m \in 0 .. k - 1 PROVE v[m] = IF m = 0 THEN {0} ELSE DoubleByte(v[m - 1])
  <2>1. v[m] = IF m = 0 THEN {0} ELSE F[v[m - 1]]
    BY <1>2 DEF Repeated
  <2>2. m # 0 => m - 1 \in 0 .. k - 1 /\ v[m - 1] \in Byte
    BY <1>3
  <2> QED
    BY <2>1, <2>2
<1>5. Rec(power)
  BY <1>3, <1>4
<1>6. Rcon(k) = power[k - 1]
  BY DEF Rcon
<1> HIDE DEF power
<1>7. \A m \in 0 .. k - 1 : power[m] = IF m = 0 THEN {0} ELSE DoubleByte(power[m - 1])
  BY <1>5
<1> DEFINE S == {m \in Nat : m <= k - 1 => power[m] \in Byte}
<1>8. 0 \in S
  BY <1>1, <1>7
<1>9. ASSUME NEW m \in Nat, m \in S PROVE m + 1 \in S
  <2>1. CASE m + 1 <= k - 1
    <3>1. power[m] \in Byte /\ m + 1 \in 0 .. k - 1 /\ (m + 1) - 1 = m
      BY <1>9, <2>1
    <3>2. power[m + 1] = DoubleByte(power[m])
      BY <1>7, <3>1
    <3> QED
      BY <3>1, <3>2, DoubleBit
  <2>2. CASE ~(m + 1 <= k - 1)
    BY <2>2
  <2> QED
    BY <2>1, <2>2
<1> HIDE DEF S
<1>10. k - 1 \in S
  BY <1>1, <1>8, <1>9, NatInductive
<1> QED
  BY <1>1, <1>6, <1>10 DEF S

(* The next word is one: the schedule goes on as it began.                  *)
LEMMA NextWordTyped ==
  ASSUME NEW t \in SBoxes, NEW words \in Schedule
  PROVE  NextWord(t, words) \in Word
<1> DEFINE n == Len(words)
           last == words[n]
<1>1. words \in Seq(Word) /\ n \in Nat /\ n >= 8 /\ last \in Word /\ words[n - 7] \in Word
  BY DEF Schedule
<1>2. t \in [Byte -> Byte]
  BY BlockAssumption
<1>3. \A v, w \in Word : XorWord(v, w) \in Word
  BY XorTyped DEF XorWord, Word
<1>4. \A v \in Word : SubWord(t, v) \in Word
  BY <1>2 DEF SubWord, Word
<1>5. \A v \in Word : RotWord(v) \in Word
  <2>1. \A j \in 0 .. 3 : (j + 1) % 4 \in 0 .. 3
    BY Z3
  <2> QED
    BY <2>1 DEF RotWord, Word
<1>6. n % 8 = 0 => [j \in 0 .. 3 |-> IF j = 0 THEN Rcon(n \div 8) ELSE {}] \in Word
  <2>1. n \div 8 \in Nat \ {0}
    BY <1>1, Z3
  <2>2. Rcon(n \div 8) \in Byte /\ {} \in Byte
    BY <2>1, RconTyped DEF Byte
  <2> QED
    BY <2>2 DEF Word
<1> DEFINE con  == [j \in 0 .. 3 |-> IF j = 0 THEN Rcon(n \div 8) ELSE {}]
           temp == IF n % 8 = 0 THEN XorWord(SubWord(t, RotWord(last)), con)
                   ELSE IF n % 8 = 4 THEN SubWord(t, last) ELSE last
<1>7. NextWord(t, words) = XorWord(words[n - 7], temp)
  BY DEF NextWord
<1>8. temp \in Word
  <2> HIDE DEF con, last
  <2>1. n % 8 = 0 => XorWord(SubWord(t, RotWord(last)), con) \in Word
    BY <1>1, <1>3, <1>4, <1>5, <1>6 DEF con
  <2> HIDE DEF n
  <2> QED
    BY <1>1, <1>4, <2>1
<1> HIDE DEF temp, n
<1> QED
  BY <1>1, <1>3, <1>7, <1>8

(* CHOI_ROUND_KEYS is filled to its end, with words of bytes.               *)
LEMMA ScheduleTyped ==
  ASSUME NEW t \in SBoxes, NEW key \in Keys
  PROVE  /\ ExpandKey(t, key) \in Seq(Word)
         /\ Len(ExpandKey(t, key)) = 4 * (NR + 1)
<1> DEFINE n == 4 * (NR + 1) - 8
           F == [s \in Schedule |-> Append(s, NextWord(t, s))]
           Rec(v) == v = [m \in 0 .. n |-> IF m = 0 THEN KeyWords(key)
                                           ELSE Append(v[m - 1], NextWord(t, v[m - 1]))]
           words == CHOOSE v : Rec(v)
<1>1. n \in Nat /\ n + 8 = 4 * (NR + 1)
  BY BlockAssumption
<1>2. KeyWords(key) \in Schedule /\ Len(KeyWords(key)) = 8
  <2>1. key \in [0 .. 31 -> Byte]
    BY BlockAssumption
  <2>2. KeyWords(key) \in [1 .. 8 -> Word]
    BY <2>1 DEF KeyWords, Word
  <2>3. KeyWords(key) \in Seq(Word)
    BY <2>2, SeqDef
  <2> DEFINE l == Len(KeyWords(key))
  <2>4. 1 .. l = 1 .. 8 /\ l \in Nat
    BY <2>2, <2>3, LenProperties
  <2> HIDE DEF l
  <2>5. l \in Nat
    BY <2>4
  <2>6. 8 \in 1 .. l
    BY <2>4
  <2>7. l \in 1 .. l
    BY <2>5, <2>6
  <2>8. l \in 1 .. 8
    BY <2>4, <2>7
  <2>9. l = 8 /\ l >= 8
    BY <2>5, <2>6, <2>8
  <2> QED
    BY <2>3, <2>9, Zenon DEF Schedule, l
<1>3. ASSUME NEW s \in Schedule
      PROVE  /\ Append(s, NextWord(t, s)) \in Schedule
             /\ Len(Append(s, NextWord(t, s))) = Len(s) + 1
  <2>1. NextWord(t, s) \in Word
    BY NextWordTyped
  <2> QED
    BY <2>1 DEF Schedule
<1>4. F \in [Schedule -> Schedule]
  BY <1>3
<1> HIDE DEF n
<1>5. PICK v : Repeated(v, n, KeyWords(key), F)
  BY <1>1, <1>2, <1>4, Repeats
<1>6. v \in [0 .. n -> Schedule]
  BY <1>1, <1>2, <1>4, <1>5, Repeats
<1>7. ASSUME NEW m \in 0 .. n
      PROVE  v[m] = IF m = 0 THEN KeyWords(key)
                    ELSE Append(v[m - 1], NextWord(t, v[m - 1]))
  <2>1. v[m] = IF m = 0 THEN KeyWords(key) ELSE F[v[m - 1]]
    BY <1>5 DEF Repeated
  <2>2. m # 0 => m - 1 \in 0 .. n /\ v[m - 1] \in Schedule
    BY <1>1, <1>6
  <2> QED
    BY <2>1, <2>2
<1>8. Rec(words)
  BY <1>6, <1>7
<1>9. ExpandKey(t, key) = words[n]
  BY DEF ExpandKey, n
<1> HIDE DEF words
<1>10. \A m \in 0 .. n : words[m] = IF m = 0 THEN KeyWords(key)
                                     ELSE Append(words[m - 1], NextWord(t, words[m - 1]))
  BY <1>8
<1> DEFINE S == {m \in Nat : m <= n => words[m] \in Schedule /\ Len(words[m]) = m + 8}
<1>11. 0 \in S
  BY <1>1, <1>2, <1>10
<1>12. ASSUME NEW m \in Nat, m \in S PROVE m + 1 \in S
  <2>1. CASE m + 1 <= n
    <3>1. words[m] \in Schedule /\ Len(words[m]) = m + 8 /\ m + 1 \in 0 .. n /\ (m + 1) - 1 = m
      BY <1>1, <1>12, <2>1
    <3>2. words[m + 1] = Append(words[m], NextWord(t, words[m]))
      <4>1. m + 1 # 0
        OBVIOUS
      <4>2. words[m + 1] = Append(words[(m + 1) - 1], NextWord(t, words[(m + 1) - 1]))
        BY <1>10, <3>1, <4>1, Zenon
      <4> QED
        BY <3>1, <4>2, Zenon
    <3>3. words[m + 1] \in Schedule /\ Len(words[m + 1]) = Len(words[m]) + 1
      BY <1>3, <3>1, <3>2
    <3>4. Len(words[m + 1]) = (m + 1) + 8
      BY <3>1, <3>3
    <3> QED
      BY <3>3, <3>4
  <2>2. CASE ~(m + 1 <= n)
    BY <2>2
  <2> QED
    BY <2>1, <2>2
<1> HIDE DEF S
<1>13. n \in S
  BY <1>1, <1>11, <1>12, NatInductive
<1> QED
  BY <1>1, <1>9, <1>13 DEF S, Schedule

(* Every round key is there, and is of bytes.                               *)
LEMMA RoundKeyTyped ==
  ASSUME NEW t \in SBoxes, NEW key \in Keys, NEW r \in 0 .. NR
  PROVE  RoundKey(ExpandKey(t, key), r) \in [Position -> Byte]
<1> DEFINE words == ExpandKey(t, key)
<1>1. words \in Seq(Word) /\ Len(words) = 4 * (NR + 1)
  BY ScheduleTyped
<1> HIDE DEF words
<1>2. ASSUME NEW i \in Position PROVE words[4 * r + (i \div 4) + 1][3 - (i % 4)] \in Byte
  <2>1. i \div 4 \in 0 .. 3 /\ i % 4 \in 0 .. 3
    BY Z3 DEF Position
  <2>2. 4 * r + (i \div 4) + 1 \in 1 .. 4 * (NR + 1) /\ 3 - (i % 4) \in 0 .. 3
    BY <2>1, BlockAssumption
  <2>3. words[4 * r + (i \div 4) + 1] \in Word
    BY <1>1, <2>2
  <2> QED
    BY <2>2, <2>3 DEF Word
<1> QED
  BY <1>2 DEF RoundKey, words
-----------------------------------------------------------------------------
(* The trail begins with the input, before the first key.                  *)
LEMMA BlockInitial == BlockInit => BlockIInv
<1> SUFFICES ASSUME BlockInit PROVE BlockIInv
  OBVIOUS
<1>1. NR \in Nat /\ NR >= 2 /\ state \in Blocks /\ build \in {"simd", "scalar"}
  <2>1. state \in Inputs /\ build \in Builds
    BY DEF BlockInit
  <2>2. NR \in Nat /\ NR >= 2 /\ Inputs \subseteq Blocks /\ Builds \subseteq {"simd", "scalar"}
    BY BlockAssumption DEF BlockAssumption, Blocks
  <2> QED
    BY <2>1, <2>2
<1>2. layer = "ark" /\ round = 0 /\ trail = <<state>> /\ deps = [i \in Position |-> {i}]
  BY DEF BlockInit
<1>3. trail \in Seq(Blocks) /\ Len(trail) = 1 /\ trail[1] = state
  BY <1>1, <1>2
<1>4. rk \in [0 .. NR -> [Position -> Byte]]
  <2>1. PICK key \in Keys : rk = [r \in 0 .. NR |-> RoundKey(ExpandKey(sbox, key), r)]
    BY DEF BlockInit
  <2>2. \A r \in 0 .. NR : RoundKey(ExpandKey(sbox, key), r) \in [Position -> Byte]
    BY <2>1, RoundKeyTyped DEF BlockInit
  <2> QED
    BY <2>1, <2>2
<1>5. BlockTypeOK
  BY <1>1, <1>2, <1>3, <1>4 DEF BlockTypeOK, Blocks
<1>6. Engine
  BY <1>1 DEF BlockInit, Engine
<1>7. Standing
  BY <1>1, <1>2, <1>3 DEF Standing, Encrypting, Decrypting, Layers, Place, Turn
<1>8. Laid
  <2>1. \A r \in 0 .. NR : \A p \in Layers(r) : Place(r, p) \in 1 .. 5 * NR
    BY Places
  <2> QED
    BY <1>1, <1>3, <2>1 DEF Laid
<1> QED
  BY <1>3, <1>5, <1>6, <1>7, <1>8 DEF BlockIInv

(* Every step keeps the invariant.                                         *)
LEMMA BlockStep == BlockIInv /\ [BlockNext]_blockVars => BlockIInv'
<1> SUFFICES ASSUME BlockIInv, [BlockNext]_blockVars PROVE BlockIInv'
  OBVIOUS
<1>1. CASE BlockDone \/ UNCHANGED blockVars
  <2>1. UNCHANGED <<build, sbox, inv, rk, layer, round, state, trail, deps>>
    BY <1>1 DEF BlockDone, blockVars
  <2>2. Laid'
    <3> SUFFICES ASSUME NEW r \in 0 .. NR, NEW p \in Layers(r), NEW i,
                        i = Place(r, p), i < Len(trail)
                 PROVE  (trail[i + 1] = Layer(r, p, trail[i]))'
      BY <2>1 DEF Laid
    <3>1. trail[i + 1] = Layer(r, p, trail[i])
      BY DEF BlockIInv, Laid
    <3> QED
      BY <2>1, <3>1, LayerStays
  <2> QED
    BY <2>1, <2>2 DEF BlockIInv, BlockTypeOK, Engine, Standing, Encrypting, Decrypting, Undone
<1> QED
  BY <1>1, EncryptionKeeps, DecryptionKeeps DEF BlockNext
-----------------------------------------------------------------------------
(* Blocks stay blocks of bytes and rounds within the key schedule, in both *)
(* directions and both builds.                                             *)
THEOREM BlockTypeCorrect == BlockSpec => []BlockTypeOK
<1>1. BlockIInv => BlockTypeOK
  BY DEF BlockIInv
<1> QED
  BY BlockInitial, BlockStep, <1>1, PTL DEF BlockSpec

(* choi_decrypt_block takes back choi_encrypt_block, layer by layer, for   *)
(* every key, block and bijective S-box, in the SSSE3 and the scalar build.*)
THEOREM BlockUndone == BlockSpec => []Retraced
<1>1. BlockIInv => Retraced
  BY DEF BlockIInv, Standing, Retraced, Last
<1> QED
  BY BlockInitial, BlockStep, <1>1, PTL DEF BlockSpec

-----------------------------------------------------------------------------
(***************************************************************************)
(* EarlyDiffusion needs what each byte depends on at every layer of the    *)
(* first two rounds of the SSSE3 build: itself; the byte that ShiftRows    *)
(* fetched; a column of those; the column of the antipode.  The second     *)
(* ShiftRows brings together bytes of four columns, and mixing makes all.  *)
(***************************************************************************)
Alone    == [i \in Position |-> {i}]
Fetched  == [i \in Position |-> {(5 * i) % 16}]
Column(r) == {j \in Position : L!Row((13 * j) % 16) = r}
Columns  == [i \in Position |-> Column(L!Row(i))]
Antipodes == [i \in Position |-> Column(L!Row((i + 8) % 16))]
Gathered == [i \in Position |-> Antipodes[(5 * i) % 16]]
All      == [i \in Position |-> Position]

Spread ==
  build = "simd" =>
    /\ Encrypting /\ round = 0 => deps = Alone
    /\ round = 1 /\ layer \in {"sub", "shift"} => deps = Alone
    /\ round = 1 /\ layer = "mix" => deps = Fetched
    /\ round = 1 /\ layer = "hex" => deps = Columns
    /\ round = 1 /\ layer = "ark" => deps = Antipodes
    /\ round = 2 /\ layer \in {"sub", "shift"} => deps = Antipodes
    /\ round = 2 /\ layer = "mix" => deps = Gathered
    /\ round = 2 /\ layer \in {"hex", "ark"} /\ NR > 2 => deps = All
    /\ Encrypting /\ round > 2 => deps = All
    /\ ~Encrypting /\ NR > 2 => deps = All

(* Keys and substitutions leave dependencies as they are.                  *)
LEMMA PlainLayers ==
  ASSUME NEW d \in [Position -> SUBSET Position]
  PROVE  /\ D!SubBytes(d) = d /\ D!AddRoundKey(d, NoDeps) = d
         /\ D!HexagonalLayer(d, NoDeps) = [i \in Position |-> d[(i + 8) % 16]]
         /\ D!ShiftRows("simd", d) = [i \in Position |-> d[(5 * i) % 16]]
<1>1. D!Pos = Position
  BY DEF D!Pos, Position
<1>2. \A i \in Position : (i + 8) % 16 \in Position /\ d[i] \in SUBSET Position
  BY DEF Position
<1>3. \A x \in SUBSET Position : Through[x] = x
  BY DEF Through
<1>4. \A i \in Position : \A x : Union(x, NoDeps[i]) = x
  BY DEF Union, NoDeps
<1>5. D!SubBytes(d) = d
  BY <1>1, <1>2, <1>3 DEF D!SubBytes
<1>6. D!AddRoundKey(d, NoDeps) = d
  BY <1>1, <1>2, <1>4 DEF D!AddRoundKey
<1>7. D!HexagonalLayer(d, NoDeps) = [i \in Position |-> d[(i + 8) % 16]]
  BY <1>1, <1>2, <1>3, <1>4 DEF D!HexagonalLayer, D!Antipode
<1>8. D!ShiftRows("simd", d) = [i \in Position |-> d[(5 * i) % 16]]
  BY <1>1 DEF D!ShiftRows, D!ShiftSource
<1> QED
  BY <1>5, <1>6, <1>7, <1>8

(* Mixing unites the four bytes of a column.                               *)
LEMMA MixUnites ==
  ASSUME NEW d \in [Position -> SUBSET Position]
  PROVE  /\ D!MixColumns(d) \in [Position -> SUBSET Position]
         /\ \A i \in Position : \A j :
              j \in D!MixColumns(d)[i]
                <=> \E k \in 0 .. 3 : j \in d[4 * L!Row(i) + ((i + k) % 4)]
<1>1. D!Pos = Position
  BY DEF D!Pos, Position
<1>2. \A i, k : D!At(d, i, k) = d[4 * L!Row(i) + ((i + k) % 4)]
  BY DEF D!At, D!Row, L!Row
<1>3. \A x : D!Triple(x) = x /\ Same(x) = x
  BY DEF D!Triple, Union, Same
<1>4. \A i \in Position :
        D!MixColumns(d)[i] = Union(Union(D!At(d, i, 0), D!At(d, i, 1)),
                                   Union(D!At(d, i, 2), D!At(d, i, 3)))
  BY <1>1, <1>3 DEF D!MixColumns
<1>5. ASSUME NEW i \in Position, NEW j
      PROVE  j \in D!MixColumns(d)[i]
               <=> \E k \in 0 .. 3 : j \in d[4 * L!Row(i) + ((i + k) % 4)]
  <2>1. j \in D!MixColumns(d)[i]
          <=> \/ j \in D!At(d, i, 0) \/ j \in D!At(d, i, 1)
              \/ j \in D!At(d, i, 2) \/ j \in D!At(d, i, 3)
    BY <1>4 DEF Union
  <2>2. (\E k \in 0 .. 3 : j \in D!At(d, i, k))
          <=> \/ j \in D!At(d, i, 0) \/ j \in D!At(d, i, 1)
              \/ j \in D!At(d, i, 2) \/ j \in D!At(d, i, 3)
    <3>1. \A k : k \in 0 .. 3 <=> k = 0 \/ k = 1 \/ k = 2 \/ k = 3
      OBVIOUS
    <3> QED
      BY <3>1
  <2> QED
    BY <1>2, <2>1, <2>2
<1>6. D!MixColumns(d) \in [Position -> SUBSET Position]
  BY DependenciesTyped
<1> QED
  BY <1>5, <1>6

(* The first mixing: of what ShiftRows fetched, a column.                  *)
LEMMA FirstMix == D!MixColumns(Fetched) = Columns
<1>1. Fetched \in [Position -> SUBSET Position]
  BY DEF Fetched, Position
<1>2. ASSUME NEW i \in Position, NEW j \in Position
      PROVE  j \in D!MixColumns(Fetched)[i] <=> j \in Columns[i]
  <2>1. \A k \in 0 .. 3 : 4 * L!Row(i) + ((i + k) % 4) \in Position
    BY DEF L!Row, Position
  <2>2. j \in D!MixColumns(Fetched)[i]
          <=> \E k \in 0 .. 3 : j = (5 * (4 * L!Row(i) + ((i + k) % 4))) % 16
    BY <1>1, <2>1, MixUnites DEF Fetched
  <2> DEFINE q == (13 * j) % 16
  <2>3. q \in Position /\ (5 * q) % 16 = j
    BY DEF Position
  <2>4. \A p \in Position : (13 * ((5 * p) % 16)) % 16 = p
    BY DEF Position
  <2> HIDE DEF q
  <2>5. ASSUME NEW k \in 0 .. 3, j = (5 * (4 * L!Row(i) + ((i + k) % 4))) % 16
        PROVE  L!Row(q) = L!Row(i)
    <3>1. q = 4 * L!Row(i) + ((i + k) % 4)
      BY <2>1, <2>4, <2>5 DEF q
    <3> QED
      BY <3>1 DEF L!Row, Position
  <2>6. ASSUME L!Row(q) = L!Row(i)
        PROVE  \E k \in 0 .. 3 : j = (5 * (4 * L!Row(i) + ((i + k) % 4))) % 16
    <3> DEFINE k == (q + 4 - (i % 4)) % 4
    <3>1. k \in 0 .. 3 /\ (i + k) % 4 = q % 4
      BY <2>3 DEF Position
    <3>2. 4 * L!Row(i) + ((i + k) % 4) = q
      BY <2>3, <2>6, <3>1 DEF L!Row, Position
    <3> HIDE DEF k
    <3> QED
      BY <2>3, <3>1, <3>2
  <2>7. j \in Columns[i] <=> L!Row(q) = L!Row(i)
    BY DEF Columns, Column, q
  <2> QED
    BY <2>2, <2>5, <2>6, <2>7
<1>3. D!MixColumns(Fetched) \in [Position -> SUBSET Position]
  BY <1>1, MixUnites
<1>4. Columns \in [Position -> SUBSET Position]
  BY DEF Columns, Column
<1>5. \A i \in Position : D!MixColumns(Fetched)[i] = Columns[i]
  BY <1>2, <1>3, <1>4
<1> QED
  BY <1>3, <1>4, <1>5

(* The second: the bytes of a column come from four, and make all.         *)
LEMMA SecondMix == D!MixColumns(Gathered) = All
<1>1. \A i \in Position : (5 * i) % 16 \in Position /\ (i + 8) % 16 \in Position
  BY DEF Position
<1>2. Antipodes \in [Position -> SUBSET Position] /\ Gathered \in [Position -> SUBSET Position]
  BY <1>1 DEF Antipodes, Gathered, Column
<1>3. ASSUME NEW i \in Position, NEW j \in Position
      PROVE  j \in D!MixColumns(Gathered)[i]
  <2> DEFINE c == L!Row(i)
             r == L!Row((13 * j) % 16)
             m == (r + 6 - c) % 4
             k == (m + 4 - (i % 4)) % 4
             p == 4 * c + m
  <2>1. c \in 0 .. 3 /\ r \in 0 .. 3
    BY DEF L!Row, Position
  <2> HIDE DEF c, r
  <2>2. m \in 0 .. 3 /\ (c + m + 2) % 4 = r
    BY <2>1
  <2> HIDE DEF m
  <2>3. k \in 0 .. 3 /\ (i + k) % 4 = m
    BY <2>2 DEF Position
  <2>4. p \in Position /\ 4 * c + ((i + k) % 4) = p
    BY <2>1, <2>2, <2>3 DEF Position
  <2>5. (((5 * p) % 16) + 8) % 16 = 4 * ((c + m + 2) % 4) + m
    BY <2>1, <2>2
  <2>6. L!Row((((5 * p) % 16) + 8) % 16) = r
    BY <2>1, <2>2, <2>5 DEF L!Row
  <2> HIDE DEF p, k
  <2>7. j \in Gathered[p]
    BY <1>1, <2>4, <2>6 DEF Gathered, Antipodes, Column, r
  <2>8. \E l \in 0 .. 3 : j \in Gathered[4 * L!Row(i) + ((i + l) % 4)]
    BY <2>3, <2>4, <2>7 DEF c
  <2> QED
    BY <1>2, <2>8, MixUnites
<1>4. D!MixColumns(Gathered) \in [Position -> SUBSET Position]
  BY <1>2, MixUnites
<1>5. \A i \in Position : D!MixColumns(Gathered)[i] = Position
  BY <1>3, <1>4
<1> QED
  BY <1>4, <1>5 DEF All

(* What depends on everything goes on doing so.                            *)
LEMMA AllKept ==
  /\ All \in [Position -> SUBSET Position]
  /\ D!SubBytes(All) = All /\ D!AddRoundKey(All, NoDeps) = All
  /\ D!HexagonalLayer(All, NoDeps) = All
  /\ D!ShiftRows("simd", All) = All /\ D!MixColumns(All) = All
<1>1. All \in [Position -> SUBSET Position]
  BY DEF All
<1>2. \A i \in Position : (5 * i) % 16 \in Position /\ (i + 8) % 16 \in Position
  BY DEF Position
<1>3. D!HexagonalLayer(All, NoDeps) = All /\ D!ShiftRows("simd", All) = All
  BY <1>1, <1>2, PlainLayers DEF All
<1>4. D!MixColumns(All) = All
  <2>1. \A i \in Position, j \in Position : j \in D!MixColumns(All)[i]
    <3> TAKE i \in Position, j \in Position
    <3>1. 0 \in 0 .. 3 /\ 4 * L!Row(i) + ((i + 0) % 4) \in Position
      BY DEF L!Row, Position
    <3> QED
      BY <1>1, <3>1, MixUnites DEF All
  <2>2. D!MixColumns(All) \in [Position -> SUBSET Position]
    BY <1>1, MixUnites
  <2>3. \A i \in Position : D!MixColumns(All)[i] = Position
    BY <2>1, <2>2
  <2> QED
    BY <2>2, <2>3 DEF All
<1> QED
  BY <1>1, <1>3, <1>4, PlainLayers

(* The other layers of the first two rounds.                               *)
LEMMA EarlyLayers ==
  /\ D!SubBytes(Alone) = Alone /\ D!AddRoundKey(Alone, NoDeps) = Alone
  /\ D!ShiftRows("simd", Alone) = Fetched
  /\ D!HexagonalLayer(Columns, NoDeps) = Antipodes
  /\ D!AddRoundKey(Antipodes, NoDeps) = Antipodes /\ D!SubBytes(Antipodes) = Antipodes
  /\ D!ShiftRows("simd", Antipodes) = Gathered
<1>1. \A i \in Position : (5 * i) % 16 \in Position /\ (i + 8) % 16 \in Position
  BY DEF Position
<1>2. /\ Alone \in [Position -> SUBSET Position] /\ Columns \in [Position -> SUBSET Position]
      /\ Antipodes \in [Position -> SUBSET Position]
  BY DEF Alone, Columns, Antipodes, Column
<1>3. D!ShiftRows("simd", Alone) = Fetched
  BY <1>1, <1>2, PlainLayers DEF Alone, Fetched
<1>4. D!HexagonalLayer(Columns, NoDeps) = Antipodes
  BY <1>1, <1>2, PlainLayers DEF Columns, Antipodes
<1>5. D!ShiftRows("simd", Antipodes) = Gathered
  BY <1>2, PlainLayers DEF Gathered
<1> QED
  BY <1>2, <1>3, <1>4, <1>5, PlainLayers

(* Every step keeps to it.                                                 *)
LEMMA SpreadStep == BlockIInv /\ Spread /\ [BlockNext]_blockVars => Spread'
<1> SUFFICES ASSUME BlockIInv, Spread, [BlockNext]_blockVars, build' = "simd" PROVE Spread'
  BY DEF Spread
<1> USE Facts
<1>1. build = "simd"
  BY DEF BlockNext, BlockDone, blockVars, Forward,
         SubBytes, ShiftRows, MixColumns, Hexagonal, AddRoundKey,
         InvAddRoundKey, InvHexagonal, InvMixColumns, InvShiftRows, InvSubBytes, Backward
<1>2. Encrypting => layer \in Layers(round)
  BY DEF BlockIInv, Standing
<1>3. CASE SubBytes
  <2>1. /\ layer = "sub" /\ layer' = "shift" /\ round' = round /\ round # 0
        /\ deps' = D!SubBytes(deps)
    BY <1>2, <1>3 DEF SubBytes, Forward, Encrypting, Layers
  <2> QED
    BY <1>1, <2>1, EarlyLayers, AllKept DEF Spread, Encrypting
<1>4. CASE ShiftRows
  <2>1. /\ layer = "shift" /\ round' = round /\ round # 0
        /\ layer' = IF round < NR THEN "mix" ELSE "hex"
        /\ deps' = D!ShiftRows("simd", deps)
    BY <1>1, <1>2, <1>4 DEF ShiftRows, Forward, Encrypting, Layers
  <2> QED
    BY <1>1, <2>1, EarlyLayers, AllKept DEF Spread, Encrypting
<1>5. CASE MixColumns
  <2>1. /\ layer = "mix" /\ layer' = "hex" /\ round' = round /\ round # 0
        /\ deps' = D!MixColumns(deps)
    BY <1>2, <1>5 DEF MixColumns, Forward, Encrypting, Layers
  <2> QED
    BY <1>1, <2>1, FirstMix, SecondMix, AllKept DEF Spread, Encrypting
<1>6. CASE Hexagonal
  <2>1. /\ layer = "hex" /\ layer' = "ark" /\ round' = round /\ round # 0
        /\ deps' = D!HexagonalLayer(deps, NoDeps)
    BY <1>2, <1>6 DEF Hexagonal, Forward, Encrypting, Layers
  <2> QED
    BY <1>1, <2>1, EarlyLayers, AllKept DEF Spread, Encrypting
<1>7. CASE AddRoundKey
  <2>1. /\ layer = "ark" /\ layer' = IF round < NR THEN "sub" ELSE "iark"
        /\ round' = IF round < NR THEN round + 1 ELSE round
        /\ deps' = D!AddRoundKey(deps, NoDeps)
    BY <1>7 DEF AddRoundKey, Forward
  <2> QED
    BY <1>1, <2>1, EarlyLayers, AllKept DEF Spread, Encrypting
<1>8. CASE InvAddRoundKey \/ InvHexagonal \/ InvMixColumns \/ InvShiftRows \/ InvSubBytes
  <2>1. ~Encrypting /\ ~Encrypting' /\ deps' = deps
    BY <1>8 DEF InvAddRoundKey, InvHexagonal, InvMixColumns, InvShiftRows, InvSubBytes,
                Backward, Encrypting
  <2> QED
    BY <1>1, <2>1 DEF Spread, Encrypting
<1>9. CASE BlockDone \/ UNCHANGED blockVars
  BY <1>9 DEF BlockDone, blockVars, Spread, Encrypting
<1> QED
  BY <1>3, <1>4, <1>5, <1>6, <1>7, <1>8, <1>9 DEF BlockNext

(* In the SSSE3 build every byte depends on every input byte from the      *)
(* third round on, whatever the S-box, the key and the number of rounds.   *)
THEOREM Diffused == BlockSpec => []EarlyDiffusion
<1>1. BlockInit => Spread
  BY DEF BlockInit, Spread, Encrypting, Alone
<1>2. BlockIInv /\ Spread => EarlyDiffusion
  <2> SUFFICES ASSUME BlockIInv, Spread, build = "simd", round > 2
               PROVE  \A i \in Position : deps[i] = Position
    BY DEF EarlyDiffusion
  <2>1. NR > 2
    BY Facts
  <2>2. deps = All
    BY <2>1 DEF Spread
  <2> QED
    BY <2>2 DEF All
<1> QED
  BY BlockInitial, BlockStep, SpreadStep, <1>1, <1>2, PTL DEF BlockSpec
=============================================================================
