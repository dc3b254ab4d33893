--------------------------- MODULE Hashing_proofs ---------------------------
(***************************************************************************)
(* The streaming interface of SHA-256 and what is built on it: HMAC,       *)
(* PBKDF2 and the decoy generator.                                         *)
(*                                                                         *)
(* For every message, every prefix of it and every garbage in the buffer,  *)
(* what the streaming interface feeds to the compression function is the   *)
(* padded message.  The invariant says, while bytes come in, that the      *)
(* compressed blocks and the filled part of the buffer are the message so  *)
(* far; and, between the two halves of choi_sha256_final, that all blocks  *)
(* but the last are those of the padded message and the last is there up   *)
(* to its length field.                                                    *)
(*                                                                         *)
(* For every password, salt, ciphertext, count of iterations and length,   *)
(* and for blocks and hashes of any size, what comes out of the routines   *)
(* that stretch a hash is what the standards say, and no byte of it comes  *)
(* twice.  The invariant (StretchIInv) says of each step which part of the *)
(* output is there and what is in every buffer that will still be read.    *)
(***************************************************************************)
EXTENDS Sha256, KeyStretch, SequenceTheorems, WellFoundedInduction, TLAPS

Updating ==
  /\ absorbed = BLOCK * Len(blocks) + datalen
  /\ bitlen = (BITS * (BLOCK * Len(blocks))) % Width
  /\ \A b \in 1 .. Len(blocks) : \A k \in Index :
       blocks[b][k] = Message[BLOCK * (b - 1) + k + 1]
  /\ \A k \in Index : k < datalen => data[k] = Message[BLOCK * Len(blocks) + k + 1]

PaddedSoFar ==
  /\ Len(blocks) + 1 = Blocks(absorbed) /\ datalen <= absorbed
  /\ bitlen = (BITS * (absorbed - datalen)) % Width
  /\ \A b \in 1 .. Len(blocks) : \A k \in Index :
       blocks[b][k] = PaddedByte(absorbed, BLOCK * (b - 1) + k)
  /\ \A k \in Index : k < BLOCK - FIELD =>
       data[k] = PaddedByte(absorbed, BLOCK * Len(blocks) + k)

Inv == /\ TypeOK
       /\ pc = "update" => Updating
       /\ pc = "length" => PaddedSoFar
       /\ HashesPaddedMessage

-----------------------------------------------------------------------------
(* A counter that wraps may be wrapped before or after something is added.  *)
LEMMA WrappedSum ==
  ASSUME NEW a \in Nat, NEW b \in Nat, NEW w \in Nat \ {0}
  PROVE  ((a % w) + b) % w = (a + b) % w
<1> DEFINE q == a \div w
           r == ((a % w) + b) \div w
           s == (a + b) \div w
           x == ((a % w) + b) % w
           y == (a + b) % w
<1>1. /\ q \in Int /\ r \in Int /\ s \in Int /\ x \in 0 .. w - 1 /\ y \in 0 .. w - 1
      /\ a = w * q + (a % w) /\ a % w \in 0 .. w - 1
  BY Z3
<1>2. (a % w) + b = w * r + x /\ a + b = w * s + y
  BY Z3
<1> HIDE DEF q, r, s, x, y
<1>3. x - y = w * (s - r - q)
  <2>1. w * (s - r - q) = w * s - w * r - w * q
    BY <1>1, Z3
  <2>2. w * s \in Int /\ w * r \in Int /\ w * q \in Int
    BY <1>1, Z3
  <2>3. (w * q + (a % w)) + b = w * s + y /\ (a % w) + b = w * r + x
    BY <1>1, <1>2
  <2> QED
    BY <1>1, <2>1, <2>2, <2>3
<1>4. s - r - q = 0
  BY <1>1, <1>3, Z3
<1> QED BY <1>1, <1>3, <1>4, Z3 DEF x, y

(* A wrapped counter is in range, and zero wraps to zero. *)
LEMMA WrappedRange ==
  ASSUME NEW a \in Nat, NEW w \in Nat \ {0}
  PROVE  a % w \in 0 .. w - 1 /\ 0 % w = 0
<1>1. a % w \in 0 .. w - 1
  BY Z3
<1>2. 0 = w * (0 \div w) + (0 % w) /\ 0 \div w \in Int /\ 0 % w \in 0 .. w - 1
  BY Z3
<1>3. 0 \div w = 0
  BY <1>2, Z3
<1> QED BY <1>1, <1>2, <1>3, Z3

(* A byte of a length is a byte.                                            *)
LEMMA LengthByteType ==
  ASSUME NEW bits \in Nat, NEW k \in Index, k >= BLOCK - FIELD
  PROVE  LengthByte(bits, k) \in 0 .. 255 /\ LengthByte(bits, k) \in MsgByte
<1>1. \A x \in Int : x \div 256 \in Int /\ x % 256 \in 0 .. 255
  BY Z3
<1>2. LengthByte(bits, k) \in 0 .. 255
  <2> DEFINE by8  == bits \div 256    by16 == by8  \div 256
             by24 == by16 \div 256    by32 == by24 \div 256
             by40 == by32 \div 256    by48 == by40 \div 256
             by56 == by48 \div 256
             shifted == <<by56, by48, by40, by32, by24, by16, by8, bits>>
  <2>1. bits \in Int /\ by8 \in Int /\ by16 \in Int /\ by24 \in Int /\ by32 \in Int
        /\ by40 \in Int /\ by48 \in Int /\ by56 \in Int
    BY <1>1
  <2>2. shifted \in [1 .. 8 -> Int]
    <3> HIDE DEF by8, by16, by24, by32, by40, by48, by56
    <3> QED BY <2>1
  <2>3. k - (BLOCK - FIELD) + 1 \in 1 .. 8
    BY DEF Index, BLOCK, FIELD
  <2>4. LengthByte(bits, k) = shifted[k - (BLOCK - FIELD) + 1] % 256
    BY DEF LengthByte
  <2> HIDE DEF shifted
  <2> QED BY <1>1, <2>2, <2>3, <2>4
<1> QED BY <1>2, MessageAssumption

(* A number is its quotient, as often as the divisor says, and the rest.    *)
LEMMA QuotientAndRest ==
  ASSUME NEW a \in Nat, NEW w \in Nat \ {0}
  PROVE  a \div w \in Nat /\ a = w * (a \div w) + (a % w)
<1>1. a \div w \in Int /\ a = w * (a \div w) + (a % w) /\ a % w \in 0 .. w - 1
  BY Z3
<1>2. a \div w >= 0
  BY <1>1, Z3
<1> QED BY <1>1, <1>2, Z3

(* Read as a number, the bytes of a length are the length.                  *)
LEMMA LengthBytesNumber ==
  ASSUME NEW bits \in 0 .. Width - 1, NEW block,
         \A k \in Index : k >= BLOCK - FIELD => block[k] = LengthByte(bits, k)
  PROVE  FieldNumber(block) = bits
<1> DEFINE by8  == bits \div 256    by16 == by8  \div 256
           by24 == by16 \div 256    by32 == by24 \div 256
           by40 == by32 \div 256    by48 == by40 \div 256
           by56 == by48 \div 256
           by(n) == n \div 256
<1>1. \A x \in Nat : x \div 256 \in Nat /\ x = 256 * (x \div 256) + (x % 256)
  BY QuotientAndRest
<1>2. \A x, y \in Nat : x <= y => by(x) <= by(y) /\ by(x) \in Nat /\ by(y) \in Nat
  BY Z3
<1>3. /\ bits \in Nat /\ by8 \in Nat /\ by16 \in Nat /\ by24 \in Nat /\ by32 \in Nat
      /\ by40 \in Nat /\ by48 \in Nat /\ by56 \in Nat
  <2>1. bits \in Nat
    BY MessageAssumption
  <2> QED BY <1>1, <2>1
<1>4. by56 \div 256 = 0
  <2> DEFINE w8  == by(Width - 1)  w16 == by(w8)   w24 == by(w16)  w32 == by(w24)
             w40 == by(w32)        w48 == by(w40)  w56 == by(w48)
  <2>1. bits <= Width - 1 /\ Width - 1 \in Nat
    BY MessageAssumption
  <2>2. by8 <= w8 /\ w8 \in Nat
    BY <1>2, <1>3, <2>1
  <2>3. by16 <= w16 /\ w16 \in Nat
    BY <1>2, <1>3, <2>2
  <2>4. by24 <= w24 /\ w24 \in Nat
    BY <1>2, <1>3, <2>3
  <2>5. by32 <= w32 /\ w32 \in Nat
    BY <1>2, <1>3, <2>4
  <2>6. by40 <= w40 /\ w40 \in Nat
    BY <1>2, <1>3, <2>5
  <2>7. by48 <= w48 /\ w48 \in Nat
    BY <1>2, <1>3, <2>6
  <2>8. by56 <= w56 /\ w56 \in Nat
    BY <1>2, <1>3, <2>7
  <2>9. by(w56) = 0
    BY WidthAssumption DEF WidthAssumption
  <2>10. by(by56) <= by(w56) /\ by(by56) \in Nat
    BY <1>2, <1>3, <2>8
  <2> QED BY <2>9, <2>10
<1>5. /\ block[56] = by56 % 256 /\ block[57] = by48 % 256 /\ block[58] = by40 % 256
      /\ block[59] = by32 % 256 /\ block[60] = by24 % 256 /\ block[61] = by16 % 256
      /\ block[62] = by8 % 256  /\ block[63] = bits % 256
  <2> DEFINE shifted == <<by56, by48, by40, by32, by24, by16, by8, bits>>
  <2>1. \A k \in 56 .. 63 : block[k] = shifted[k - 55] % 256
    <3>1. \A k \in 56 .. 63 : k \in Index /\ k >= BLOCK - FIELD /\ k - (BLOCK - FIELD) + 1 = k - 55
      BY DEF Index, BLOCK, FIELD
    <3>2. \A k \in 56 .. 63 : LengthByte(bits, k) = shifted[k - (BLOCK - FIELD) + 1] % 256
      BY DEF LengthByte
    <3> HIDE DEF shifted
    <3> QED BY <3>1, <3>2
  <2> QED BY <2>1
<1> HIDE DEF by8, by16, by24, by32, by40, by48, by56
<1>6. by56 = block[56]
  BY <1>1, <1>3, <1>4, <1>5
<1>7. by48 = 256 * by56 + block[57] /\ by40 = 256 * by48 + block[58]
  BY <1>1, <1>3, <1>5 DEF by40, by48, by56
<1>8. by32 = 256 * by40 + block[59] /\ by24 = 256 * by32 + block[60]
  BY <1>1, <1>3, <1>5 DEF by24, by32, by40
<1>9. by16 = 256 * by24 + block[61] /\ by8 = 256 * by16 + block[62]
  BY <1>1, <1>3, <1>5 DEF by8, by16, by24
<1>10. bits = 256 * by8 + block[63]
  BY <1>1, <1>3, <1>5 DEF by8
<1> QED BY <1>6, <1>7, <1>8, <1>9, <1>10 DEF FieldNumber, BLOCK, FIELD

(* A message is made of bytes and has a length. *)
LEMMA MessageByte == \A k \in 1 .. Len(Message) : Message[k] \in MsgByte
BY ElementOfSeq, MessageAssumption

(* A message has a length.                                                 *)
LEMMA MessageLength == Len(Message) \in Nat
BY LenProperties, MessageAssumption

-----------------------------------------------------------------------------
(* After choi_sha256_init nothing is buffered, whatever the buffer holds. *)
LEMMA Initially == Init => Inv
<1> SUFFICES ASSUME Init PROVE Inv
  OBVIOUS
<1> USE DEF Init
<1>1. TypeOK
  <2>1. 0 \in 0 .. Len(Message) /\ 0 \in Index /\ 0 \in 0 .. Width - 1
    BY MessageAssumption, MessageLength DEF Index, BLOCK
  <2>2. data \in Block
    BY MessageAssumption DEF Block
  <2> QED BY <2>1, <2>2 DEF TypeOK
<1>2. Updating
  <2>1. Len(blocks) = 0 /\ BITS * (BLOCK * 0) = 0 /\ BLOCK * 0 + 0 = 0
    BY DEF BITS, BLOCK
  <2>2. 0 % Width = 0
    BY WrappedRange, MessageAssumption
  <2>3. \A k \in Index : ~(k < datalen)
    BY DEF Index
  <2> QED BY <2>1, <2>2, <2>3 DEF Updating
<1> QED BY <1>1, <1>2 DEF Inv, HashesPaddedMessage

-----------------------------------------------------------------------------
(* One byte more.                                                           *)
LEMMA UpdateKeepsInv == Inv /\ Update => Inv'
<1> SUFFICES ASSUME Inv, Update PROVE Inv'
  OBVIOUS
<1>1. TypeOK /\ pc = "update" /\ absorbed < Len(Message)
  BY DEF Inv, Update
<1>2. Updating
  BY <1>1 DEF Inv
<1>3. Stored \in Block /\ Message[absorbed + 1] \in MsgByte
  <2>1. absorbed + 1 \in 1 .. Len(Message)
    BY <1>1, MessageLength DEF TypeOK
  <2>2. Message[absorbed + 1] \in MsgByte
    BY <2>1, MessageByte
  <2> QED BY <1>1, <2>2 DEF TypeOK, Stored, Block
<1>4. \A k \in Index : k <= datalen => Stored[k] = Message[BLOCK * Len(blocks) + k + 1]
  <2> SUFFICES ASSUME NEW k \in Index, k <= datalen
               PROVE  Stored[k] = Message[BLOCK * Len(blocks) + k + 1]
    OBVIOUS
  <2>1. k \in Int /\ datalen \in Int /\ data \in [Index -> MsgByte] /\ datalen \in Index
    BY <1>1 DEF TypeOK, Index, Block
  <2>2. CASE k = datalen
    <3>1. absorbed = BLOCK * Len(blocks) + k
      BY <1>2, <2>2 DEF Updating
    <3> QED BY <2>1, <2>2, <3>1 DEF Stored
  <2>3. CASE k < datalen
    <3>1. k # datalen
      BY <2>1, <2>3
    <3> QED BY <1>2, <2>1, <2>3, <3>1 DEF Stored, Updating
  <2> QED BY <2>1, <2>2, <2>3
<1>5. CASE datalen + 1 = BLOCK
  <2>1. /\ blocks' = Append(blocks, Stored) /\ datalen' = 0 /\ pc' = "update"
        /\ bitlen' = (bitlen + BITS * BLOCK) % Width
        /\ absorbed' = absorbed + 1 /\ data' = Stored
    BY <1>5 DEF Update, Fill
  <2>2. Len(blocks) \in Nat /\ blocks' \in Seq(Block) /\ Len(blocks') = Len(blocks) + 1
    BY <1>1, <1>3, <2>1 DEF TypeOK
  <2>3. bitlen' = (BITS * (BLOCK * Len(blocks'))) % Width /\ bitlen' \in 0 .. Width - 1
    <3>1. bitlen' = (BITS * (BLOCK * Len(blocks)) + BITS * BLOCK) % Width
      <4>1. BITS * (BLOCK * Len(blocks)) \in Nat /\ BITS * BLOCK \in Nat
        BY <2>2 DEF BITS, BLOCK
      <4> QED BY <1>2, <2>1, <4>1, WrappedSum, MessageAssumption DEF Updating
    <3>2. BITS * (BLOCK * Len(blocks)) + BITS * BLOCK = BITS * (BLOCK * Len(blocks'))
      BY <2>2 DEF BITS, BLOCK
    <3>3. BITS * (BLOCK * Len(blocks')) \in Nat
      BY <2>2 DEF BITS, BLOCK
    <3> QED BY <3>1, <3>2, <3>3, MessageAssumption, WrappedRange
  <2>4. TypeOK'
    BY <1>1, <1>3, <2>1, <2>2, <2>3 DEF TypeOK, Index, BLOCK
  <2>5. \A b \in 1 .. Len(blocks') : \A k \in Index :
          blocks'[b][k] = Message[BLOCK * (b - 1) + k + 1]
    <3> SUFFICES ASSUME NEW b \in 1 .. Len(blocks'), NEW k \in Index
                 PROVE  blocks'[b][k] = Message[BLOCK * (b - 1) + k + 1]
      OBVIOUS
    <3>1. CASE b \in 1 .. Len(blocks)
      <4>1. blocks'[b] = blocks[b]
        BY <1>1, <1>3, <2>1, <2>2, <3>1 DEF TypeOK
      <4> QED BY <1>2, <3>1, <4>1 DEF Updating
    <3>2. CASE b = Len(blocks) + 1
      <4>1. blocks'[b] = Stored
        BY <1>1, <1>3, <2>1, <2>2, <3>2 DEF TypeOK
      <4>2. k <= datalen
        BY <1>1, <1>5 DEF TypeOK, Index, BLOCK
      <4> QED BY <1>4, <2>2, <3>2, <4>1, <4>2
    <3> QED BY <2>2, <3>1, <3>2
  <2>6. Updating'
    <3>1. absorbed' = BLOCK * Len(blocks') + datalen'
      <4>1. absorbed = BLOCK * Len(blocks) + datalen /\ datalen \in Nat
        BY <1>1, <1>2 DEF Updating, TypeOK, Index
      <4> QED BY <4>1, <1>5, <2>1, <2>2 DEF BLOCK
    <3>2. \A k \in Index : ~(k < datalen')
      BY <2>1 DEF Index
    <3> QED BY <2>3, <2>5, <3>1, <3>2 DEF Updating
  <2> QED BY <2>1, <2>4, <2>6 DEF Inv, HashesPaddedMessage
<1>6. CASE datalen + 1 # BLOCK
  <2>1. /\ blocks' = blocks /\ datalen' = datalen + 1 /\ pc' = "update"
        /\ bitlen' = bitlen /\ absorbed' = absorbed + 1 /\ data' = Stored
    BY <1>6 DEF Update, Fill
  <2>2. TypeOK'
    BY <1>1, <1>3, <1>6, <2>1 DEF TypeOK, Index, BLOCK
  <2>3. Updating'
    <3>1. absorbed' = BLOCK * Len(blocks') + datalen'
      <4>1. absorbed = BLOCK * Len(blocks) + datalen /\ datalen \in Nat
        BY <1>1, <1>2 DEF Updating, TypeOK, Index
      <4>2. BLOCK * Len(blocks) \in Nat
        BY <1>1 DEF TypeOK, BLOCK
      <4> QED BY <4>1, <4>2, <2>1
    <3>2. \A k \in Index : k < datalen' => data'[k] = Message[BLOCK * Len(blocks') + k + 1]
      <4> SUFFICES ASSUME NEW k \in Index, k < datalen + 1
                   PROVE  Stored[k] = Message[BLOCK * Len(blocks) + k + 1]
        BY <2>1
      <4>1. k <= datalen
        BY <1>1 DEF TypeOK, Index
      <4> QED BY <1>4, <4>1
    <3> QED BY <1>2, <2>1, <3>1, <3>2 DEF Updating
  <2> QED BY <2>1, <2>2, <2>3 DEF Inv, HashesPaddedMessage
<1> QED BY <1>5, <1>6

-----------------------------------------------------------------------------
(* How many blocks the padded message has, seen from the whole blocks of    *)
(* the message and the bytes that are left.                                 *)
LEMMA BlockCount ==
  ASSUME NEW q \in Nat, NEW d \in Index
  PROVE  Blocks(BLOCK * q + d) = IF d < BLOCK - FIELD THEN q + 1 ELSE q + 2
BY DEF Blocks, BLOCK, FIELD, Index

(* The first half of choi_sha256_final.                                     *)
LEMMA FinalPadKeepsInv == Inv /\ FinalPad => Inv'
<1> SUFFICES ASSUME Inv, FinalPad PROVE Inv'
  OBVIOUS
<1> DEFINE q == Len(blocks)
<1>1. TypeOK /\ Updating
  BY DEF Inv, FinalPad
<1>2. /\ q \in Nat /\ datalen \in Index /\ bitlen \in 0 .. Width - 1 /\ data \in Block
      /\ absorbed \in 0 .. Len(Message) /\ blocks \in Seq(Block)
      /\ absorbed = BLOCK * q + datalen
  BY <1>1 DEF TypeOK, Updating
<1>3. /\ pc' = "length" /\ absorbed' = absorbed /\ datalen' = datalen
      /\ bitlen' = bitlen
  BY DEF FinalPad
<1>4. /\ \A b \in 1 .. q : \A k \in Index :
           blocks[b][k] = PaddedByte(absorbed, BLOCK * (b - 1) + k)
      /\ \A k \in Index : k < datalen => data[k] = PaddedByte(absorbed, BLOCK * q + k)
  <2>1. ASSUME NEW b \in 1 .. q, NEW k \in Index
        PROVE  blocks[b][k] = PaddedByte(absorbed, BLOCK * (b - 1) + k)
    <3>1. BLOCK * (b - 1) + k < absorbed
      BY <1>2, <2>1 DEF Index, BLOCK
    <3> QED BY <1>1, <2>1, <3>1 DEF Updating, PaddedByte
  <2>2. ASSUME NEW k \in Index, k < datalen
        PROVE  data[k] = PaddedByte(absorbed, BLOCK * q + k)
    <3>1. BLOCK * q + k < absorbed
      BY <1>2, <2>2 DEF Index, BLOCK
    <3> QED BY <1>1, <2>2, <3>1 DEF Updating, PaddedByte
  <2> QED BY <2>1, <2>2
<1>5. \A end \in {BLOCK - FIELD, BLOCK} : PaddedTo(end) \in Block
  BY <1>2, MessageAssumption DEF PaddedTo, Block, Pad
<1>6. bitlen = (BITS * (absorbed - datalen)) % Width
  <2>1. absorbed - datalen = BLOCK * q
    BY <1>2 DEF Index, BLOCK
  <2> QED BY <1>1, <2>1 DEF Updating
<1>7. CASE Fits
  <2>1. blocks' = blocks /\ data' = PaddedTo(BLOCK - FIELD)
    BY <1>7 DEF FinalPad
  <2>2. datalen < BLOCK - FIELD /\ Blocks(absorbed) = q + 1
    BY <1>2, <1>7, BlockCount DEF Fits
  <2>3. \A k \in Index : k < BLOCK - FIELD =>
          PaddedTo(BLOCK - FIELD)[k] = PaddedByte(absorbed, BLOCK * q + k)
    <3> SUFFICES ASSUME NEW k \in Index, k < BLOCK - FIELD
                 PROVE  PaddedTo(BLOCK - FIELD)[k] = PaddedByte(absorbed, BLOCK * q + k)
      OBVIOUS
    <3>1. CASE k < datalen
      <4>1. k # datalen /\ ~(k > datalen)
        BY <1>2, <3>1 DEF Index, BLOCK
      <4> QED BY <1>4, <3>1, <4>1 DEF PaddedTo
    <3>2. CASE k >= datalen
      <4>1. /\ k = datalen <=> BLOCK * q + k = absorbed
            /\ ~(BLOCK * q + k < absorbed)
            /\ BLOCK * q + k < BLOCK * Blocks(absorbed) - FIELD
        BY <1>2, <2>2, <3>2 DEF Index, BLOCK, FIELD
      <4>2. PaddedByte(absorbed, BLOCK * q + k) = IF k = datalen THEN Pad ELSE 0
        BY <4>1 DEF PaddedByte
      <4>3. k = datalen \/ k > datalen
        BY <1>2, <3>2 DEF Index, BLOCK
      <4> QED BY <4>2, <4>3 DEF PaddedTo
    <3> QED BY <1>2, <3>1, <3>2 DEF Index, BLOCK
  <2>4. PaddedSoFar'
    <3>1. datalen <= absorbed
      BY <1>2 DEF Index, BLOCK
    <3> QED BY <1>2, <1>3, <1>4, <1>6, <2>1, <2>2, <2>3, <3>1 DEF PaddedSoFar
  <2>5. TypeOK'
    BY <1>1, <1>3, <1>5, <2>1 DEF TypeOK
  <2> QED BY <1>3, <2>4, <2>5 DEF Inv, HashesPaddedMessage
<1>8. CASE ~Fits
  <2>1. /\ blocks' = Append(blocks, PaddedTo(BLOCK))
        /\ data' = [k \in Index |-> IF k < BLOCK - FIELD THEN 0 ELSE PaddedTo(BLOCK)[k]]
    BY <1>8 DEF FinalPad
  <2>2. ~(datalen < BLOCK - FIELD) /\ Blocks(absorbed) = q + 2
    BY <1>2, <1>8, BlockCount DEF Fits
  <2>3. /\ blocks' \in Seq(Block) /\ Len(blocks') = q + 1
        /\ \A b \in 1 .. q : blocks'[b] = blocks[b]
        /\ blocks'[q + 1] = PaddedTo(BLOCK)
    BY <1>2, <1>5, <2>1
  <2>4. data' \in Block
    <3>1. PaddedTo(BLOCK) \in Block
      BY <1>5
    <3> QED BY <2>1, <3>1, MessageAssumption DEF Block
  <2>5. \A k \in Index : PaddedTo(BLOCK)[k] = PaddedByte(absorbed, BLOCK * q + k)
    <3> SUFFICES ASSUME NEW k \in Index
                 PROVE  PaddedTo(BLOCK)[k] = PaddedByte(absorbed, BLOCK * q + k)
      OBVIOUS
    <3>1. CASE k < datalen
      <4>1. k # datalen /\ ~(k > datalen)
        BY <1>2, <3>1 DEF Index, BLOCK
      <4> QED BY <1>4, <3>1, <4>1 DEF PaddedTo
    <3>2. CASE k >= datalen
      <4>1. /\ k = datalen <=> BLOCK * q + k = absorbed
            /\ ~(BLOCK * q + k < absorbed)
            /\ BLOCK * q + k < BLOCK * Blocks(absorbed) - FIELD
            /\ k < BLOCK
        BY <1>2, <2>2, <3>2 DEF Index, BLOCK, FIELD
      <4>2. PaddedByte(absorbed, BLOCK * q + k) = IF k = datalen THEN Pad ELSE 0
        BY <4>1 DEF PaddedByte
      <4>3. k = datalen \/ k > datalen
        BY <1>2, <3>2 DEF Index, BLOCK
      <4> QED BY <4>1, <4>2, <4>3 DEF PaddedTo
    <3> QED BY <1>2, <3>1, <3>2 DEF Index, BLOCK
  <2>6. \A b \in 1 .. Len(blocks') : \A k \in Index :
          blocks'[b][k] = PaddedByte(absorbed, BLOCK * (b - 1) + k)
    <3> SUFFICES ASSUME NEW b \in 1 .. Len(blocks'), NEW k \in Index
                 PROVE  blocks'[b][k] = PaddedByte(absorbed, BLOCK * (b - 1) + k)
      OBVIOUS
    <3>1. CASE b \in 1 .. q
      BY <1>4, <2>3, <3>1
    <3>2. CASE b = q + 1
      <4>1. b - 1 = q
        BY <1>2, <3>2
      <4> QED BY <2>3, <2>5, <3>2, <4>1
    <3> QED BY <1>2, <2>3, <3>1, <3>2
  <2>7. \A k \in Index : k < BLOCK - FIELD =>
          data'[k] = PaddedByte(absorbed, BLOCK * Len(blocks') + k)
    <3> SUFFICES ASSUME NEW k \in Index, k < BLOCK - FIELD
                 PROVE  0 = PaddedByte(absorbed, BLOCK * (q + 1) + k)
      BY <2>1, <2>3
    <3>1. /\ ~(BLOCK * (q + 1) + k <= absorbed)
          /\ BLOCK * (q + 1) + k < BLOCK * Blocks(absorbed) - FIELD
      BY <1>2, <2>2 DEF Index, BLOCK, FIELD
    <3>2. absorbed \in Int /\ BLOCK * (q + 1) + k \in Int
      BY <1>2 DEF Index, BLOCK
    <3>3. ~(BLOCK * (q + 1) + k < absorbed) /\ BLOCK * (q + 1) + k # absorbed
      BY <3>1, <3>2
    <3> QED BY <3>1, <3>3 DEF PaddedByte
  <2>8. PaddedSoFar'
    <3>1. Len(blocks') + 1 = Blocks(absorbed)
      BY <1>2, <2>2, <2>3
    <3>2. datalen <= absorbed
      BY <1>2 DEF Index, BLOCK
    <3> QED BY <1>3, <1>6, <2>6, <2>7, <3>1, <3>2 DEF PaddedSoFar
  <2>9. TypeOK'
    BY <1>1, <1>3, <2>3, <2>4 DEF TypeOK
  <2> QED BY <1>3, <2>8, <2>9 DEF Inv, HashesPaddedMessage
<1> QED BY <1>7, <1>8

-----------------------------------------------------------------------------
(* The second half.                                                         *)
LEMMA FinalLengthKeepsInv == Inv /\ FinalLength => Inv'
<1> SUFFICES ASSUME Inv, FinalLength PROVE Inv'
  OBVIOUS
<1> DEFINE last == [k \in Index |-> IF k < BLOCK - FIELD THEN data[k]
                                    ELSE LengthByte(Bits, k)]
           n == Len(blocks) + 1
<1>1. TypeOK /\ PaddedSoFar
  BY DEF Inv, FinalLength
<1>2. /\ Len(blocks) \in Nat /\ n \in Nat /\ datalen \in Index /\ bitlen \in 0 .. Width - 1
      /\ data \in Block /\ absorbed \in 0 .. Len(Message) /\ blocks \in Seq(Block)
      /\ n = Blocks(absorbed)
  BY <1>1 DEF TypeOK, PaddedSoFar
<1>3. /\ pc' = "done" /\ absorbed' = absorbed /\ datalen' = datalen
      /\ bitlen' = Bits /\ data' = last /\ blocks' = Append(blocks, last)
  BY DEF FinalLength
<1>4. Bits = (BITS * absorbed) % Width /\ Bits \in 0 .. Width - 1
  <2>1. absorbed - datalen \in Nat
    <3>1. datalen <= absorbed
      BY <1>1 DEF PaddedSoFar
    <3> QED BY <1>2, <3>1 DEF Index, BLOCK
  <2>2. /\ BITS * (absorbed - datalen) \in Nat /\ BITS * datalen \in Nat
        /\ BITS * (absorbed - datalen) + BITS * datalen = BITS * absorbed
        /\ BITS * absorbed \in Nat
    BY <1>2, <2>1 DEF BITS, Index, BLOCK
  <2>3. Bits = (BITS * (absorbed - datalen) + BITS * datalen) % Width
    BY <1>1, <2>2, WrappedSum, MessageAssumption DEF Bits, PaddedSoFar
  <2> QED BY <2>2, <2>3, WrappedRange, MessageAssumption
<1>5. last \in Block
  <2>1. Bits \in Nat
    BY <1>4, MessageAssumption
  <2>2. \A k \in Index : ~(k < BLOCK - FIELD) => LengthByte(Bits, k) \in MsgByte
    <3> TAKE k \in Index
    <3> HAVE ~(k < BLOCK - FIELD)
    <3>1. k >= BLOCK - FIELD
      BY DEF Index, BLOCK, FIELD
    <3> QED BY <2>1, <3>1, LengthByteType
  <2> QED BY <1>2, <2>2 DEF Block
<1>6. /\ blocks' \in Seq(Block) /\ Len(blocks') = n
      /\ \A b \in 1 .. Len(blocks) : blocks'[b] = blocks[b]
      /\ blocks'[n] = last
  BY <1>2, <1>3, <1>5
<1>7. \A b \in 1 .. n, k \in Index :
        IF b = n /\ k >= BLOCK - FIELD THEN blocks'[b][k] \in 0 .. 255
        ELSE blocks'[b][k] = PaddedByte(absorbed, BLOCK * (b - 1) + k)
  <2> TAKE b \in 1 .. n, k \in Index
  <2>1. CASE b \in 1 .. Len(blocks)
    <3>1. b # n
      BY <1>2, <2>1
    <3> QED BY <1>1, <1>6, <2>1, <3>1 DEF PaddedSoFar
  <2>2. CASE b = n /\ ~(k >= BLOCK - FIELD)
    <3>1. k < BLOCK - FIELD /\ n - 1 = Len(blocks)
      BY <1>2, <2>2 DEF Index, BLOCK, FIELD
    <3>2. last[k] = data[k]
      BY <3>1
    <3> HIDE DEF last
    <3> QED BY <1>1, <1>6, <2>2, <3>1, <3>2 DEF PaddedSoFar
  <2>3. CASE b = n /\ k >= BLOCK - FIELD
    <3>1. ~(k < BLOCK - FIELD) /\ Bits \in Nat
      BY <1>4, <2>3, MessageAssumption DEF Index, BLOCK, FIELD
    <3>2. last[k] = LengthByte(Bits, k)
      BY <3>1
    <3> HIDE DEF last
    <3> QED BY <1>6, <2>3, <3>1, <3>2, LengthByteType
  <2> QED BY <1>2, <2>1, <2>2, <2>3
<1>8. FieldNumber(last) = (BITS * absorbed) % Width
  <2>1. \A k \in Index : k >= BLOCK - FIELD => last[k] = LengthByte(Bits, k)
    BY DEF Index, BLOCK, FIELD
  <2> HIDE DEF last
  <2> QED BY <1>4, <2>1, LengthBytesNumber
<1>9. HashesPaddedMessage'
  <2> HIDE DEF last
  <2>1. \A b \in 1 .. Len(blocks'), k \in Index :
          IF InField(b, k)' THEN blocks'[b][k] \in 0 .. 255
          ELSE blocks'[b][k] = PaddedByte(absorbed, BLOCK * (b - 1) + k)
    BY <1>6, <1>7 DEF InField
  <2>2. blocks'[Len(blocks')] = last /\ Len(blocks') = Blocks(absorbed)
    BY <1>2, <1>6
  <2> QED BY <1>3, <1>8, <2>1, <2>2 DEF HashesPaddedMessage, InField, FieldNumber, PaddedByte
<1>10. TypeOK'
  BY <1>1, <1>3, <1>4, <1>5, <1>6 DEF TypeOK
<1>11. pc' # "update" /\ pc' # "length"
  BY <1>3
<1> QED BY <1>9, <1>10, <1>11 DEF Inv

-----------------------------------------------------------------------------
(* The invariant holds from choi_sha256_init through choi_sha256_final. *)
THEOREM Invariance == Spec => []Inv
<1>1. Inv /\ [Next]_vars => Inv'
  <2> SUFFICES ASSUME Inv, [Next]_vars PROVE Inv'
    OBVIOUS
  <2>1. CASE Update
    BY <2>1, UpdateKeepsInv
  <2>2. CASE FinalPad
    BY <2>2, FinalPadKeepsInv
  <2>3. CASE FinalLength
    BY <2>3, FinalLengthKeepsInv
  <2>4. CASE UNCHANGED vars
    BY <2>4 DEF vars, Inv, TypeOK, Updating, PaddedSoFar, HashesPaddedMessage, InField
  <2> QED BY <2>1, <2>2, <2>3, <2>4 DEF Next, Done
<1> QED BY Initially, <1>1, PTL DEF Spec

(* The context stays in its bounds: TypeOK of Sha256.                       *)
THEOREM TypeCorrect == Spec => []TypeOK
<1>1. Inv => TypeOK
  BY DEF Inv
<1> QED BY Invariance, <1>1, PTL

(* A finished hash has compressed the padded message and nothing else, for  *)
(* every message, every length of it and every garbage in the context.      *)
THEOREM PaddingCorrect == Spec => []HashesPaddedMessage
<1>1. Inv => HashesPaddedMessage
  BY DEF Inv
<1> QED BY Invariance, <1>1, PTL

-----------------------------------------------------------------------------
(***************************************************************************)
(* What the invariant says of a call: where it is, and that every buffer   *)
(* it has yet to read holds what the standards put there.                  *)
(***************************************************************************)
Hashed(key) == IF Len(key) > HMAC_BLOCK THEN Sha(key) ELSE key

KeyPad(key, p) ==
  [j \in 1 .. HMAC_BLOCK |->
     {<<p, <<>>, 0>>} \cup (IF j > Len(Hashed(key)) THEN {} ELSE Hashed(key)[j])]

(* The first message of a block of PBKDF2, and the chain of hashes it      *)
(* begins.                                                                 *)
First(s, k) == s \o Bytes(BigEndian(k, INDEX))

ChainOf(p, s, n, k) ==
  LET U[m \in 1 .. n + 1] == IF m = 1 THEN Prf(p, First(s, k)) ELSE Prf(p, U[m - 1]) IN U

(* The xor of the first m links.                                           *)
Xored(p, s, n, k, m) ==
  [j \in 1 .. HASH |-> UNION {ChainOf(p, s, n, k)[l][j] : l \in 1 .. m}]

(* The seed of a decoy and its blocks; how many turns the loop takes.      *)
SeedOf(input)          == Prf(Zeros(HASH), input)
DecoyBlockOf(input, k) == Prf(SeedOf(input), Bytes(BigEndian(k, HASH)))
Turns(n)               == IF n = 0 THEN 1 ELSE n

(* Byte j of the output, as the standards have it.                         *)
Derived(p, s, n, j) ==
  Xored(p, s, n, (j - 1) \div HASH + 1, Turns(n))[((j - 1) % HASH) + 1]
Decoyed(input, j) == DecoyBlockOf(input, (j - 1) \div HASH)[((j - 1) % HASH) + 1]

Specified(j) == IF call = "decoy" THEN Decoyed(ct, j) ELSE Derived(pw, salt, iter, j)

(* The buffers of a call.                                                  *)
BufferNames == {"salt_i", "u", "f", "seed", "ct", "counter", "block", "out"}

(* The arguments: a call is of one of the two routines, or there is none   *)
(* yet.                                                                    *)
Called ==
  \/ /\ call = "none" /\ step = "idle" /\ mem = [out |-> <<>>]
     /\ outlen = 0 /\ iter = 0
  \/ /\ call \in {"pbkdf2", "decoy"} /\ step # "idle"
     /\ DOMAIN mem = BufferNames /\ outlen \in OutLens
     /\ call = "pbkdf2" => pw \in Passwords /\ salt \in StretchSalts /\ iter \in Iters
     /\ call = "decoy" => ct \in Ciphertexts /\ iter = 0

(* The output: so many bytes are there, and the rest is untouched.         *)
Made ==
  /\ made \in 0 .. outlen /\ (made < outlen => made % HASH = 0)
  /\ mem["out"] = [j \in 1 .. outlen |-> IF j > made THEN Old ELSE Specified(j)]

(* The counters stand for the block that comes next.                       *)
Counted ==
  /\ made < outlen /\ call = "pbkdf2" => i = made \div HASH + 1
  /\ made < outlen /\ call = "decoy" => counter = BigEndian(made \div HASH, HASH)
  /\ counter \in [1 .. HASH -> 0 .. BASE - 1]

(* Which routine it is, and what it has computed so far.                   *)
Stretching == call = "pbkdf2" /\ made < outlen
Decoying   == call = "decoy" /\ mem["seed"] = SeedOf(ct)

Linked(m) == mem["u"] = ChainOf(pw, salt, iter, i)[m]
Folded    == mem["f"] = Xored(pw, salt, iter, i, c)

(* The four calls of choi_hmac_sha256: what is its key, what it reads, and *)
(* what else must stay for later.                                          *)
ToFirst == /\ hmac = [key |-> pw, msg |-> "salt_i", dst |-> "u", then |-> "first"]
           /\ Stretching /\ mem["salt_i"] = First(salt, i)
ToXor   == /\ hmac = [key |-> pw, msg |-> "u", dst |-> "u", then |-> "xor"]
           /\ Stretching /\ c \in 1 .. iter - 1 /\ Linked(c) /\ Folded
ToSeed  == /\ hmac = [key |-> Zeros(HASH), msg |-> "ct", dst |-> "seed", then |-> "expand"]
           /\ call = "decoy" /\ made = 0 /\ mem["ct"] = ct
ToEmit  == /\ hmac = [key |-> SeedOf(ct), msg |-> "counter", dst |-> "block", then |-> "emit"]
           /\ Decoying /\ made < outlen /\ mem["counter"] = Bytes(counter)

Hashing == ToFirst \/ ToXor \/ ToSeed \/ ToEmit

(* What each step may rely on.                                             *)
AtStep ==
  /\ step = "inner"   => Hashing
  /\ step = "outer"   => Hashing /\ inner = Sha(KeyPad(hmac.key, "ipad") \o mem[hmac.msg])
  /\ step = "block"   => call = "pbkdf2"
  /\ step = "first"   => Stretching /\ Linked(1)
  /\ step = "iterate" => Stretching /\ c \in 1 .. Turns(iter) /\ Linked(c) /\ Folded
  /\ step = "xor"     => Stretching /\ c \in 1 .. iter - 1 /\ Linked(c + 1) /\ Folded
  /\ step = "expand"  => Decoying
  /\ step = "emit"    => /\ Decoying /\ made < outlen
                         /\ mem["block"] = DecoyBlockOf(ct, made \div HASH)
  /\ step = "returned" => IF failed THEN made = 0 ELSE made = outlen
  /\ failed \in BOOLEAN /\ (failed => step = "returned")
  /\ step \in {"idle", "block", "inner", "outer", "first", "iterate", "xor", "expand",
               "emit", "returned"}
  /\ step = "idle" => made = 0 /\ i = 1 /\ counter = BigEndian(0, HASH)

StretchIInv == Called /\ Made /\ Counted /\ AtStep

-----------------------------------------------------------------------------
(* Induction over the natural numbers, with a set in the place of a formula. *)
LEMMA NatInductive ==
  ASSUME NEW S, 0 \in S, \A n \in Nat : n \in S => n + 1 \in S
  PROVE  \A n \in Nat : n \in S
<1> SUFFICES ASSUME NEW n \in Nat, n \notin S PROVE FALSE
  OBVIOUS
<1> DEFINE R == OpToRel(<, Nat)
           T == {m \in Nat : m \notin S}
<1>1. PICK t \in T : \A u \in T : <<u, t>> \notin R
  <2>1. T # {} /\ T \subseteq Nat
    OBVIOUS
  <2> QED
    BY <2>1, NatLessThanWellFounded, WFMin
<1>2. \A u \in T : ~(u < t)
  BY <1>1 DEF OpToRel
<1>3. t # 0 /\ t - 1 \in Nat /\ t - 1 < t
  OBVIOUS
<1>4. t - 1 \in S
  BY <1>2, <1>3
<1> QED
  BY <1>3, <1>4

Division(x, w, q, r) ==
  /\ x \in Nat /\ w \in Nat \ {0} /\ q \in Nat /\ r \in 0 .. w - 1
  /\ x = w * q + r

(* Quotient and remainder are the only ones.                               *)
LEMMA OneQuotient ==
  \A x, w, q, r : Division(x, w, q, r) => x \div w = q /\ x % w = r
<1> SUFFICES ASSUME NEW x \in Nat, NEW q \in Nat, NEW w \in Nat \ {0},
                    NEW r \in 0 .. w - 1, x = w * q + r
             PROVE  x \div w = q /\ x % w = r
  BY DEF Division
<1> DEFINE y == x \div w
           z == x % w
<1>1. y \in Int /\ z \in 0 .. w - 1 /\ x = w * y + z
  BY Z3
<1>2. w * (y - q) = r - z
  BY <1>1, Z3
<1>3. y - q = 0
  BY <1>1, <1>2, Z3
<1> QED
  BY <1>1, <1>2, <1>3, Z3

(* What quotient and remainder are.                                        *)
LEMMA Divided ==
  \A x \in Nat, w \in Nat \ {0} :
    /\ x \div w \in Nat /\ x % w \in 0 .. w - 1 /\ x = w * (x \div w) + (x % w)
    /\ w * (x \div w) \in Nat
<1> SUFFICES ASSUME NEW x \in Nat, NEW w \in Nat \ {0}
             PROVE  /\ x \div w \in Nat /\ x % w \in 0 .. w - 1
                    /\ x = w * (x \div w) + (x % w) /\ w * (x \div w) \in Nat
  OBVIOUS
<1>1. x \div w \in Nat /\ x % w \in 0 .. w - 1 /\ x = w * (x \div w) + (x % w)
  BY Z3
<1>2. w * (x \div w) \in Nat
  BY <1>1, Z3
<1> QED
  BY <1>1, <1>2

(* The next number.                                                        *)
LEMMA DividedNext ==
  \A x \in Nat, w \in Nat \ {0} :
    /\ (x + 1) \div w = IF x % w = w - 1 THEN (x \div w) + 1 ELSE x \div w
    /\ (x + 1) % w = IF x % w = w - 1 THEN 0 ELSE (x % w) + 1
<1> SUFFICES ASSUME NEW x \in Nat, NEW w \in Nat \ {0}
             PROVE  /\ (x + 1) \div w = IF x % w = w - 1 THEN (x \div w) + 1 ELSE x \div w
                    /\ (x + 1) % w = IF x % w = w - 1 THEN 0 ELSE (x % w) + 1
  OBVIOUS
<1>1. PICK q \in Nat, r \in 0 .. w - 1 :
        q = x \div w /\ r = x % w /\ x = w * q + r /\ w * q \in Nat
  BY Divided
<1>2. CASE r = w - 1
  <2>1. x + 1 \in Nat /\ q + 1 \in Nat /\ 0 \in 0 .. w - 1
    OBVIOUS
  <2>2. w * (q + 1) = w * q + w
    BY Z3
  <2>3. x + 1 = w * (q + 1) + 0
    BY <1>1, <1>2, <2>2
  <2>4. Division(x + 1, w, q + 1, 0)
    BY <2>1, <2>3 DEF Division
  <2>5. (x + 1) \div w = q + 1 /\ (x + 1) % w = 0
    BY <2>4, OneQuotient
  <2> QED
    BY <1>1, <1>2, <2>5
<1>3. CASE r # w - 1
  <2>1. x + 1 \in Nat /\ r + 1 \in 0 .. w - 1 /\ x + 1 = w * q + (r + 1)
    BY <1>1, <1>3
  <2>2. Division(x + 1, w, q, r + 1)
    BY <2>1 DEF Division
  <2>3. (x + 1) \div w = q /\ (x + 1) % w = r + 1
    BY <2>2, OneQuotient
  <2> QED
    BY <1>1, <1>3, <2>3
<1> QED
  BY <1>2, <1>3

(* A smaller number has no greater quotient.                               *)
LEMMA DividedOrder ==
  \A x, y \in Nat, w \in Nat \ {0} : x <= y => x \div w <= y \div w
<1> SUFFICES ASSUME NEW x \in Nat, NEW y \in Nat, NEW w \in Nat \ {0}, x <= y,
                    ~(x \div w <= y \div w)
             PROVE  FALSE
  OBVIOUS
<1>1. PICK q \in Nat, r \in 0 .. w - 1 :
        q = x \div w /\ x = w * q + r /\ w * q \in Nat
  BY Divided
<1>2. PICK s \in Nat, t \in 0 .. w - 1 :
        s = y \div w /\ y = w * s + t /\ w * s \in Nat
  BY Divided
<1>3. q - s - 1 \in Nat
  BY <1>1, <1>2
<1>4. w * (q - s - 1) = w * q - w * s - w /\ w * (q - s - 1) \in Nat
  BY <1>3, Z3
<1> QED
  BY <1>1, <1>2, <1>4

(* Where a block of bytes begins, and which bytes are in it.               *)
LEMMA BlockPlaces ==
  \A m \in Nat, w \in Nat \ {0} : m % w = 0 =>
    /\ (m + w) % w = 0 /\ (m + w) \div w = (m \div w) + 1
    /\ \A j \in m + 1 .. m + w : (j - 1) \div w = m \div w /\ (j - 1) % w = j - 1 - m
<1> SUFFICES ASSUME NEW m \in Nat, NEW w \in Nat \ {0}, m % w = 0
             PROVE  /\ (m + w) % w = 0 /\ (m + w) \div w = (m \div w) + 1
                    /\ \A j \in m + 1 .. m + w :
                         (j - 1) \div w = m \div w /\ (j - 1) % w = j - 1 - m
  OBVIOUS
<1>1. PICK q \in Nat : q = m \div w /\ m = w * q /\ w * q \in Nat
  BY Divided
<1>2. (m + w) % w = 0 /\ (m + w) \div w = q + 1
  <2>1. m + w \in Nat /\ q + 1 \in Nat /\ 0 \in 0 .. w - 1
    OBVIOUS
  <2>2. w * (q + 1) = w * q + w
    BY Z3
  <2>3. m + w = w * (q + 1) + 0
    BY <1>1, <2>2
  <2>4. Division(m + w, w, q + 1, 0)
    BY <2>1, <2>3 DEF Division
  <2> QED
    BY <2>4, OneQuotient
<1>3. ASSUME NEW j \in m + 1 .. m + w
      PROVE  (j - 1) \div w = q /\ (j - 1) % w = j - 1 - m
  <2>1. j - 1 \in Nat /\ j - 1 - m \in 0 .. w - 1 /\ j - 1 = w * q + (j - 1 - m)
    BY <1>1
  <2>2. Division(j - 1, w, q, j - 1 - m)
    BY <2>1 DEF Division
  <2> QED
    BY <2>2, OneQuotient
<1> QED
  BY <1>1, <1>2, <1>3

(* The sizes are positive.                                                 *)
LEMMA Sizes ==
  /\ HMAC_BLOCK \in Nat \ {0} /\ HASH \in Nat \ {0} /\ INDEX \in Nat \ {0}
  /\ BASE \in Nat \ {0} /\ HASH <= HMAC_BLOCK
  BY StretchAssumption

(* The recursive definition of Shifted defines something.                  *)
LEMMA ShiftedSteps ==
  \A k, len \in Nat :
    /\ Shifted(k, len)[0] = k
    /\ \A n \in 0 .. len : Shifted(k, len)[n] \in Nat
    /\ \A n \in 1 .. len : Shifted(k, len)[n] = Shifted(k, len)[n - 1] \div BASE
<1> SUFFICES ASSUME NEW k \in Nat, NEW len \in Nat
             PROVE  /\ Shifted(k, len)[0] = k
                    /\ \A n \in 0 .. len : Shifted(k, len)[n] \in Nat
                    /\ \A n \in 1 .. len : Shifted(k, len)[n] = Shifted(k, len)[n - 1] \div BASE
  OBVIOUS
<1>0. \A x \in Nat : x \div BASE \in Nat
  BY Sizes, Divided
<1> DEFINE Good(m, v) == /\ v \in [0 .. m -> Nat] /\ v[0] = k
                         /\ \A n \in 1 .. m : v[n] = v[n - 1] \div BASE
           S == {m \in Nat : \E v : Good(m, v)}
<1>1. 0 \in S
  <2>1. Good(0, [n \in 0 .. 0 |-> k])
    OBVIOUS
  <2> QED
    BY <2>1
<1>2. ASSUME NEW m \in Nat, m \in S PROVE m + 1 \in S
  <2>1. PICK v : Good(m, v)
    BY <1>2
  <2> DEFINE w == [n \in 0 .. m + 1 |-> IF n = m + 1 THEN v[m] \div BASE ELSE v[n]]
  <2>2. v[m] \div BASE \in Nat
    BY <1>0, <2>1
  <2>3. w \in [0 .. m + 1 -> Nat] /\ w[0] = k
    BY <2>1, <2>2
  <2>4. \A n \in 0 .. m : w[n] = v[n]
    OBVIOUS
  <2>5. ASSUME NEW n \in 1 .. m + 1 PROVE w[n] = w[n - 1] \div BASE
    <3>1. CASE n = m + 1
      <4>1. n - 1 = m /\ w[m] = v[m] /\ n \in 0 .. m + 1
        BY <3>1, <2>4
      <4>2. w[n] = v[m] \div BASE
        BY <4>1, <3>1
      <4> HIDE DEF w
      <4> QED
        BY <4>1, <4>2
    <3>2. CASE n # m + 1
      <4>1. n \in 1 .. m /\ n - 1 \in 0 .. m /\ n \in 0 .. m
        BY <3>2
      <4> QED
        BY <4>1, <2>1, <2>4
    <3> QED
      BY <3>1, <3>2
  <2> HIDE DEF w
  <2>6. Good(m + 1, w) /\ m + 1 \in Nat
    BY <2>3, <2>5
  <2> HIDE DEF Good
  <2>7. \E x : Good(m + 1, x)
    BY <2>6
  <2> QED
    BY <2>6, <2>7
<1> HIDE DEF S
<1>3. len \in S
  BY <1>1, <1>2, NatInductive
<1>4. PICK v : Good(len, v)
  BY <1>3 DEF S
<1> DEFINE Rec(u) == u = [n \in 0 .. len |-> IF n = 0 THEN k ELSE u[n - 1] \div BASE]
<1>5. Rec(v)
  BY <1>4
<1>6. Shifted(k, len) = CHOOSE u : Rec(u)
  BY DEF Shifted
<1> DEFINE u == Shifted(k, len)
<1>7. Rec(u)
  BY <1>5, <1>6
<1> HIDE DEF u
<1>8. u[0] = k /\ \A n \in 1 .. len : u[n] = u[n - 1] \div BASE
  BY <1>7
<1> DEFINE T == {n \in Nat : n <= len => u[n] \in Nat}
<1>9. 0 \in T
  BY <1>8
<1>10. ASSUME NEW n \in Nat, n \in T PROVE n + 1 \in T
  <2> SUFFICES ASSUME n + 1 <= len PROVE u[n + 1] \in Nat
    OBVIOUS
  <2>1. u[n] \in Nat /\ u[n + 1] = u[n] \div BASE
    BY <1>8, <1>10
  <2> QED
    BY <1>0, <2>1
<1> HIDE DEF T
<1>11. \A n \in Nat : n \in T
  BY <1>9, <1>10, NatInductive
<1>12. \A n \in 0 .. len : u[n] \in Nat
  BY <1>11 DEF T
<1> QED
  BY <1>8, <1>12 DEF u

(* The bytes of a number are bytes.                                        *)
LEMMA BigEndianType ==
  \A k, len \in Nat :
    BigEndian(k, len) = [j \in 1 .. len |-> BigEndian(k, len)[j]]
    /\ BigEndian(k, len) \in [1 .. len -> 0 .. BASE - 1]
    /\ \A j \in 1 .. len : BigEndian(k, len)[j] = Shifted(k, len)[len - j] % BASE
<1> SUFFICES ASSUME NEW k \in Nat, NEW len \in Nat
             PROVE  BigEndian(k, len) = [j \in 1 .. len |-> BigEndian(k, len)[j]]
                    /\ BigEndian(k, len) \in [1 .. len -> 0 .. BASE - 1]
                    /\ \A j \in 1 .. len : BigEndian(k, len)[j] = Shifted(k, len)[len - j] % BASE
  OBVIOUS
<1>1. \A j \in 1 .. len : len - j \in 0 .. len
  OBVIOUS
<1>2. \A j \in 1 .. len : Shifted(k, len)[len - j] % BASE \in 0 .. BASE - 1
  BY <1>1, ShiftedSteps, Divided, Sizes
<1> QED
  BY <1>2 DEF BigEndian

(* Numbers whose bytes are the same, and which fit into them, are the same. *)
LEMMA BigEndianInjective ==
  \A k, l, len \in Nat :
    /\ Shifted(k, len)[len] = 0 /\ Shifted(l, len)[len] = 0
    /\ BigEndian(k, len) = BigEndian(l, len)
    => k = l
<1> SUFFICES ASSUME NEW k \in Nat, NEW l \in Nat, NEW len \in Nat,
                    Shifted(k, len)[len] = 0, Shifted(l, len)[len] = 0,
                    BigEndian(k, len) = BigEndian(l, len)
             PROVE  k = l
  OBVIOUS
<1> DEFINE s == Shifted(k, len)
           t == Shifted(l, len)
           S == {n \in Nat : n <= len => s[len - n] = t[len - n]}
<1>1. 0 \in S
  OBVIOUS
<1>2. /\ s[0] = k /\ t[0] = l
      /\ \A n \in 0 .. len : s[n] \in Nat /\ t[n] \in Nat
      /\ \A n \in 1 .. len : s[n] = s[n - 1] \div BASE /\ t[n] = t[n - 1] \div BASE
  BY ShiftedSteps
<1>3. \A j \in 1 .. len : s[len - j] % BASE = t[len - j] % BASE
  <2>1. \A j \in 1 .. len : BigEndian(k, len)[j] = s[len - j] % BASE
    BY BigEndianType
  <2>2. \A j \in 1 .. len : BigEndian(l, len)[j] = t[len - j] % BASE
    BY BigEndianType
  <2> QED
    BY <2>1, <2>2
<1> HIDE DEF s, t
<1>4. ASSUME NEW n \in Nat, n \in S PROVE n + 1 \in S
  <2> SUFFICES ASSUME n + 1 <= len PROVE s[len - (n + 1)] = t[len - (n + 1)]
    OBVIOUS
  <2> DEFINE m == len - (n + 1)
  <2>1. m \in 0 .. len /\ m + 1 \in 1 .. len /\ (m + 1) - 1 = m
        /\ m + 1 = len - n /\ n + 1 \in 1 .. len
    OBVIOUS
  <2>2. s[m + 1] = t[m + 1]
    BY <1>4, <2>1
  <2>3. s[m] \div BASE = t[m] \div BASE
    BY <1>2, <2>1, <2>2
  <2>4. s[m] % BASE = t[m] % BASE
    BY <1>3, <2>1
  <2>5. s[m] \in Nat /\ t[m] \in Nat
    BY <1>2, <2>1
  <2> HIDE DEF m
  <2>6. /\ s[m] = BASE * (s[m] \div BASE) + (s[m] % BASE)
        /\ t[m] = BASE * (t[m] \div BASE) + (t[m] % BASE)
    BY <2>5, Divided, Sizes
  <2>7. s[m] = t[m]
    BY <2>3, <2>4, <2>6
  <2> QED
    BY <2>7 DEF m
<1> HIDE DEF S
<1>5. len \in S
  BY <1>1, <1>4, NatInductive
<1>6. len <= len /\ len - len = 0
  OBVIOUS
<1> QED
  BY <1>2, <1>5, <1>6 DEF S

(* A smaller number fits where a greater one does.                         *)
LEMMA ShiftedOrder ==
  \A k, l, len \in Nat :
    k <= l /\ Shifted(l, len)[len] = 0 => Shifted(k, len)[len] = 0
<1> SUFFICES ASSUME NEW k \in Nat, NEW l \in Nat, NEW len \in Nat,
                    k <= l, Shifted(l, len)[len] = 0
             PROVE  Shifted(k, len)[len] = 0
  OBVIOUS
<1> DEFINE s == Shifted(k, len)
           t == Shifted(l, len)
           S == {n \in Nat : n <= len => s[n] <= t[n]}
<1>1. /\ s[0] = k /\ t[0] = l
      /\ \A n \in 0 .. len : s[n] \in Nat /\ t[n] \in Nat
      /\ \A n \in 1 .. len : s[n] = s[n - 1] \div BASE /\ t[n] = t[n - 1] \div BASE
  BY ShiftedSteps
<1> HIDE DEF s, t
<1>2. 0 \in S
  BY <1>1
<1>3. ASSUME NEW n \in Nat, n \in S PROVE n + 1 \in S
  <2> SUFFICES ASSUME n + 1 <= len PROVE s[n + 1] <= t[n + 1]
    OBVIOUS
  <2>1. n \in 0 .. len /\ n + 1 \in 1 .. len /\ (n + 1) - 1 = n
    OBVIOUS
  <2>2. s[n] \in Nat /\ t[n] \in Nat /\ s[n] <= t[n]
    BY <1>1, <1>3, <2>1
  <2>3. s[n] \div BASE <= t[n] \div BASE
    BY <2>2, DividedOrder, Sizes
  <2> QED
    BY <1>1, <2>1, <2>3
<1> HIDE DEF S
<1>4. len \in S
  BY <1>2, <1>3, NatInductive
<1>5. s[len] <= t[len] /\ s[len] \in Nat /\ len \in 0 .. len
  BY <1>1, <1>4 DEF S
<1> QED
  BY <1>5 DEF s, t

(* The carry loop of choi_generate_decoy counts.                           *)
CountedOn(d) ==
  [j \in 1 .. HASH |-> IF \A l \in j + 1 .. HASH : d[l] = BASE - 1
                       THEN (d[j] + 1) % BASE ELSE d[j]]

(* So it steps from the bytes of a number to those of the next, also when  *)
(* a carry goes through all of them.                                       *)
LEMMA CarryCounts ==
  \A k \in Nat : CountedOn(BigEndian(k, HASH)) = BigEndian(k + 1, HASH)
<1> SUFFICES ASSUME NEW k \in Nat
             PROVE  CountedOn(BigEndian(k, HASH)) = BigEndian(k + 1, HASH)
  OBVIOUS
<1> DEFINE s == Shifted(k, HASH)
           t == Shifted(k + 1, HASH)
           d == BigEndian(k, HASH)
           Carry(n) == \A e \in 0 .. n - 1 : s[e] % BASE = BASE - 1
           Right(n) == t[n] = IF Carry(n) THEN s[n] + 1 ELSE s[n]
           S == {n \in Nat : n <= HASH => Right(n)}
<1>0. HASH \in Nat /\ k + 1 \in Nat /\ BASE \in Nat \ {0}
  BY Sizes
<1>1. /\ s[0] = k /\ t[0] = k + 1
      /\ \A n \in 0 .. HASH : s[n] \in Nat /\ t[n] \in Nat
      /\ \A n \in 1 .. HASH : s[n] = s[n - 1] \div BASE /\ t[n] = t[n - 1] \div BASE
  BY <1>0, ShiftedSteps
<1>2. /\ \A j \in 1 .. HASH : d[j] = s[HASH - j] % BASE
      /\ \A j \in 1 .. HASH : BigEndian(k + 1, HASH)[j] = t[HASH - j] % BASE
      /\ BigEndian(k + 1, HASH) = [j \in 1 .. HASH |-> BigEndian(k + 1, HASH)[j]]
  BY <1>0, BigEndianType
<1> HIDE DEF s, t, d
<1>3. 0 \in S
  BY <1>1
<1>4. ASSUME NEW n \in Nat, n \in S PROVE n + 1 \in S
  <2> SUFFICES ASSUME n + 1 <= HASH PROVE Right(n + 1)
    OBVIOUS
  <2>1. n \in 0 .. HASH /\ n + 1 \in 1 .. HASH /\ (n + 1) - 1 = n
    BY <1>0
  <2>2. s[n] \in Nat /\ t[n] \in Nat /\ Right(n)
    BY <1>0, <1>1, <1>4, <2>1
  <2>3. s[n + 1] = s[n] \div BASE /\ t[n + 1] = t[n] \div BASE
    BY <1>1, <2>1
  <2>4. Carry(n + 1) <=> Carry(n) /\ s[n] % BASE = BASE - 1
    <3>1. \A e : e \in 0 .. (n + 1) - 1 <=> e \in 0 .. n - 1 \/ e = n
      OBVIOUS
    <3> QED
      BY <3>1
  <2>5. (s[n] + 1) \div BASE =
          IF s[n] % BASE = BASE - 1 THEN (s[n] \div BASE) + 1 ELSE s[n] \div BASE
    BY <1>0, <2>2, DividedNext
  <2> HIDE DEF Carry
  <2> QED
    BY <2>2, <2>3, <2>4, <2>5
<1> HIDE DEF S, Right
<1>5. \A n \in Nat : n \in S
  BY <1>3, <1>4, NatInductive
<1>6. \A n \in 0 .. HASH : Right(n)
  BY <1>0, <1>5 DEF S
<1>7. ASSUME NEW j \in 1 .. HASH
      PROVE  (IF \A l \in j + 1 .. HASH : d[l] = BASE - 1 THEN (d[j] + 1) % BASE ELSE d[j])
             = BigEndian(k + 1, HASH)[j]
  <2> DEFINE n == HASH - j
  <2>1. n \in 0 .. HASH
    BY <1>0
  <2>2. (\A l \in j + 1 .. HASH : d[l] = BASE - 1) <=> Carry(n)
    <3>1. ASSUME Carry(n), NEW l \in j + 1 .. HASH PROVE d[l] = BASE - 1
      <4>1. HASH - l \in 0 .. n - 1 /\ l \in 1 .. HASH
        BY <1>0
      <4> QED
        BY <1>2, <3>1, <4>1
    <3>2. ASSUME \A l \in j + 1 .. HASH : d[l] = BASE - 1, NEW e \in 0 .. n - 1
          PROVE  s[e] % BASE = BASE - 1
      <4>1. HASH - e \in j + 1 .. HASH /\ HASH - e \in 1 .. HASH /\ HASH - (HASH - e) = e
        BY <1>0
      <4> QED
        BY <1>2, <3>2, <4>1
    <3> QED
      BY <3>1, <3>2
  <2>3. d[j] = s[n] % BASE /\ BigEndian(k + 1, HASH)[j] = t[n] % BASE
    BY <1>2
  <2>4. t[n] = IF Carry(n) THEN s[n] + 1 ELSE s[n]
    BY <1>6, <2>1 DEF Right
  <2>5. s[n] \in Nat /\ (s[n] + 1) % BASE = ((s[n] % BASE) + 1) % BASE
    <3>1. s[n] \in Nat /\ s[n] % BASE \in 0 .. BASE - 1
      BY <1>0, <1>1, <2>1, Divided
    <3>2. (s[n] + 1) % BASE = IF s[n] % BASE = BASE - 1 THEN 0 ELSE (s[n] % BASE) + 1
      BY <1>0, <3>1, DividedNext
    <3>3. \A w \in Nat \ {0} : w % w = 0 /\ \A x \in 0 .. w - 1 : x % w = x
      BY Z3
    <3> QED
      BY <1>0, <3>1, <3>2, <3>3
  <2> HIDE DEF n, Carry
  <2> QED
    BY <2>2, <2>3, <2>4, <2>5
<1>8. CountedOn(d) = [j \in 1 .. HASH |-> BigEndian(k + 1, HASH)[j]]
  BY <1>7 DEF CountedOn
<1> QED
  BY <1>2, <1>8 DEF d

-----------------------------------------------------------------------------
(* Sequences whose elements are of no set that could be named.             *)
IsSeq(s) == s \in Seq(Range(s))

(* elements.                                                               *)
LEMMA SeqShape ==
  ASSUME NEW s, IsSeq(s)
  PROVE  /\ Len(s) \in Nat /\ DOMAIN s = 1 .. Len(s)
         /\ s = [k \in 1 .. Len(s) |-> s[k]]
         /\ \A k \in 1 .. Len(s) : s[k] \in Range(s)
  BY LenProperties DEF IsSeq, Range

(* What is over a set is a sequence.                                       *)
LEMMA SeqOver ==
  ASSUME NEW S, NEW s \in Seq(S) PROVE IsSeq(s)
<1>1. Len(s) \in Nat /\ DOMAIN s = 1 .. Len(s) /\ s \in [1 .. Len(s) -> S]
  BY LenProperties
<1>2. s \in [1 .. Len(s) -> Range(s)]
  BY <1>1 DEF Range
<1> QED
  BY <1>1, <1>2 DEF IsSeq

(* A function on the first numbers is a sequence.                          *)
LEMMA FunctionSeq ==
  ASSUME NEW n \in Nat, NEW s, s = [k \in 1 .. n |-> s[k]]
  PROVE  IsSeq(s) /\ Len(s) = n
<1>1. DOMAIN s = 1 .. n /\ s \in [1 .. n -> Range(s)]
  BY DEF Range
<1>2. s \in Seq(Range(s))
  BY <1>1
<1> QED
  BY <1>1, <1>2, LenProperties DEF IsSeq

(* Two sequences with the same elements at the same places are the same.   *)
LEMMA SameSeq ==
  ASSUME NEW s, NEW t, IsSeq(s), IsSeq(t), Len(s) = Len(t),
         \A k \in 1 .. Len(s) : s[k] = t[k]
  PROVE  s = t
  BY SeqShape

(* One after the other.                                                    *)
LEMMA ConcatSeq ==
  ASSUME NEW s, NEW t, IsSeq(s), IsSeq(t)
  PROVE  /\ IsSeq(s \o t) /\ Len(s \o t) = Len(s) + Len(t)
         /\ \A k \in 1 .. Len(s) : (s \o t)[k] = s[k]
         /\ \A k \in 1 .. Len(t) : (s \o t)[Len(s) + k] = t[k]
<1> DEFINE S == Range(s) \cup Range(t)
<1>1. Len(s) \in Nat /\ Len(t) \in Nat /\ s \in Seq(S) /\ t \in Seq(S)
  BY SeqShape, SeqMonotonic DEF IsSeq
<1>2. /\ s \o t \in Seq(S) /\ Len(s \o t) = Len(s) + Len(t)
      /\ \A k \in 1 .. Len(s) + Len(t) :
           (s \o t)[k] = IF k <= Len(s) THEN s[k] ELSE t[k - Len(s)]
  BY <1>1, ConcatProperties
<1> HIDE DEF S
<1>3. IsSeq(s \o t)
  BY <1>2, SeqOver
<1> QED
  BY <1>1, <1>2, <1>3

(* What follows the same bytes is the same if the whole is.                 *)
LEMMA Cancelled ==
  \A s, t, u : IsSeq(s) /\ IsSeq(t) /\ IsSeq(u) /\ s \o t = s \o u => t = u
<1> SUFFICES ASSUME NEW s, NEW t, NEW u, IsSeq(s), IsSeq(t), IsSeq(u), s \o t = s \o u
             PROVE  t = u
  OBVIOUS
<1>1. /\ Len(s \o t) = Len(s) + Len(t)
      /\ \A k \in 1 .. Len(t) : (s \o t)[Len(s) + k] = t[k]
  BY ConcatSeq
<1>2. /\ Len(s \o u) = Len(s) + Len(u)
      /\ \A k \in 1 .. Len(u) : (s \o u)[Len(s) + k] = u[k]
  BY ConcatSeq
<1>3. Len(s) \in Nat /\ Len(t) \in Nat /\ Len(u) \in Nat
  BY SeqShape
<1>4. Len(t) = Len(u)
  BY <1>1, <1>2, <1>3
<1>5. \A k \in 1 .. Len(t) : t[k] = u[k]
  BY <1>1, <1>2, <1>4
<1> QED
  BY <1>4, <1>5, SameSeq
-----------------------------------------------------------------------------
(* Hashes.                                                                 *)
LEMMA ShaShape ==
  \A msg : /\ IsSeq(Sha(msg)) /\ Len(Sha(msg)) = HASH /\ DOMAIN Sha(msg) = 1 .. HASH
           /\ Sha(msg) = [j \in 1 .. HASH |-> Sha(msg)[j]]
           /\ \A j \in 1 .. HASH : Sha(msg)[j] = {<<"sha", msg, j>>}
<1> SUFFICES ASSUME NEW msg
             PROVE  /\ IsSeq(Sha(msg)) /\ Len(Sha(msg)) = HASH /\ DOMAIN Sha(msg) = 1 .. HASH
                    /\ Sha(msg) = [j \in 1 .. HASH |-> Sha(msg)[j]]
                    /\ \A j \in 1 .. HASH : Sha(msg)[j] = {<<"sha", msg, j>>}
  OBVIOUS
<1>1. /\ DOMAIN Sha(msg) = 1 .. HASH
      /\ Sha(msg) = [j \in 1 .. HASH |-> Sha(msg)[j]]
      /\ \A j \in 1 .. HASH : Sha(msg)[j] = {<<"sha", msg, j>>}
  BY DEF Sha
<1>2. HASH \in Nat
  BY Sizes
<1> QED
  BY <1>1, <1>2, FunctionSeq

(* No two messages have one hash.                                          *)
LEMMA ShaInjective == \A m, n : Sha(m) = Sha(n) => m = n
<1> SUFFICES ASSUME NEW m, NEW n, Sha(m) = Sha(n) PROVE m = n
  OBVIOUS
<1>1. 1 \in 1 .. HASH
  BY Sizes
<1>2. Sha(m)[1] = {<<"sha", m, 1>>}
  BY <1>1, ShaShape
<1>3. Sha(n)[1] = {<<"sha", n, 1>>}
  BY <1>1, ShaShape
<1>4. <<"sha", m, 1>> = <<"sha", n, 1>>
  BY <1>2, <1>3
<1> QED
  BY <1>4

(* A padded key is a block.                                                *)
LEMMA PaddedSeq == \A key, p : IsSeq(KeyPad(key, p)) /\ Len(KeyPad(key, p)) = HMAC_BLOCK
<1> SUFFICES ASSUME NEW key, NEW p
             PROVE  IsSeq(KeyPad(key, p)) /\ Len(KeyPad(key, p)) = HMAC_BLOCK
  OBVIOUS
<1>1. KeyPad(key, p) = [j \in 1 .. HMAC_BLOCK |-> KeyPad(key, p)[j]]
  BY DEF KeyPad
<1>2. HMAC_BLOCK \in Nat
  BY Sizes
<1> QED
  BY <1>1, <1>2, FunctionSeq

Inside(key, msg)  == Sha(KeyPad(key, "ipad") \o msg)
Outside(key, msg) == KeyPad(key, "opad") \o Inside(key, msg)

(* HMAC is a hash of a hash.                                               *)
LEMMA PrfIs == \A key, msg : Prf(key, msg) = Sha(Outside(key, msg))
  BY DEF Prf, Outside, Inside, KeyPad, Hashed

(* Under one key, no two messages have one MAC.                            *)
LEMMA PrfInjective ==
  \A key, m, n : IsSeq(m) /\ IsSeq(n) /\ Prf(key, m) = Prf(key, n) => m = n
<1> SUFFICES ASSUME NEW key, NEW m, NEW n, IsSeq(m), IsSeq(n), Prf(key, m) = Prf(key, n)
             PROVE  m = n
  OBVIOUS
<1>1. Outside(key, m) = Outside(key, n)
  BY PrfIs, ShaInjective
<1>2. IsSeq(KeyPad(key, "opad")) /\ IsSeq(KeyPad(key, "ipad"))
  BY PaddedSeq
<1>3. IsSeq(Inside(key, m)) /\ IsSeq(Inside(key, n))
  BY ShaShape DEF Inside
<1>4. Inside(key, m) = Inside(key, n)
  <2> DEFINE a == KeyPad(key, "opad")
             b == Inside(key, m)
             d == Inside(key, n)
  <2>1. a \o b = a \o d
    BY <1>1 DEF Outside
  <2>2. IsSeq(a) /\ IsSeq(b) /\ IsSeq(d)
    BY <1>2, <1>3
  <2> HIDE DEF a, b, d
  <2>3. b = d
    BY <2>1, <2>2, Cancelled
  <2> QED
    BY <2>3 DEF b, d
<1>5. KeyPad(key, "ipad") \o m = KeyPad(key, "ipad") \o n
  BY <1>4, ShaInjective DEF Inside
<1> QED
  BY <1>2, <1>5, Cancelled
-----------------------------------------------------------------------------
(* Keys: nothing that they are made of is what their padding is.           *)
IsKey(key) ==
  IsSeq(key) /\ \A j \in DOMAIN key : \A p \in {"ipad", "opad"} : <<p, <<>>, 0>> \notin key[j]

(* Passwords, the zero key and hashes are keys of that kind.               *)
LEMMA Keys ==
  /\ \A p \in Passwords : IsKey(p)
  /\ IsKey(Zeros(HASH))
  /\ \A msg : IsKey(Sha(msg))
<1>1. ASSUME NEW q \in Passwords PROVE IsKey(q)
  <2>1. q \in Seq(SUBSET Given)
    BY StretchAssumption
  <2>2. IsSeq(q) /\ \A j \in DOMAIN q : q[j] \in SUBSET Given
    BY <2>1, SeqOver
  <2>3. \A p \in {"ipad", "opad"} : <<p, <<>>, 0>> \notin Given
    BY DEF Given
  <2> QED
    BY <2>2, <2>3 DEF IsKey
<1>2. IsKey(Zeros(HASH))
  <2>1. /\ Zeros(HASH) = [j \in 1 .. HASH |-> Zeros(HASH)[j]]
        /\ DOMAIN Zeros(HASH) = 1 .. HASH
        /\ \A j \in 1 .. HASH : Zeros(HASH)[j] = {}
    BY DEF Zeros
  <2>2. HASH \in Nat
    BY Sizes
  <2> QED
    BY <2>1, <2>2, FunctionSeq DEF IsKey
<1>3. ASSUME NEW msg PROVE IsKey(Sha(msg))
  <2>1. \A j : \A p \in {"ipad", "opad"} : <<p, <<>>, 0>> # <<"sha", msg, j>>
    OBVIOUS
  <2> QED
    BY <2>1, ShaShape DEF IsKey
<1> QED
  BY <1>1, <1>2, <1>3

(* k_ipad and k_opad.                                                      *)
LEMMA KeyPadded ==
  \A key, p : IsKey(key) /\ p \in {"ipad", "opad"} =>
    XorAll(Hashed(key) \o Zeros(HMAC_BLOCK - Len(Hashed(key))),
           [j \in 1 .. HMAC_BLOCK |-> {<<p, <<>>, 0>>}]) = KeyPad(key, p)
<1> SUFFICES ASSUME NEW key, NEW p, IsKey(key), p \in {"ipad", "opad"}
             PROVE  XorAll(Hashed(key) \o Zeros(HMAC_BLOCK - Len(Hashed(key))),
                           [j \in 1 .. HMAC_BLOCK |-> {<<p, <<>>, 0>>}]) = KeyPad(key, p)
  OBVIOUS
<1> DEFINE k == Hashed(key)
           z == Zeros(HMAC_BLOCK - Len(k))
           x == <<p, <<>>, 0>>
<1>1. IsKey(k) /\ Len(k) <= HMAC_BLOCK /\ Len(k) \in Nat /\ DOMAIN k = 1 .. Len(k)
  <2>1. Len(key) \in Nat
    BY SeqShape DEF IsKey
  <2>2. IsKey(k) /\ Len(k) <= HMAC_BLOCK
    BY <2>1, Keys, Sizes, ShaShape DEF Hashed
  <2> QED
    BY <2>2, SeqShape DEF IsKey
<1>2. IsSeq(z) /\ Len(z) = HMAC_BLOCK - Len(k) /\ \A j \in 1 .. Len(z) : z[j] = {}
  <2>1. HMAC_BLOCK - Len(k) \in Nat
    BY <1>1, Sizes
  <2>2. \A n : /\ Zeros(n) = [j \in 1 .. n |-> Zeros(n)[j]]
               /\ \A j \in 1 .. n : Zeros(n)[j] = {}
    BY DEF Zeros
  <2> QED
    BY <2>1, <2>2, FunctionSeq
<1> HIDE DEF k, z
<1>3. /\ IsSeq(k \o z) /\ Len(k \o z) = HMAC_BLOCK
      /\ \A j \in 1 .. Len(k) : (k \o z)[j] = k[j]
      /\ \A j \in 1 .. Len(z) : (k \o z)[Len(k) + j] = z[j]
  <2>1. IsSeq(k) /\ HMAC_BLOCK \in Nat
    BY <1>1, Sizes DEF IsKey
  <2> QED
    BY <1>1, <1>2, <2>1, ConcatSeq
<1>4. DOMAIN (k \o z) = 1 .. HMAC_BLOCK
  BY <1>3, SeqShape
<1>5. ASSUME NEW j \in 1 .. HMAC_BLOCK
      PROVE  SymDiff((k \o z)[j], {x}) = {x} \cup (IF j > Len(k) THEN {} ELSE k[j])
  <2>0. HMAC_BLOCK \in Nat
    BY Sizes
  <2>1. CASE j > Len(k)
    <3>1. j - Len(k) \in 1 .. Len(z) /\ j = Len(k) + (j - Len(k))
      BY <1>1, <1>2, <2>0, <2>1
    <3>2. (k \o z)[j] = {}
      BY <1>2, <1>3, <3>1
    <3> QED
      BY <2>1, <3>2 DEF SymDiff
  <2>2. CASE ~(j > Len(k))
    <3>1. j \in 1 .. Len(k)
      BY <1>1, <2>0, <2>2
    <3>2. (k \o z)[j] = k[j] /\ x \notin k[j]
      BY <1>1, <1>3, <3>1 DEF IsKey
    <3> QED
      BY <2>2, <3>2 DEF SymDiff
  <2> QED
    BY <2>1, <2>2
<1>6. XorAll(k \o z, [j \in 1 .. HMAC_BLOCK |-> {x}])
      = [j \in 1 .. HMAC_BLOCK |-> {x} \cup (IF j > Len(k) THEN {} ELSE k[j])]
  BY <1>4, <1>5 DEF XorAll
<1> QED
  BY <1>6 DEF k, z, KeyPad

-----------------------------------------------------------------------------
(* Bytes of numbers.                                                       *)
LEMMA NumberIs ==
  /\ \A d : Number(d) = {} \/ Number(d) = {<<"number", <<>>, d>>}
  /\ \A d, e : Number(d) = Number(e) => d = e
<1>1. \A d : Number(d) = IF d = 0 THEN {} ELSE {<<"number", <<>>, d>>}
  BY DEF Number
<1>2. \A d, e : {<<"number", <<>>, d>>} = {<<"number", <<>>, e>>} => d = e
  <2> SUFFICES ASSUME NEW d, NEW e, {<<"number", <<>>, d>>} = {<<"number", <<>>, e>>}
               PROVE  d = e
    OBVIOUS
  <2>1. <<"number", <<>>, d>> = <<"number", <<>>, e>>
    OBVIOUS
  <2> QED
    BY <2>1
<1> QED
  BY <1>1, <1>2

(* As many bytes as asked for.                                             *)
LEMMA BytesShape ==
  \A k, len \in Nat :
    LET s == Bytes(BigEndian(k, len))
    IN  /\ IsSeq(s) /\ Len(s) = len
        /\ \A j \in 1 .. len : s[j] = Number(BigEndian(k, len)[j])
<1> SUFFICES ASSUME NEW k \in Nat, NEW len \in Nat
             PROVE  LET s == Bytes(BigEndian(k, len))
                    IN  /\ IsSeq(s) /\ Len(s) = len
                        /\ \A j \in 1 .. len : s[j] = Number(BigEndian(k, len)[j])
  OBVIOUS
<1> DEFINE s == Bytes(BigEndian(k, len))
<1>1. DOMAIN BigEndian(k, len) = 1 .. len
  BY DEF BigEndian
<1>2. s = [j \in 1 .. len |-> s[j]] /\ \A j \in 1 .. len : s[j] = Number(BigEndian(k, len)[j])
  BY <1>1 DEF Bytes
<1> HIDE DEF s
<1>3. IsSeq(s) /\ Len(s) = len
  BY <1>2, FunctionSeq
<1> QED
  BY <1>2, <1>3 DEF s

(* Numbers that fit have the same bytes only if they are the same.         *)
LEMMA BytesInjective ==
  \A k, l, len \in Nat :
    /\ Shifted(k, len)[len] = 0 /\ Shifted(l, len)[len] = 0
    /\ Bytes(BigEndian(k, len)) = Bytes(BigEndian(l, len))
    => k = l
<1> SUFFICES ASSUME NEW k \in Nat, NEW l \in Nat, NEW len \in Nat,
                    Shifted(k, len)[len] = 0, Shifted(l, len)[len] = 0,
                    Bytes(BigEndian(k, len)) = Bytes(BigEndian(l, len))
             PROVE  k = l
  OBVIOUS
<1> DEFINE d == BigEndian(k, len)
           e == BigEndian(l, len)
<1>1. \A j \in 1 .. len : Bytes(d)[j] = Number(d[j])
  BY BytesShape
<1>2. \A j \in 1 .. len : Bytes(e)[j] = Number(e[j])
  BY BytesShape
<1>3. d = [j \in 1 .. len |-> d[j]]
  BY BigEndianType
<1>4. e = [j \in 1 .. len |-> e[j]]
  BY BigEndianType
<1>5. Bytes(d) = Bytes(e)
  OBVIOUS
<1>6. d = e
  <2> HIDE DEF d, e
  <2>1. \A j \in 1 .. len : d[j] = e[j]
    BY <1>1, <1>2, <1>5, NumberIs
  <2> QED
    BY <1>3, <1>4, <2>1
<1> QED
  BY <1>6, BigEndianInjective
-----------------------------------------------------------------------------
(* The first message of a chain.                                           *)
LEMMA FirstShape ==
  \A s \in StretchSalts, k \in Nat :
    /\ IsSeq(s) /\ IsSeq(First(s, k)) /\ Len(First(s, k)) = Len(s) + INDEX
    /\ \E d : First(s, k)[Len(s) + INDEX] = Number(d)
<1> SUFFICES ASSUME NEW s \in StretchSalts, NEW k \in Nat
             PROVE  /\ IsSeq(s) /\ IsSeq(First(s, k)) /\ Len(First(s, k)) = Len(s) + INDEX
                    /\ \E d : First(s, k)[Len(s) + INDEX] = Number(d)
  OBVIOUS
<1> DEFINE t == Bytes(BigEndian(k, INDEX))
<1>0. INDEX \in Nat /\ INDEX \in 1 .. INDEX
  BY Sizes
<1>1. IsSeq(s)
  <2>1. s \in Seq(SUBSET Given)
    BY StretchAssumption
  <2> QED
    BY <2>1, SeqOver
<1>2. IsSeq(t) /\ Len(t) = INDEX /\ t[INDEX] = Number(BigEndian(k, INDEX)[INDEX])
  BY <1>0, BytesShape
<1> HIDE DEF t
<1>3. /\ IsSeq(s \o t) /\ Len(s \o t) = Len(s) + INDEX
      /\ (s \o t)[Len(s) + INDEX] = t[INDEX]
  BY <1>0, <1>1, <1>2, ConcatSeq
<1> QED
  BY <1>1, <1>2, <1>3 DEF First, t

(* It is no hash, for it ends in a byte of a number.                       *)
LEMMA FirstApart ==
  \A s \in StretchSalts, k \in Nat : \A msg : First(s, k) # Sha(msg)
<1> SUFFICES ASSUME NEW s \in StretchSalts, NEW k \in Nat, NEW msg, First(s, k) = Sha(msg)
             PROVE  FALSE
  OBVIOUS
<1>1. /\ Len(First(s, k)) = Len(s) + INDEX /\ IsSeq(s)
  BY FirstShape
<1>2. PICK d : First(s, k)[Len(s) + INDEX] = Number(d)
  BY FirstShape
<1>3. Len(Sha(msg)) = HASH /\ \A j \in 1 .. HASH : Sha(msg)[j] = {<<"sha", msg, j>>}
  BY ShaShape
<1>4. HASH \in 1 .. HASH /\ Len(s) + INDEX = HASH
  BY <1>1, <1>3, Sizes
<1>5. Number(d) = {<<"sha", msg, HASH>>}
  BY <1>2, <1>3, <1>4
<1>6. Number(d) = {} \/ Number(d) = {<<"number", <<>>, d>>}
  BY NumberIs
<1>7. <<"sha", msg, HASH>> # <<"number", <<>>, d>>
  OBVIOUS
<1> QED
  BY <1>5, <1>6, <1>7

(* It tells one block index from another.                                  *)
LEMMA FirstInjective ==
  \A s \in StretchSalts, k, l \in Nat :
    /\ Shifted(k, INDEX)[INDEX] = 0 /\ Shifted(l, INDEX)[INDEX] = 0
    /\ First(s, k) = First(s, l)
    => k = l
<1> SUFFICES ASSUME NEW s \in StretchSalts, NEW k \in Nat, NEW l \in Nat,
                    Shifted(k, INDEX)[INDEX] = 0, Shifted(l, INDEX)[INDEX] = 0,
                    First(s, k) = First(s, l)
             PROVE  k = l
  OBVIOUS
<1> DEFINE a == Bytes(BigEndian(k, INDEX))
           b == Bytes(BigEndian(l, INDEX))
<1>0. INDEX \in Nat
  BY Sizes
<1>1. IsSeq(s)
  BY FirstShape
<1>2. IsSeq(a)
  BY <1>0, BytesShape
<1>3. IsSeq(b)
  BY <1>0, BytesShape
<1>4. s \o a = s \o b
  BY DEF First
<1>5. a = b
  <2> HIDE DEF a, b
  <2> QED
    BY <1>1, <1>2, <1>3, <1>4, Cancelled
<1> QED
  BY <1>0, <1>5, BytesInjective
-----------------------------------------------------------------------------
(* The recursive definition of a chain defines something.                  *)
LEMMA Chained ==
  \A p, s, k : \A n \in Nat :
    /\ ChainOf(p, s, n, k)[1] = Prf(p, First(s, k))
    /\ \A m \in 2 .. n + 1 : ChainOf(p, s, n, k)[m] = Prf(p, ChainOf(p, s, n, k)[m - 1])
<1> SUFFICES ASSUME NEW p, NEW s, NEW k, NEW n \in Nat
             PROVE  /\ ChainOf(p, s, n, k)[1] = Prf(p, First(s, k))
                    /\ \A m \in 2 .. n + 1 :
                         ChainOf(p, s, n, k)[m] = Prf(p, ChainOf(p, s, n, k)[m - 1])
  OBVIOUS
<1> DEFINE P(x) == Prf(p, x)
           a == Prf(p, First(s, k))
           Good(m, v) == v = [l \in 1 .. m + 1 |-> IF l = 1 THEN a ELSE P(v[l - 1])]
           S == {m \in Nat : \E v : Good(m, v)}
<1>1. ChainOf(p, s, n, k) = CHOOSE U : Good(n, U)
  BY DEF ChainOf
<1> HIDE DEF P, a
<1>2. 0 \in S
  <2>1. Good(0, [l \in 1 .. 0 + 1 |-> a])
    OBVIOUS
  <2> QED
    BY <2>1
<1>3. ASSUME NEW m \in Nat, m \in S PROVE m + 1 \in S
  <2>1. PICK v : Good(m, v)
    BY <1>3
  <2> DEFINE w == [l \in 1 .. (m + 1) + 1 |-> IF l = m + 2 THEN P(v[m + 1]) ELSE v[l]]
  <2>2. \A l \in 1 .. m + 1 : w[l] = v[l] /\ v[l] = IF l = 1 THEN a ELSE P(v[l - 1])
    <3>1. \A l \in 1 .. m + 1 : v[l] = IF l = 1 THEN a ELSE P(v[l - 1])
      BY <2>1
    <3>2. \A l \in 1 .. m + 1 : l \in 1 .. (m + 1) + 1 /\ l # m + 2
      OBVIOUS
    <3> QED
      BY <3>1, <3>2
  <2>3. w[m + 2] = P(v[m + 1]) /\ w = [l \in 1 .. (m + 1) + 1 |-> w[l]]
    OBVIOUS
  <2> HIDE DEF w
  <2>4. ASSUME NEW l \in 1 .. (m + 1) + 1 PROVE w[l] = IF l = 1 THEN a ELSE P(w[l - 1])
    <3>1. CASE l = m + 2
      <4>1. l # 1 /\ l - 1 = m + 1 /\ m + 1 \in 1 .. m + 1
        BY <3>1
      <4> QED
        BY <2>2, <2>3, <3>1, <4>1
    <3>2. CASE l = 1
      BY <2>2, <3>2
    <3>3. CASE l # m + 2 /\ l # 1
      <4>1. l \in 1 .. m + 1 /\ l - 1 \in 1 .. m + 1
        BY <3>3
      <4> QED
        BY <2>2, <3>3, <4>1
    <3> QED
      BY <3>1, <3>2, <3>3
  <2>5. Good(m + 1, w)
    BY <2>3, <2>4
  <2> HIDE DEF Good
  <2>6. \E x : Good(m + 1, x)
    BY <2>5
  <2> QED
    BY <2>6
<1> HIDE DEF S
<1>4. n \in S
  BY <1>2, <1>3, NatInductive
<1> DEFINE u == ChainOf(p, s, n, k)
<1>5. Good(n, u)
  <2>1. \E v : Good(n, v)
    BY <1>4 DEF S
  <2> HIDE DEF Good
  <2> QED
    BY <1>1, <2>1
<1> HIDE DEF u
<1>6. \A l \in 1 .. n + 1 : u[l] = IF l = 1 THEN a ELSE P(u[l - 1])
  BY <1>5
<1>7. u[1] = a /\ \A m \in 2 .. n + 1 : u[m] = P(u[m - 1])
  BY <1>6
<1> QED
  BY <1>7 DEF u, P, a

(* A link of a chain is a hash.                                            *)
LEMMA LinkIsHash ==
  \A p, s, k : \A n \in Nat : \A m \in 1 .. n + 1 :
    \E msg : ChainOf(p, s, n, k)[m] = Sha(msg)
<1> SUFFICES ASSUME NEW p, NEW s, NEW k, NEW n \in Nat, NEW m \in 1 .. n + 1
             PROVE  \E msg : ChainOf(p, s, n, k)[m] = Sha(msg)
  OBVIOUS
<1>1. \E x : ChainOf(p, s, n, k)[m] = Prf(p, x)
  <2>1. CASE m = 1
    BY <2>1, Chained
  <2>2. CASE m # 1
    <3>1. m \in 2 .. n + 1
      BY <2>2
    <3> QED
      BY <3>1, Chained
  <2> QED
    BY <2>1, <2>2
<1> QED
  BY <1>1, PrfIs

(* A chain never comes back to where any chain begins.                     *)
LEMMA FirstLinkApart ==
  \A p : \A s \in StretchSalts, k, l, n \in Nat : \A m \in 2 .. n + 1 :
    ChainOf(p, s, n, k)[1] # ChainOf(p, s, n, l)[m]
<1> SUFFICES ASSUME NEW p, NEW s \in StretchSalts, NEW k \in Nat, NEW l \in Nat,
                    NEW n \in Nat, NEW m \in 2 .. n + 1,
                    ChainOf(p, s, n, k)[1] = ChainOf(p, s, n, l)[m]
             PROVE  FALSE
  OBVIOUS
<1> DEFINE x == ChainOf(p, s, n, l)[m - 1]
<1>1. ChainOf(p, s, n, k)[1] = Prf(p, First(s, k))
  BY Chained
<1>2. ChainOf(p, s, n, l)[m] = Prf(p, x)
  BY Chained
<1>3. m - 1 \in 1 .. n + 1
  OBVIOUS
<1>4. PICK msg : x = Sha(msg)
  BY <1>3, LinkIsHash
<1>5. Prf(p, First(s, k)) = Prf(p, x)
  BY <1>1, <1>2
<1> HIDE DEF x
<1>6. IsSeq(First(s, k)) /\ IsSeq(x)
  BY <1>4, FirstShape, ShaShape
<1>7. First(s, k) = x
  BY <1>5, <1>6, PrfInjective
<1> QED
  BY <1>4, <1>7, FirstApart

(* Chains of different blocks begin with different hashes.                *)
LEMMA FirstLinkInjective ==
  \A p : \A s \in StretchSalts, k, l, n \in Nat :
    /\ Shifted(k, INDEX)[INDEX] = 0 /\ Shifted(l, INDEX)[INDEX] = 0
    /\ ChainOf(p, s, n, k)[1] = ChainOf(p, s, n, l)[1]
    => k = l
<1> SUFFICES ASSUME NEW p, NEW s \in StretchSalts, NEW k \in Nat, NEW l \in Nat,
                    NEW n \in Nat,
                    Shifted(k, INDEX)[INDEX] = 0, Shifted(l, INDEX)[INDEX] = 0,
                    ChainOf(p, s, n, k)[1] = ChainOf(p, s, n, l)[1]
             PROVE  k = l
  OBVIOUS
<1>1. ChainOf(p, s, n, k)[1] = Prf(p, First(s, k))
  BY Chained
<1>2. ChainOf(p, s, n, l)[1] = Prf(p, First(s, l))
  BY Chained
<1>3. IsSeq(First(s, k)) /\ IsSeq(First(s, l))
  BY FirstShape
<1>4. First(s, k) = First(s, l)
  BY <1>1, <1>2, <1>3, PrfInjective
<1> QED
  BY <1>4, FirstInjective

(* Nor does a chain come back to any of its links.                         *)
LEMMA LinksApart ==
  \A p : \A s \in StretchSalts, k, n \in Nat : \A a, b \in 1 .. n + 1 :
    ChainOf(p, s, n, k)[a] = ChainOf(p, s, n, k)[b] => a = b
<1> SUFFICES ASSUME NEW p, NEW s \in StretchSalts, NEW k \in Nat, NEW n \in Nat
             PROVE  \A a, b \in 1 .. n + 1 :
                      ChainOf(p, s, n, k)[a] = ChainOf(p, s, n, k)[b] => a = b
  OBVIOUS
<1> DEFINE u == ChainOf(p, s, n, k)
           S == {a \in Nat : a <= n => \A b \in 1 .. n + 1 : u[a + 1] = u[b] => b = a + 1}
<1>1. \A m \in 2 .. n + 1 : u[1] # u[m]
  BY FirstLinkApart
<1>2. \A m \in 2 .. n + 1 : u[m] = Prf(p, u[m - 1])
  BY Chained
<1>3. \A m \in 1 .. n + 1 : IsSeq(u[m])
  BY LinkIsHash, ShaShape
<1> HIDE DEF u
<1>4. 0 \in S
  BY <1>1
<1>5. ASSUME NEW a \in Nat, a \in S PROVE a + 1 \in S
  <2> SUFFICES ASSUME a + 1 <= n, NEW b \in 1 .. n + 1, u[(a + 1) + 1] = u[b]
               PROVE  b = (a + 1) + 1
    OBVIOUS
  <2>1. /\ (a + 1) + 1 \in 2 .. n + 1 /\ ((a + 1) + 1) - 1 = a + 1 /\ a + 1 \in 1 .. n + 1
    OBVIOUS
  <2>2. b \in 2 .. n + 1
    <3>1. CASE b = 1
      BY <1>1, <2>1, <3>1
    <3> QED
      BY <3>1
  <2>3. u[b] = Prf(p, u[b - 1])
    BY <1>2, <2>2
  <2>4. u[(a + 1) + 1] = Prf(p, u[a + 1])
    BY <1>2, <2>1
  <2>5. b - 1 \in 1 .. n + 1
    BY <2>2
  <2>6. IsSeq(u[b - 1]) /\ IsSeq(u[a + 1])
    BY <1>3, <2>1, <2>5
  <2>7. u[a + 1] = u[b - 1]
    BY <2>3, <2>4, <2>6, PrfInjective
  <2>8. b - 1 = a + 1
    BY <1>5, <2>5, <2>7
  <2> QED
    BY <2>8
<1> HIDE DEF S
<1>6. \A a \in Nat : a \in S
  BY <1>4, <1>5, NatInductive
<1>7. ASSUME NEW a \in 1 .. n + 1, NEW b \in 1 .. n + 1, u[a] = u[b] PROVE a = b
  <2>1. a - 1 \in Nat /\ a - 1 <= n /\ (a - 1) + 1 = a
    OBVIOUS
  <2>2. a - 1 \in S
    BY <1>6, <2>1
  <2> QED
    BY <1>7, <2>1, <2>2 DEF S
<1> QED
  BY <1>7 DEF u

-----------------------------------------------------------------------------
(* Which byte of a link is which.                                          *)
LEMMA LinkBytes ==
  \A p, s, k : \A n \in Nat : \A m \in 1 .. n + 1 :
    \E msg : /\ ChainOf(p, s, n, k)[m] = Sha(msg)
             /\ \A j \in 1 .. HASH : ChainOf(p, s, n, k)[m][j] = {<<"sha", msg, j>>}
  BY LinkIsHash, ShaShape

(* Bytes of different links have nothing in common, and neither have bytes *)
(* of different places.                                                    *)
LEMMA BytesApart ==
  \A m, n, x : \A j, l \in 1 .. HASH :
    x \in Sha(m)[j] /\ x \in Sha(n)[l] => m = n /\ j = l
<1> SUFFICES ASSUME NEW m, NEW n, NEW x, NEW j \in 1 .. HASH, NEW l \in 1 .. HASH,
                    x \in Sha(m)[j], x \in Sha(n)[l]
             PROVE  m = n /\ j = l
  OBVIOUS
<1>1. Sha(m)[j] = {<<"sha", m, j>>}
  BY ShaShape
<1>2. Sha(n)[l] = {<<"sha", n, l>>}
  BY ShaShape
<1>3. <<"sha", m, j>> = <<"sha", n, l>>
  BY <1>1, <1>2
<1> QED
  BY <1>3

(* A byte of the xor.                                                      *)
LEMMA XoredIs ==
  \A p, s, n, k, m : \A j \in 1 .. HASH :
    /\ DOMAIN Xored(p, s, n, k, m) = 1 .. HASH
    /\ Xored(p, s, n, k, m)[j] = UNION {ChainOf(p, s, n, k)[l][j] : l \in 1 .. m}
  BY DEF Xored

(* Xoring begins with the first link and takes in one after the other.     *)
LEMMA XoredFirst ==
  \A p, s, k : \A n \in Nat : Xored(p, s, n, k, 1) = ChainOf(p, s, n, k)[1]
<1> SUFFICES ASSUME NEW p, NEW s, NEW k, NEW n \in Nat
             PROVE  Xored(p, s, n, k, 1) = ChainOf(p, s, n, k)[1]
  OBVIOUS
<1> DEFINE u == ChainOf(p, s, n, k)
<1>1. Xored(p, s, n, k, 1) = [j \in 1 .. HASH |-> UNION {u[l][j] : l \in 1 .. 1}]
  BY DEF Xored
<1>2. u[1] = [j \in 1 .. HASH |-> u[1][j]]
  <2>1. 1 \in 1 .. n + 1
    OBVIOUS
  <2>2. PICK msg : u[1] = Sha(msg)
    BY <2>1, LinkIsHash
  <2> HIDE DEF u
  <2> QED
    BY <2>2, ShaShape
<1> HIDE DEF u
<1>3. \A j : UNION {u[l][j] : l \in 1 .. 1} = u[1][j]
  <2> SUFFICES ASSUME NEW j PROVE UNION {u[l][j] : l \in 1 .. 1} = u[1][j]
    OBVIOUS
  <2>1. 1 .. 1 = {1}
    OBVIOUS
  <2>2. {u[l][j] : l \in {1}} = {u[1][j]}
    OBVIOUS
  <2> QED
    BY <2>1, <2>2
<1> QED
  BY <1>1, <1>2, <1>3 DEF u

(* ... and takes in one after the other, none of which cancels another.    *)
LEMMA XoredNext ==
  \A p : \A s \in StretchSalts, k, n \in Nat : \A m \in 1 .. n :
    XorAll(Xored(p, s, n, k, m), ChainOf(p, s, n, k)[m + 1]) = Xored(p, s, n, k, m + 1)
<1> SUFFICES ASSUME NEW p, NEW s \in StretchSalts, NEW k \in Nat, NEW n \in Nat,
                    NEW m \in 1 .. n
             PROVE  XorAll(Xored(p, s, n, k, m), ChainOf(p, s, n, k)[m + 1])
                    = Xored(p, s, n, k, m + 1)
  OBVIOUS
<1> DEFINE u == ChainOf(p, s, n, k)
<1>1. \A a, b \in 1 .. n + 1 : u[a] = u[b] => a = b
  BY LinksApart
<1>2. \A a \in 1 .. n + 1 : \E msg : u[a] = Sha(msg)
  BY LinkIsHash
<1>3. /\ Xored(p, s, n, k, m) = [j \in 1 .. HASH |-> UNION {u[l][j] : l \in 1 .. m}]
      /\ Xored(p, s, n, k, m + 1) = [j \in 1 .. HASH |-> UNION {u[l][j] : l \in 1 .. m + 1}]
  BY DEF Xored
<1> HIDE DEF u
<1>4. ASSUME NEW j \in 1 .. HASH
      PROVE  SymDiff(UNION {u[l][j] : l \in 1 .. m}, u[m + 1][j])
             = UNION {u[l][j] : l \in 1 .. m + 1}
  <2> DEFINE A == UNION {u[l][j] : l \in 1 .. m}
  <2>1. \A x \in A : x \notin u[m + 1][j]
    <3> SUFFICES ASSUME NEW l \in 1 .. m, NEW x \in u[l][j], x \in u[m + 1][j] PROVE FALSE
      OBVIOUS
    <3>1. l \in 1 .. n + 1 /\ m + 1 \in 1 .. n + 1 /\ l # m + 1
      OBVIOUS
    <3>2. PICK a : u[l] = Sha(a)
      BY <1>2, <3>1
    <3>3. PICK b : u[m + 1] = Sha(b)
      BY <1>2, <3>1
    <3>4. a = b
      BY <3>2, <3>3, BytesApart
    <3> QED
      BY <1>1, <3>1, <3>2, <3>3, <3>4
  <2>2. UNION {u[l][j] : l \in 1 .. m + 1} = A \cup u[m + 1][j]
    <3>1. \A l : l \in 1 .. m + 1 <=> l \in 1 .. m \/ l = m + 1
      OBVIOUS
    <3> QED
      BY <3>1, Zenon
  <2> QED
    BY <2>1, <2>2 DEF SymDiff
<1>5. XorAll(Xored(p, s, n, k, m), u[m + 1])
      = [j \in 1 .. HASH |-> SymDiff(UNION {u[l][j] : l \in 1 .. m}, u[m + 1][j])]
  BY <1>3 DEF XorAll
<1>6. XorAll(Xored(p, s, n, k, m), u[m + 1]) = Xored(p, s, n, k, m + 1)
  BY <1>3, <1>4, <1>5
<1> QED
  BY <1>6 DEF u
-----------------------------------------------------------------------------
(* Where a byte asked for is: in which block, and where in it.             *)
AllFit(len) ==
  /\ \A j \in 1 .. len : Shifted((j - 1) \div HASH + 1, INDEX)[INDEX] = 0
  /\ \A j \in 1 .. len : Shifted((j - 1) \div HASH, HASH)[HASH] = 0

(* StretchAssumption is about the last block; the earlier ones fit as      *)
(* well.                                                                   *)
LEMMA AskedFits == \A len \in OutLens : AllFit(len)
<1> SUFFICES ASSUME NEW len \in OutLens, NEW j \in 1 .. len
             PROVE  /\ Shifted((j - 1) \div HASH + 1, INDEX)[INDEX] = 0
                    /\ Shifted((j - 1) \div HASH, HASH)[HASH] = 0
  BY DEF AllFit
<1> DEFINE count == (len + HASH - 1) \div HASH
           b == (j - 1) \div HASH
<1>1. len \in Nat /\ HASH \in Nat \ {0} /\ INDEX \in Nat
  BY StretchAssumption
<1>2. /\ Shifted(count, INDEX)[INDEX] = 0
      /\ count > 0 => Shifted(count - 1, HASH)[HASH] = 0
  BY StretchAssumption
<1>3. j - 1 \in Nat /\ len + HASH - 1 \in Nat
  BY <1>1
<1>4. count \in Nat /\ b \in Nat
  BY <1>1, <1>3, Divided
<1>5. b + 1 <= count
  <2>1. PICK q \in Nat, r \in 0 .. HASH - 1 :
          q = b /\ j - 1 = HASH * q + r /\ HASH * q \in Nat
    BY <1>1, <1>3, Divided
  <2>2. HASH * (q + 1) = HASH * q + HASH
    BY <1>1, Z3
  <2>3. Division((j - 1) + HASH, HASH, q + 1, r)
    BY <1>1, <1>3, <2>1, <2>2 DEF Division
  <2>4. ((j - 1) + HASH) \div HASH = q + 1
    BY <2>3, OneQuotient
  <2>5. (j - 1) + HASH \in Nat /\ (j - 1) + HASH <= len + HASH - 1
    BY <1>1
  <2>6. ((j - 1) + HASH) \div HASH <= count
    BY <1>1, <1>3, <2>5, DividedOrder
  <2> QED
    BY <2>1, <2>4, <2>6
<1> HIDE DEF count, b
<1>6. Shifted(b + 1, INDEX)[INDEX] = 0
  <2>1. b + 1 \in Nat
    BY <1>4
  <2> QED
    BY <1>1, <1>2, <1>4, <1>5, <2>1, ShiftedOrder
<1>7. Shifted(b, HASH)[HASH] = 0
  <2>1. count > 0 /\ count - 1 \in Nat /\ b <= count - 1 /\ HASH \in Nat
    BY <1>1, <1>4, <1>5
  <2> QED
    BY <1>2, <1>4, <2>1, ShiftedOrder
<1> QED
  BY <1>6, <1>7 DEF b

(* Every place is one in a hash of some block,                             *)
LEMMA Places ==
  \A j \in Nat \ {0} : /\ (j - 1) \div HASH \in Nat /\ ((j - 1) \div HASH) + 1 \in Nat
                       /\ ((j - 1) % HASH) + 1 \in 1 .. HASH
                       /\ j - 1 = HASH * ((j - 1) \div HASH) + ((j - 1) % HASH)
<1> SUFFICES ASSUME NEW j \in Nat \ {0}
             PROVE  /\ (j - 1) \div HASH \in Nat /\ ((j - 1) \div HASH) + 1 \in Nat
                    /\ ((j - 1) % HASH) + 1 \in 1 .. HASH
                    /\ j - 1 = HASH * ((j - 1) \div HASH) + ((j - 1) % HASH)
  OBVIOUS
<1>1. j - 1 \in Nat /\ HASH \in Nat \ {0}
  BY Sizes
<1>2. /\ (j - 1) \div HASH \in Nat /\ (j - 1) % HASH \in 0 .. HASH - 1
      /\ j - 1 = HASH * ((j - 1) \div HASH) + ((j - 1) % HASH)
  BY <1>1, Divided
<1> QED
  BY <1>1, <1>2

(* and no two are the same.                                                *)
LEMMA PlacesApart ==
  \A j, k \in Nat \ {0} :
    /\ (j - 1) \div HASH = (k - 1) \div HASH
    /\ ((j - 1) % HASH) + 1 = ((k - 1) % HASH) + 1
    => j = k
<1> SUFFICES ASSUME NEW j \in Nat \ {0}, NEW k \in Nat \ {0},
                    (j - 1) \div HASH = (k - 1) \div HASH,
                    ((j - 1) % HASH) + 1 = ((k - 1) % HASH) + 1
             PROVE  j = k
  OBVIOUS
<1>1. j - 1 = HASH * ((j - 1) \div HASH) + ((j - 1) % HASH)
  BY Places
<1>2. k - 1 = HASH * ((k - 1) \div HASH) + ((k - 1) % HASH)
  BY Places
<1>3. ((j - 1) % HASH) + 1 \in 1 .. HASH /\ ((k - 1) % HASH) + 1 \in 1 .. HASH
  BY Places
<1>4. j - 1 = k - 1
  <2>1. (j - 1) % HASH = (k - 1) % HASH
    <3>1. (j - 1) % HASH \in Int /\ (k - 1) % HASH \in Int
      <4>1. j - 1 \in Nat /\ k - 1 \in Nat /\ HASH \in Nat \ {0}
        BY Sizes
      <4> QED
        BY <4>1, Divided
    <3> QED
      BY <3>1
  <2> QED
    BY <1>1, <1>2, <2>1
<1> QED
  BY <1>4
-----------------------------------------------------------------------------
(* A derived byte is made of hashes of its own place, and the first link   *)
(* of its block is in it.                                                  *)
LEMMA DerivedAtoms ==
  \A p, s : \A n \in Nat, j \in Nat \ {0} :
    LET u == ChainOf(p, s, n, (j - 1) \div HASH + 1)
        q == ((j - 1) % HASH) + 1
    IN  /\ \A x \in Derived(p, s, n, j) : \E m \in 1 .. n + 1 : x \in u[m][q]
        /\ \A x \in u[1][q] : x \in Derived(p, s, n, j)
<1> SUFFICES ASSUME NEW p, NEW s, NEW n \in Nat, NEW j \in Nat \ {0}
             PROVE  LET u == ChainOf(p, s, n, (j - 1) \div HASH + 1)
                        q == ((j - 1) % HASH) + 1
                    IN  /\ \A x \in Derived(p, s, n, j) : \E m \in 1 .. n + 1 : x \in u[m][q]
                        /\ \A x \in u[1][q] : x \in Derived(p, s, n, j)
  OBVIOUS
<1> DEFINE b == (j - 1) \div HASH + 1
           u == ChainOf(p, s, n, b)
           q == ((j - 1) % HASH) + 1
<1>1. q \in 1 .. HASH
  BY Places
<1>2. Turns(n) \in Nat /\ 1 <= Turns(n) /\ Turns(n) <= n + 1
  BY DEF Turns
<1>3. Derived(p, s, n, j) = Xored(p, s, n, b, Turns(n))[q]
  BY DEF Derived
<1> HIDE DEF b, q
<1>4. Xored(p, s, n, b, Turns(n))[q] = UNION {u[l][q] : l \in 1 .. Turns(n)}
  BY <1>1, XoredIs
<1> HIDE DEF u
<1>5. 1 \in 1 .. Turns(n) /\ \A l \in 1 .. Turns(n) : l \in 1 .. n + 1
  BY <1>2
<1>6. /\ \A x \in Derived(p, s, n, j) : \E m \in 1 .. n + 1 : x \in u[m][q]
      /\ \A x \in u[1][q] : x \in Derived(p, s, n, j)
  BY <1>3, <1>4, <1>5, Zenon
<1> QED
  BY <1>6 DEF u, q, b

(* A derived byte is one that was written.                                 *)
LEMMA DerivedNew == \A p, s : \A n \in Nat, j \in Nat \ {0} : Derived(p, s, n, j) # Old
<1> SUFFICES ASSUME NEW p, NEW s, NEW n \in Nat, NEW j \in Nat \ {0} , Derived(p, s, n, j) = Old
             PROVE  FALSE
  OBVIOUS
<1> DEFINE q == ((j - 1) % HASH) + 1
           b == (j - 1) \div HASH + 1
<1>1. q \in 1 .. HASH /\ 1 \in 1 .. n + 1
  BY Places
<1>2. \A x \in ChainOf(p, s, n, b)[1][q] : x \in Derived(p, s, n, j)
  BY DerivedAtoms
<1> HIDE DEF q, b
<1>3. PICK msg : ChainOf(p, s, n, b)[1][q] = {<<"sha", msg, q>>}
  <2>1. PICK msg : ChainOf(p, s, n, b)[1] = Sha(msg)
    BY <1>1, LinkIsHash
  <2>2. ChainOf(p, s, n, b)[1][q] = {<<"sha", msg, q>>}
    BY <1>1, <2>1, ShaShape
  <2> QED
    BY <2>2
<1>4. <<"sha", msg, q>> \in Old
  BY <1>2, <1>3
<1>5. <<"sha", msg, q>> # <<"old", <<>>, 0>>
  OBVIOUS
<1> QED
  BY <1>4, <1>5 DEF Old

(* No two derived bytes are the same.                                      *)
LEMMA DerivedApart ==
  \A len : AllFit(len) =>
    \A p : \A s \in StretchSalts, n \in Nat : \A j, k \in 1 .. len :
      Derived(p, s, n, j) = Derived(p, s, n, k) => j = k
<1> SUFFICES ASSUME NEW len, AllFit(len), NEW p, NEW s \in StretchSalts, NEW n \in Nat,
                    NEW j \in 1 .. len, NEW k \in 1 .. len,
                    Derived(p, s, n, j) = Derived(p, s, n, k)
             PROVE  j = k
  OBVIOUS
<1> DEFINE b(l) == (l - 1) \div HASH + 1
           q(l) == ((l - 1) % HASH) + 1
           u(l) == ChainOf(p, s, n, b(l))
<1>0. j \in Nat \ {0} /\ k \in Nat \ {0}
  OBVIOUS
<1>1. q(j) \in 1 .. HASH /\ q(k) \in 1 .. HASH /\ b(j) \in Nat /\ b(k) \in Nat
      /\ 1 \in 1 .. n + 1
  BY <1>0, Places
<1>2. \A x \in u(j)[1][q(j)] : x \in Derived(p, s, n, j)
  BY <1>0, DerivedAtoms
<1>3. \A x \in Derived(p, s, n, k) : \E m \in 1 .. n + 1 : x \in u(k)[m][q(k)]
  BY <1>0, DerivedAtoms
<1>4. Shifted(b(j), INDEX)[INDEX] = 0 /\ Shifted(b(k), INDEX)[INDEX] = 0
  BY DEF AllFit
<1>5. b(j) = b(k) /\ q(j) = q(k) => j = k
  <2>1. (j - 1) \div HASH \in Nat /\ (k - 1) \div HASH \in Nat
    BY <1>0, Places
  <2>2. b(j) = b(k) => (j - 1) \div HASH = (k - 1) \div HASH
    BY <2>1
  <2> QED
    BY <1>0, <2>2, PlacesApart
<1> HIDE DEF b, q
<1>6. PICK a : u(j)[1] = Sha(a) /\ u(j)[1][q(j)] = {<<"sha", a, q(j)>>}
  BY <1>1, LinkBytes
<1>7. PICK m \in 1 .. n + 1 : <<"sha", a, q(j)>> \in u(k)[m][q(k)]
  BY <1>2, <1>3, <1>6
<1>8. PICK d : u(k)[m] = Sha(d)
  BY <1>7, LinkIsHash
<1>9. a = d /\ q(j) = q(k)
  BY <1>1, <1>6, <1>7, <1>8, BytesApart
<1>10. u(j)[1] = u(k)[m]
  BY <1>6, <1>8, <1>9
<1>11. m = 1
  <2>1. CASE m # 1
    <3>1. m \in 2 .. n + 1
      BY <2>1
    <3> QED
      BY <1>1, <1>10, <3>1, FirstLinkApart
  <2> QED
    BY <2>1
<1>12. b(j) = b(k)
  BY <1>1, <1>4, <1>10, <1>11, FirstLinkInjective
<1> QED
  BY <1>5, <1>9, <1>12
-----------------------------------------------------------------------------
(* A byte of a decoy is one byte of one hash.                              *)
LEMMA DecoyedIs ==
  \A t : \A j \in Nat \ {0} :
    LET k == (j - 1) \div HASH
        q == ((j - 1) % HASH) + 1
    IN  Decoyed(t, j) = {<<"sha", Outside(SeedOf(t), Bytes(BigEndian(k, HASH))), q>>}
<1> SUFFICES ASSUME NEW t, NEW j \in Nat \ {0}
             PROVE  LET k == (j - 1) \div HASH
                        q == ((j - 1) % HASH) + 1
                    IN  Decoyed(t, j) =
                          {<<"sha", Outside(SeedOf(t), Bytes(BigEndian(k, HASH))), q>>}
  OBVIOUS
<1> DEFINE k == (j - 1) \div HASH
           q == ((j - 1) % HASH) + 1
           msg == Outside(SeedOf(t), Bytes(BigEndian(k, HASH)))
<1>1. q \in 1 .. HASH
  BY Places
<1>2. Decoyed(t, j) = DecoyBlockOf(t, k)[q]
  BY DEF Decoyed
<1> HIDE DEF k, q
<1>3. DecoyBlockOf(t, k) = Sha(msg)
  BY PrfIs DEF DecoyBlockOf
<1> HIDE DEF msg
<1>4. Sha(msg)[q] = {<<"sha", msg, q>>}
  BY <1>1, ShaShape
<1> QED
  BY <1>2, <1>3, <1>4 DEF k, q, msg

(* A byte of a decoy is one that was written.                              *)
LEMMA DecoyedNew == \A t : \A j \in Nat \ {0} : Decoyed(t, j) # Old
<1> SUFFICES ASSUME NEW t, NEW j \in Nat \ {0} PROVE Decoyed(t, j) # Old
  OBVIOUS
<1>1. \E m, q : Decoyed(t, j) = {<<"sha", m, q>>}
  BY DecoyedIs
<1>2. \A m, q : <<"sha", m, q>> # <<"old", <<>>, 0>>
  OBVIOUS
<1> QED
  BY <1>1, <1>2 DEF Old

(* No two bytes of a decoy are the same.                                   *)
LEMMA DecoyedApart ==
  \A len : AllFit(len) =>
    \A t : \A j, k \in 1 .. len : Decoyed(t, j) = Decoyed(t, k) => j = k
<1> SUFFICES ASSUME NEW len, AllFit(len), NEW t, NEW j \in 1 .. len, NEW k \in 1 .. len,
                    Decoyed(t, j) = Decoyed(t, k)
             PROVE  j = k
  OBVIOUS
<1> DEFINE b(l) == (l - 1) \div HASH
           q(l) == ((l - 1) % HASH) + 1
           m(l) == Bytes(BigEndian(b(l), HASH))
<1>0. j \in Nat \ {0} /\ k \in Nat \ {0} /\ HASH \in Nat
  BY Sizes
<1>1. Decoyed(t, j) = {<<"sha", Outside(SeedOf(t), m(j)), q(j)>>}
  BY <1>0, DecoyedIs
<1>2. Decoyed(t, k) = {<<"sha", Outside(SeedOf(t), m(k)), q(k)>>}
  BY <1>0, DecoyedIs
<1>3. b(j) \in Nat /\ b(k) \in Nat
  BY <1>0, Places
<1>4. Shifted(b(j), HASH)[HASH] = 0 /\ Shifted(b(k), HASH)[HASH] = 0
  BY DEF AllFit
<1>5. b(j) = b(k) /\ q(j) = q(k) => j = k
  BY <1>0, PlacesApart
<1> HIDE DEF b, q
<1>6. IsSeq(m(j)) /\ IsSeq(m(k))
  <2>1. IsSeq(m(j))
    BY <1>0, <1>3, BytesShape
  <2>2. IsSeq(m(k))
    BY <1>0, <1>3, BytesShape
  <2> QED
    BY <2>1, <2>2
<1>7. Outside(SeedOf(t), m(j)) = Outside(SeedOf(t), m(k)) /\ q(j) = q(k)
  <2> HIDE DEF m
  <2>1. <<"sha", Outside(SeedOf(t), m(j)), q(j)>> = <<"sha", Outside(SeedOf(t), m(k)), q(k)>>
    BY <1>1, <1>2
  <2> QED
    BY <2>1
<1>8. m(j) = m(k)
  <2> HIDE DEF m
  <2>1. Prf(SeedOf(t), m(j)) = Prf(SeedOf(t), m(k))
    BY <1>7, PrfIs
  <2> QED
    BY <1>6, <2>1, PrfInjective
<1>9. b(j) = b(k)
  BY <1>0, <1>3, <1>4, <1>8, BytesInjective
<1> QED
  BY <1>5, <1>7, <1>9

-----------------------------------------------------------------------------
StretchTypes ==
  HASH \in Nat \ {0} /\ outlen \in Nat /\ iter \in Nat

(* The numbers that a call is given.                                       *)
LEMMA CalledTypes == Called => StretchTypes
<1> SUFFICES ASSUME Called PROVE StretchTypes
  OBVIOUS
<1>1. (\A n \in Iters : n \in Nat) /\ (\A n \in OutLens : n \in Nat)
  BY StretchAssumption
<1>2. outlen = 0 \/ outlen \in OutLens
  BY DEF Called
<1>3. iter = 0 \/ iter \in Iters
  BY DEF Called
<1> QED
  BY <1>1, <1>2, <1>3, Sizes DEF StretchTypes
-----------------------------------------------------------------------------
(* What a step that leaves a part of the state alone keeps.                *)
LEMMA CalledKept ==
  /\ Called /\ step # "idle" /\ step' # "idle" /\ UNCHANGED args
  /\ DOMAIN mem' = DOMAIN mem
  => Called'
  BY DEF Called, args

(* The output, as long as neither it nor the arguments change.             *)
LEMMA MadeKept ==
  Made /\ UNCHANGED <<args, made>> /\ mem'["out"] = mem["out"] => Made'
  BY DEF Made, Specified, args

(* The block index and the counter of the decoy.                           *)
LEMMA CountedKept ==
  Counted /\ UNCHANGED <<args, made, i, counter>> => Counted'
  BY DEF Counted, args

-----------------------------------------------------------------------------
(* Before any call.                                                        *)
LEMMA KeptInitially == StretchInit => StretchIInv
<1> SUFFICES ASSUME StretchInit PROVE StretchIInv
  OBVIOUS
<1>1. Called
  BY DEF StretchInit, Called
<1>2. Made
  <2>1. 1 .. 0 = {}
    OBVIOUS
  <2>2. mem["out"] = <<>> /\ made = 0 /\ outlen = 0
    BY DEF StretchInit
  <2>3. <<>> = [j \in 1 .. 0 |-> IF j > 0 THEN Old ELSE Specified(j)]
    BY <2>1
  <2> QED
    BY <2>2, <2>3 DEF Made
<1>3. Counted
  <2>1. BigEndian(0, HASH) \in [1 .. HASH -> 0 .. BASE - 1]
    BY Sizes, BigEndianType
  <2> QED
    BY <2>1 DEF StretchInit, Counted
<1>4. AtStep
  BY DEF StretchInit, AtStep
<1> QED
  BY <1>1, <1>2, <1>3, <1>4 DEF StretchIInv

(* The first byte is the first of its block.                               *)
LEMMA FirstPlace == 0 % HASH = 0 /\ 0 \div HASH = 0
<1>1. Division(0, HASH, 0, 0)
  BY Sizes DEF Division
<1> QED
  BY <1>1, OneQuotient

(* A call of either routine, and malloc.                                   *)
LEMMA KeptByCalls ==
  StretchIInv /\ (Pbkdf2Call \/ DecoyCall) => StretchIInv'
<1> SUFFICES ASSUME StretchIInv, Pbkdf2Call \/ DecoyCall PROVE StretchIInv'
  OBVIOUS
<1>0. /\ step = "idle" /\ made = 0 /\ i = 1 /\ counter = BigEndian(0, HASH)
      /\ made' = made /\ i' = i /\ counter' = counter /\ outlen' \in OutLens
      /\ \E input : mem' = Buffers(input, outlen')
      /\ failed = FALSE
  BY DEF StretchIInv, AtStep, Pbkdf2Call, DecoyCall, counters
<1>1. DOMAIN mem' = BufferNames /\ mem'["out"] = [j \in 1 .. outlen' |-> Old]
  <2>1. \A input, len : /\ DOMAIN Buffers(input, len) = BufferNames
                        /\ Buffers(input, len)["out"] = [j \in 1 .. len |-> Old]
    BY DEF Buffers, BufferNames
  <2> QED
    BY <1>0, <2>1
<1>2. outlen' \in Nat
  BY <1>0, StretchAssumption
<1>3. Called'
  <2>1. Pbkdf2Call => Called'
    BY <1>0, <1>1 DEF Pbkdf2Call, Called
  <2>2. DecoyCall => Called'
    <3>1. iter = 0
      BY <1>0 DEF StretchIInv, Called
    <3> QED
      BY <1>0, <1>1, <3>1 DEF DecoyCall, Hmac, Called
  <2> QED
    BY <2>1, <2>2
<1>4. Made'
  <2>1. made' = 0
    BY <1>0
  <2>2. [j \in 1 .. outlen' |-> Old]
        = [j \in 1 .. outlen' |-> IF j > 0 THEN Old ELSE Specified(j)']
    BY <1>2
  <2> QED
    BY <1>1, <1>2, <2>1, <2>2, FirstPlace DEF Made
<1>5. Counted'
  BY <1>0, FirstPlace DEF Counted, StretchIInv
<1>6. CASE Pbkdf2Call
  <2>1. /\ call' = "pbkdf2"
        /\ \/ step' = "block" /\ UNCHANGED failed
           \/ step' = "returned" /\ failed' = TRUE
    BY <1>6, Zenon DEF Pbkdf2Call
  <2>2. AtStep'
    BY <1>0, <2>1 DEF AtStep
  <2> QED
    BY <1>3, <1>4, <1>5, <2>2 DEF StretchIInv
<1>7. CASE DecoyCall
  <2>1. /\ call' = "decoy" /\ step' = "inner" /\ failed' = FALSE
        /\ hmac' = [key |-> Zeros(HASH), msg |-> "ct", dst |-> "seed", then |-> "expand"]
        /\ mem' = Buffers(ct', outlen')
    BY <1>0, <1>7 DEF DecoyCall, Hmac
  <2>2. mem'["ct"] = ct'
    BY <2>1 DEF Buffers
  <2>3. ToSeed'
    BY <1>0, <2>1, <2>2 DEF ToSeed
  <2>4. AtStep'
    BY <2>1, <2>3 DEF AtStep, Hashing
  <2> QED
    BY <1>3, <1>4, <1>5, <2>4 DEF StretchIInv
<1> QED
  BY <1>6, <1>7
-----------------------------------------------------------------------------
(* What is hashed, and where it goes.                                      *)
LEMMA HashingIs ==
  StretchIInv /\ step \in {"inner", "outer"} =>
    /\ Hashing /\ IsKey(hmac.key) /\ DOMAIN mem = BufferNames
    /\ hmac.dst \in BufferNames \ {"out"} /\ call \in {"pbkdf2", "decoy"}
<1> SUFFICES ASSUME StretchIInv, step \in {"inner", "outer"}
             PROVE  /\ Hashing /\ IsKey(hmac.key) /\ DOMAIN mem = BufferNames
                    /\ hmac.dst \in BufferNames \ {"out"} /\ call \in {"pbkdf2", "decoy"}
  OBVIOUS
<1>1. Hashing
  BY DEF StretchIInv, AtStep
<1>2. DOMAIN mem = BufferNames /\ call \in {"pbkdf2", "decoy"}
      /\ (call = "pbkdf2" => pw \in Passwords)
  BY DEF StretchIInv, Called
<1>3. \A input : IsKey(SeedOf(input))
  BY Keys, PrfIs DEF SeedOf
<1>4. CASE ToFirst
  BY <1>1, <1>2, <1>4, Keys DEF ToFirst, Stretching, BufferNames
<1>5. CASE ToXor
  BY <1>1, <1>2, <1>5, Keys DEF ToXor, Stretching, BufferNames
<1>6. CASE ToSeed
  BY <1>1, <1>2, <1>6, Keys DEF ToSeed, BufferNames
<1>7. CASE ToEmit
  BY <1>1, <1>2, <1>3, <1>7 DEF ToEmit, BufferNames
<1> QED
  BY <1>1, <1>4, <1>5, <1>6, <1>7 DEF Hashing

(* PaddedKey of a call of choi_hmac_sha256 is what RFC 2104 has in its     *)
(* place.                                                                  *)
LEMMA PaddedKeyIs ==
  ASSUME IsKey(hmac.key), NEW p \in {"ipad", "opad"}
  PROVE  PaddedKey(p) = KeyPad(hmac.key, p)
  BY KeyPadded DEF PaddedKey, Hashed

(* The inner hash.                                                         *)
LEMMA KeptByInner == StretchIInv /\ HmacInner => StretchIInv'
<1> SUFFICES ASSUME StretchIInv, HmacInner PROVE StretchIInv'
  OBVIOUS
<1>0. /\ step = "inner" /\ step' = "outer" /\ UNCHANGED <<args, mem, counters, hmac, failed>>
      /\ inner' = Sha(PaddedKey("ipad") \o mem[hmac.msg])
  BY DEF HmacInner, Absorbed
<1>1. Hashing /\ IsKey(hmac.key)
  BY <1>0, HashingIs
<1>2. inner' = Sha(KeyPad(hmac.key, "ipad") \o mem[hmac.msg])
  BY <1>0, <1>1, PaddedKeyIs
<1>3. inner' = Sha(KeyPad(hmac'.key, "ipad") \o mem'[hmac'.msg])
  BY <1>0, <1>2
<1>4. Hashing'
  BY <1>0, <1>1 DEF Hashing, ToFirst, ToXor, ToSeed, ToEmit, Stretching, Decoying, Linked,
                    Folded, args, counters
<1>5. AtStep'
  <2>1. failed' = failed /\ failed = FALSE
    BY <1>0 DEF StretchIInv, AtStep
  <2> QED
    BY <1>0, <1>3, <1>4, <2>1 DEF AtStep
<1>6. Called' /\ Made' /\ Counted'
  BY <1>0, CalledKept, MadeKept, CountedKept DEF StretchIInv, counters
<1> QED
  BY <1>5, <1>6 DEF StretchIInv

(* The outer hash, whichever of the four calls of choi_hmac_sha256 it      *)
(* ends.                                                                   *)
LEMMA KeptByOuter == StretchIInv /\ HmacOuter => StretchIInv'
<1> SUFFICES ASSUME StretchIInv, HmacOuter PROVE StretchIInv'
  OBVIOUS
<1> DEFINE hash == Prf(hmac.key, mem[hmac.msg])
<1>0. /\ step = "outer" /\ step' = hmac.then /\ UNCHANGED <<args, counters, hmac, inner, failed>>
      /\ mem' = [mem EXCEPT ![hmac.dst] = Sha(PaddedKey("opad") \o inner)]
  BY DEF HmacOuter
<1>1. /\ Hashing /\ IsKey(hmac.key) /\ DOMAIN mem = BufferNames
      /\ hmac.dst \in BufferNames \ {"out"}
  BY <1>0, HashingIs
<1>2. Sha(PaddedKey("opad") \o inner) = hash
  <2>1. inner = Inside(hmac.key, mem[hmac.msg])
    BY <1>0 DEF StretchIInv, AtStep, Inside
  <2>2. PaddedKey("opad") = KeyPad(hmac.key, "opad")
    BY <1>1, PaddedKeyIs
  <2> QED
    BY <2>1, <2>2, PrfIs DEF Outside
<1>3. /\ DOMAIN mem' = DOMAIN mem /\ mem'[hmac.dst] = hash
      /\ \A b \in BufferNames : b # hmac.dst => mem'[b] = mem[b]
  BY <1>0, <1>1, <1>2
<1> HIDE DEF hash
<1>4. mem'["out"] = mem["out"] /\ failed' = FALSE
  <2>1. "out" \in BufferNames
    BY DEF BufferNames
  <2> QED
    BY <1>0, <1>1, <1>3, <2>1 DEF StretchIInv, AtStep
<1>5. step' # "idle"
  BY <1>0, <1>1 DEF Hashing, ToFirst, ToXor, ToSeed, ToEmit
<1>6. Called' /\ Made' /\ Counted'
  BY <1>0, <1>3, <1>4, <1>5, CalledKept, MadeKept, CountedKept DEF StretchIInv, counters
<1>7. iter \in Nat
  BY CalledTypes DEF StretchIInv, StretchTypes
<1>8. CASE ToFirst
  <2>1. /\ hmac.key = pw /\ mem[hmac.msg] = First(salt, i) /\ hmac.dst = "u"
        /\ step' = "first" /\ Stretching
    BY <1>0, <1>8 DEF ToFirst
  <2>2. hash = ChainOf(pw, salt, iter, i)[1]
    BY <1>7, <2>1, Chained DEF hash
  <2>3. Stretching' /\ Linked(1)'
    BY <1>0, <1>3, <2>1, <2>2 DEF Stretching, Linked, args, counters
  <2> QED
    BY <1>4, <1>6, <2>1, <2>3 DEF StretchIInv, AtStep
<1>9. CASE ToXor
  <2>1. /\ hmac.key = pw /\ hmac.msg = "u" /\ hmac.dst = "u" /\ step' = "xor" /\ Stretching
        /\ c \in 1 .. iter - 1 /\ Linked(c) /\ Folded
    BY <1>0, <1>9 DEF ToXor
  <2>2. hash = ChainOf(pw, salt, iter, i)[c + 1]
    <3>1. c + 1 \in 2 .. iter + 1 /\ (c + 1) - 1 = c
      BY <1>7, <2>1
    <3>2. ChainOf(pw, salt, iter, i)[c + 1] = Prf(pw, ChainOf(pw, salt, iter, i)[(c + 1) - 1])
      BY <1>7, <3>1, Chained
    <3> QED
      BY <2>1, <3>1, <3>2 DEF Linked, hash
  <2>3. mem'["f"] = mem["f"]
    BY <1>3, <2>1 DEF BufferNames
  <2>4. Stretching' /\ Linked(c + 1)' /\ Folded' /\ c' = c /\ iter' = iter
    BY <1>0, <1>3, <2>1, <2>2, <2>3 DEF Stretching, Linked, Folded, args, counters
  <2> QED
    BY <1>4, <1>6, <2>1, <2>4 DEF StretchIInv, AtStep, Linked
<1>10. CASE ToSeed
  <2>1. /\ hmac.key = Zeros(HASH) /\ mem[hmac.msg] = ct /\ hmac.dst = "seed"
        /\ step' = "expand" /\ call = "decoy"
    BY <1>0, <1>10 DEF ToSeed
  <2>2. Decoying'
    BY <1>0, <1>3, <2>1 DEF Decoying, SeedOf, hash, args
  <2> QED
    BY <1>4, <1>6, <2>1, <2>2 DEF StretchIInv, AtStep
<1>11. CASE ToEmit
  <2>1. /\ hmac.key = SeedOf(ct) /\ mem[hmac.msg] = Bytes(counter) /\ hmac.dst = "block"
        /\ step' = "emit" /\ Decoying /\ made < outlen
    BY <1>0, <1>11 DEF ToEmit
  <2>2. hash = DecoyBlockOf(ct, made \div HASH)
    <3>1. counter = BigEndian(made \div HASH, HASH)
      BY <2>1 DEF StretchIInv, Counted, Decoying
    <3> QED
      BY <2>1, <3>1 DEF DecoyBlockOf, hash
  <2>3. mem'["seed"] = mem["seed"]
    BY <1>3, <2>1 DEF BufferNames
  <2>4. Decoying' /\ made' = made /\ outlen' = outlen
        /\ mem'["block"] = DecoyBlockOf(ct', made' \div HASH)
    BY <1>0, <1>3, <2>1, <2>2, <2>3 DEF Decoying, args, counters
  <2> QED
    BY <1>4, <1>6, <2>1, <2>4 DEF StretchIInv, AtStep
<1> QED
  BY <1>1, <1>8, <1>9, <1>10, <1>11 DEF Hashing

-----------------------------------------------------------------------------
(* A step of the routines that only fills a buffer, or only begins a hash. *)
LEMMA KeptByFilling ==
  StretchIInv /\ (NextBlock \/ FirstU \/ Iterate \/ XorU \/ DecoyBlock) => StretchIInv'
<1> SUFFICES ASSUME StretchIInv, NextBlock \/ FirstU \/ Iterate \/ XorU \/ DecoyBlock
             PROVE  StretchIInv'
  OBVIOUS
<1>0. iter \in Nat /\ outlen \in Nat
  BY CalledTypes DEF StretchIInv, StretchTypes
<1>1. /\ UNCHANGED <<args, made, i, counter, failed>> /\ step # "idle" /\ step' # "idle"
      /\ step # "returned" /\ step' # "returned"
  BY DEF NextBlock, FirstU, Iterate, XorU, DecoyBlock, Hmac, counters
<1>2. DOMAIN mem = BufferNames /\ failed = FALSE /\ failed' = FALSE
  BY <1>1 DEF StretchIInv, Called, AtStep
<1>3. DOMAIN mem' = DOMAIN mem /\ mem'["out"] = mem["out"]
  BY <1>2 DEF NextBlock, FirstU, Iterate, XorU, DecoyBlock, BufferNames
<1>4. Called' /\ Made' /\ Counted'
  BY <1>1, <1>3, CalledKept, MadeKept, CountedKept DEF StretchIInv
<1>5. made' = made /\ outlen' = outlen /\ call' = call /\ pw' = pw /\ salt' = salt
      /\ ct' = ct /\ iter' = iter /\ i' = i /\ counter' = counter
  BY <1>1 DEF args
<1>6. CASE NextBlock
  <2>1. /\ made < outlen /\ mem'["salt_i"] = First(salt, i) /\ step' = "inner"
        /\ hmac' = [key |-> pw, msg |-> "salt_i", dst |-> "u", then |-> "first"]
        /\ call = "pbkdf2"
    BY <1>2, <1>6 DEF NextBlock, Hmac, First, BufferNames, StretchIInv, AtStep
  <2>2. ToFirst'
    BY <1>5, <2>1 DEF ToFirst, Stretching
  <2>3. AtStep'
    BY <1>2, <2>1, <2>2 DEF AtStep, Hashing
  <2> QED
    BY <1>4, <2>3 DEF StretchIInv
<1>7. CASE FirstU
  <2>1. /\ mem'["f"] = mem["u"] /\ mem'["u"] = mem["u"] /\ c' = 1 /\ step' = "iterate"
        /\ Stretching /\ Linked(1)
    BY <1>2, <1>7 DEF FirstU, BufferNames, StretchIInv, AtStep
  <2>2. mem["u"] = Xored(pw, salt, iter, i, 1)
    BY <1>0, <2>1, XoredFirst DEF Linked
  <2>3. Stretching' /\ Linked(1)' /\ Folded'
    BY <1>5, <2>1, <2>2 DEF Stretching, Linked, Folded
  <2>4. 1 \in 1 .. Turns(iter)
    BY <1>0 DEF Turns
  <2>5. AtStep'
    BY <1>2, <1>5, <2>1, <2>3, <2>4 DEF AtStep, Linked
  <2> QED
    BY <1>4, <2>5 DEF StretchIInv
<1>8. CASE Iterate
  <2>1. /\ c < iter /\ step' = "inner" /\ mem' = mem /\ c' = c
        /\ hmac' = [key |-> pw, msg |-> "u", dst |-> "u", then |-> "xor"]
        /\ Stretching /\ c \in 1 .. Turns(iter) /\ Linked(c) /\ Folded
    BY <1>8 DEF Iterate, Hmac, counters, StretchIInv, AtStep
  <2>2. c \in 1 .. iter - 1
    <3>1. Turns(iter) \in Nat
      BY <1>0 DEF Turns
    <3> QED
      BY <1>0, <2>1, <3>1
  <2>3. ToXor'
    BY <1>5, <2>1, <2>2 DEF ToXor, Stretching, Linked, Folded
  <2>4. AtStep'
    BY <1>2, <2>1, <2>3 DEF AtStep, Hashing
  <2> QED
    BY <1>4, <2>4 DEF StretchIInv
<1>9. CASE XorU
  <2>1. /\ mem'["f"] = XorAll(mem["f"], mem["u"]) /\ mem'["u"] = mem["u"] /\ c' = c + 1
        /\ step' = "iterate" /\ Stretching /\ c \in 1 .. iter - 1 /\ Linked(c + 1) /\ Folded
    BY <1>2, <1>9 DEF XorU, BufferNames, StretchIInv, AtStep
  <2>2. salt \in StretchSalts /\ i \in Nat
    <3>1. made \in Nat /\ made \div HASH \in Nat
      <4>1. made \in Nat
        BY <1>0 DEF StretchIInv, Made
      <4> QED
        BY <4>1, Sizes, Divided
    <3>2. i = made \div HASH + 1 /\ salt \in StretchSalts
      BY <2>1 DEF StretchIInv, Counted, Called, Stretching
    <3> QED
      BY <3>1, <3>2
  <2>3. mem'["f"] = Xored(pw, salt, iter, i, c + 1)
    <3>1. c \in 1 .. iter
      BY <1>0, <2>1
    <3> QED
      BY <1>0, <2>1, <2>2, <3>1, XoredNext DEF Linked, Folded
  <2>4. Stretching' /\ Linked(c)' /\ Folded'
    BY <1>5, <2>1, <2>3 DEF Stretching, Linked, Folded
  <2>5. c' \in 1 .. Turns(iter')
    BY <1>0, <1>5, <2>1 DEF Turns
  <2>6. AtStep'
    BY <1>2, <2>1, <2>4, <2>5 DEF AtStep
  <2> QED
    BY <1>4, <2>6 DEF StretchIInv
<1>10. CASE DecoyBlock
  <2>1. /\ made < outlen /\ mem'["counter"] = Bytes(counter) /\ mem'["seed"] = mem["seed"]
        /\ hmac' = [key |-> mem["seed"], msg |-> "counter", dst |-> "block", then |-> "emit"]
        /\ step' = "inner" /\ Decoying
    BY <1>2, <1>10 DEF DecoyBlock, Hmac, BufferNames, StretchIInv, AtStep
  <2>2. ToEmit'
    BY <1>5, <2>1 DEF ToEmit, Decoying
  <2>3. AtStep'
    BY <1>2, <2>1, <2>2 DEF AtStep, Hashing
  <2> QED
    BY <1>4, <2>3 DEF StretchIInv
<1> QED
  BY <1>6, <1>7, <1>8, <1>9, <1>10
-----------------------------------------------------------------------------
(* The place after a block.                                                *)
After(m, w, len) == IF len - m < w THEN len ELSE m + w

(* The counters stay aligned for as long as there is more to make.         *)
LEMMA AfterBlock ==
  \A m, len \in Nat, w \in Nat \ {0} : m < len /\ m % w = 0 =>
    /\ After(m, w, len) \in 0 .. len
    /\ After(m, w, len) < len =>
         /\ After(m, w, len) % w = 0 /\ After(m, w, len) \div w = (m \div w) + 1
    /\ \A j \in 1 .. len : j > After(m, w, len) => j \notin m + 1 .. m + w /\ j > m
    /\ \A j \in 1 .. len : ~(j > After(m, w, len)) /\ j \notin m + 1 .. m + w => ~(j > m)
    /\ \A j \in 1 .. len : j \in m + 1 .. m + w => ~(j > After(m, w, len))
<1> SUFFICES ASSUME NEW m \in Nat, NEW len \in Nat, NEW w \in Nat \ {0}, m < len, m % w = 0
             PROVE
    /\ After(m, w, len) \in 0 .. len
    /\ After(m, w, len) < len =>
         /\ After(m, w, len) % w = 0 /\ After(m, w, len) \div w = (m \div w) + 1
    /\ \A j \in 1 .. len : j > After(m, w, len) => j \notin m + 1 .. m + w /\ j > m
    /\ \A j \in 1 .. len : ~(j > After(m, w, len)) /\ j \notin m + 1 .. m + w => ~(j > m)
    /\ \A j \in 1 .. len : j \in m + 1 .. m + w => ~(j > After(m, w, len))
  OBVIOUS
<1>1. (m + w) % w = 0 /\ (m + w) \div w = (m \div w) + 1
  BY BlockPlaces
<1>2. After(m, w, len) < len => After(m, w, len) = m + w
  BY DEF After
<1>3. /\ After(m, w, len) \in 0 .. len
      /\ \A j \in 1 .. len : j > After(m, w, len) => j \notin m + 1 .. m + w /\ j > m
      /\ \A j \in 1 .. len : ~(j > After(m, w, len)) /\ j \notin m + 1 .. m + w => ~(j > m)
      /\ \A j \in 1 .. len : j \in m + 1 .. m + w => ~(j > After(m, w, len))
  BY DEF After
<1> QED
  BY <1>1, <1>2, <1>3

(* What emitting a block does to the output.                               *)
LEMMA EmittedIs ==
  ASSUME NEW from, Made, made < outlen, outlen \in Nat,
         \A j \in made + 1 .. made + HASH : mem[from][j - made] = Specified(j)
  PROVE  /\ Emitted(from) = [j \in 1 .. outlen |-> IF j > MadeNext THEN Old ELSE Specified(j)]
         /\ MadeNext \in 0 .. outlen
         /\ MadeNext < outlen => /\ MadeNext % HASH = 0
                                 /\ MadeNext \div HASH = (made \div HASH) + 1
<1>1. made \in Nat /\ made % HASH = 0 /\ HASH \in Nat \ {0}
  BY Sizes DEF Made
<1>2. MadeNext = After(made, HASH, outlen)
  BY DEF MadeNext, After
<1> DEFINE n == After(made, HASH, outlen)
<1>3. /\ n \in 0 .. outlen
      /\ n < outlen => n % HASH = 0 /\ n \div HASH = (made \div HASH) + 1
      /\ \A j \in 1 .. outlen : j > n => j \notin made + 1 .. made + HASH /\ j > made
      /\ \A j \in 1 .. outlen : ~(j > n) /\ j \notin made + 1 .. made + HASH => ~(j > made)
      /\ \A j \in 1 .. outlen : j \in made + 1 .. made + HASH => ~(j > n)
  BY <1>1, AfterBlock
<1> HIDE DEF n
<1>4. ASSUME NEW j \in 1 .. outlen
      PROVE  (IF j \in made + 1 .. made + HASH THEN mem[from][j - made] ELSE mem.out[j])
             = IF j > n THEN Old ELSE Specified(j)
  <2>1. mem.out[j] = IF j > made THEN Old ELSE Specified(j)
    BY DEF Made
  <2> QED
    BY <1>3, <2>1
<1>5. Emitted(from) = [j \in 1 .. outlen |-> IF j > n THEN Old ELSE Specified(j)]
  BY <1>4 DEF Emitted
<1> QED
  BY <1>2, <1>3, <1>5 DEF n

(* A block of choi_pbkdf2_hmac_sha256 is copied out, in full or cut short. *)
LEMMA KeptByEmitBlock == StretchIInv /\ EmitBlock => StretchIInv'
<1> SUFFICES ASSUME StretchIInv, EmitBlock PROVE StretchIInv'
  OBVIOUS
<1>0. iter \in Nat /\ outlen \in Nat
  BY CalledTypes DEF StretchIInv, StretchTypes
<1>1. /\ step = "iterate" /\ c >= iter /\ step' = "block"
      /\ mem' = [mem EXCEPT !["out"] = Emitted("f")]
      /\ made' = MadeNext /\ i' = i + 1
      /\ UNCHANGED <<args, c, counter, failed>>
      /\ Stretching /\ c \in 1 .. Turns(iter) /\ Folded
  BY DEF EmitBlock, StretchIInv, AtStep
<1>2. DOMAIN mem = BufferNames /\ failed = FALSE
  BY <1>1 DEF StretchIInv, Called, AtStep
<1>3. DOMAIN mem' = BufferNames /\ mem'["out"] = Emitted("f")
  BY <1>1, <1>2 DEF BufferNames
<1>4. made \in Nat /\ made % HASH = 0 /\ HASH \in Nat \ {0} /\ made < outlen
      /\ i = made \div HASH + 1 /\ call = "pbkdf2"
  BY <1>0, <1>1, Sizes DEF StretchIInv, Made, Counted, Stretching
<1>5. c = Turns(iter)
  BY <1>0, <1>1 DEF Turns
<1>6. \A j \in made + 1 .. made + HASH : mem["f"][j - made] = Specified(j)
  <2> SUFFICES ASSUME NEW j \in made + 1 .. made + HASH
               PROVE  mem["f"][j - made] = Specified(j)
    OBVIOUS
  <2>1. (j - 1) \div HASH = made \div HASH /\ (j - 1) % HASH = j - 1 - made
    BY <1>4, BlockPlaces
  <2>2. ((j - 1) % HASH) + 1 = j - made
    BY <1>4, <2>1
  <2> QED
    BY <1>1, <1>4, <1>5, <2>1, <2>2 DEF Specified, Derived, Folded
<1>7. /\ Emitted("f") = [j \in 1 .. outlen |-> IF j > MadeNext THEN Old ELSE Specified(j)]
      /\ MadeNext \in 0 .. outlen
      /\ MadeNext < outlen => /\ MadeNext % HASH = 0
                              /\ MadeNext \div HASH = (made \div HASH) + 1
  BY <1>0, <1>4, <1>6, EmittedIs DEF StretchIInv
<1>8. outlen' = outlen /\ call' = call /\ \A j : Specified(j)' = Specified(j)
  BY <1>1 DEF args, Specified
<1>9. Made'
  BY <1>1, <1>3, <1>7, <1>8 DEF Made
<1>10. Counted'
  <2>1. made \div HASH \in Nat
    BY <1>4, Divided
  <2>2. made' < outlen' => i' = made' \div HASH + 1
    BY <1>1, <1>4, <1>7, <1>8, <2>1
  <2>3. counter' = counter /\ counter \in [1 .. HASH -> 0 .. BASE - 1]
    BY <1>1 DEF StretchIInv, Counted
  <2> QED
    BY <1>4, <1>8, <2>2, <2>3 DEF Counted
<1>11. Called'
  BY <1>1, <1>2, <1>3, CalledKept DEF StretchIInv
<1>12. AtStep'
  BY <1>1, <1>2, <1>4, <1>8 DEF AtStep
<1> QED
  BY <1>9, <1>10, <1>11, <1>12 DEF StretchIInv

(* A block of choi_generate_decoy, and the carry loop behind it.           *)
LEMMA KeptByDecoyEmit == StretchIInv /\ DecoyEmit => StretchIInv'
<1> SUFFICES ASSUME StretchIInv, DecoyEmit PROVE StretchIInv'
  OBVIOUS
<1>0. outlen \in Nat
  BY CalledTypes DEF StretchIInv, StretchTypes
<1>1. /\ step = "emit" /\ step' = "expand"
      /\ mem' = [mem EXCEPT !["out"] = Emitted("block")]
      /\ made' = MadeNext /\ counter' = Incremented
      /\ UNCHANGED <<args, i, c, failed>>
      /\ Decoying /\ made < outlen /\ mem["block"] = DecoyBlockOf(ct, made \div HASH)
  BY DEF DecoyEmit, StretchIInv, AtStep
<1>2. DOMAIN mem = BufferNames /\ failed = FALSE
  BY <1>1 DEF StretchIInv, Called, AtStep
<1>3. DOMAIN mem' = BufferNames /\ mem'["out"] = Emitted("block") /\ mem'["seed"] = mem["seed"]
  BY <1>1, <1>2 DEF BufferNames
<1>4. made \in Nat /\ made % HASH = 0 /\ HASH \in Nat \ {0}
      /\ counter = BigEndian(made \div HASH, HASH) /\ call = "decoy"
  BY <1>0, <1>1, Sizes DEF StretchIInv, Made, Counted, Decoying
<1>5. \A j \in made + 1 .. made + HASH : mem["block"][j - made] = Specified(j)
  <2> SUFFICES ASSUME NEW j \in made + 1 .. made + HASH
               PROVE  mem["block"][j - made] = Specified(j)
    OBVIOUS
  <2>1. (j - 1) \div HASH = made \div HASH /\ (j - 1) % HASH = j - 1 - made
    BY <1>4, BlockPlaces
  <2>2. ((j - 1) % HASH) + 1 = j - made
    BY <1>4, <2>1
  <2> QED
    BY <1>1, <1>4, <2>1, <2>2 DEF Specified, Decoyed
<1>6. /\ Emitted("block") = [j \in 1 .. outlen |-> IF j > MadeNext THEN Old ELSE Specified(j)]
      /\ MadeNext \in 0 .. outlen
      /\ MadeNext < outlen => /\ MadeNext % HASH = 0
                              /\ MadeNext \div HASH = (made \div HASH) + 1
  BY <1>0, <1>1, <1>5, EmittedIs DEF StretchIInv
<1>7. outlen' = outlen /\ call' = call /\ ct' = ct /\ \A j : Specified(j)' = Specified(j)
  BY <1>1 DEF args, Specified
<1>8. Made'
  BY <1>1, <1>3, <1>6, <1>7 DEF Made
<1>9. Counted'
  <2>1. made \div HASH \in Nat /\ (made \div HASH) + 1 \in Nat
    <3>1. made \div HASH \in Nat
      BY <1>4, Divided
    <3> QED
      BY <3>1
  <2>2. counter' = BigEndian((made \div HASH) + 1, HASH)
    <3>1. counter' = CountedOn(counter)
      BY <1>1 DEF Incremented, CountedOn
    <3>2. CountedOn(BigEndian(made \div HASH, HASH)) = BigEndian((made \div HASH) + 1, HASH)
      BY <2>1, CarryCounts
    <3> QED
      BY <1>4, <3>1, <3>2
  <2>3. counter' \in [1 .. HASH -> 0 .. BASE - 1]
    BY <1>4, <2>1, <2>2, BigEndianType
  <2>4. made' < outlen' => counter' = BigEndian(made' \div HASH, HASH)
    BY <1>1, <1>6, <1>7, <2>2
  <2> QED
    BY <1>4, <1>7, <2>3, <2>4 DEF Counted
<1>10. Called'
  BY <1>1, <1>2, <1>3, CalledKept DEF StretchIInv
<1>11. AtStep'
  <2>1. Decoying'
    BY <1>1, <1>3, <1>7 DEF Decoying
  <2> QED
    BY <1>1, <1>2, <2>1 DEF AtStep
<1> QED
  BY <1>8, <1>9, <1>10, <1>11 DEF StretchIInv
-----------------------------------------------------------------------------
(* The end of either routine.                                              *)
LEMMA KeptByReturn == StretchIInv /\ StretchReturn => StretchIInv'
<1> SUFFICES ASSUME StretchIInv, StretchReturn PROVE StretchIInv'
  OBVIOUS
<1>1. /\ step \in {"block", "expand"} /\ made >= outlen /\ step' = "returned"
      /\ UNCHANGED <<args, mem, counters, hmac, inner, failed>>
  BY DEF StretchReturn
<1>2. failed = FALSE /\ made = outlen
  <2>1. outlen \in Nat
    BY CalledTypes DEF StretchIInv, StretchTypes
  <2> QED
    BY <1>1, <2>1 DEF StretchIInv, AtStep, Made
<1>3. Called' /\ Made' /\ Counted'
  BY <1>1, CalledKept, MadeKept, CountedKept DEF StretchIInv, counters
<1>4. AtStep'
  BY <1>1, <1>2 DEF AtStep, args, counters
<1> QED
  BY <1>3, <1>4 DEF StretchIInv

(* No step at all.                                                         *)
LEMMA KeptByStutter == StretchIInv /\ UNCHANGED stretchVars => StretchIInv'
  BY DEF StretchIInv, stretchVars, args, counters, Called, Made, Counted, AtStep, Hashing,
         ToFirst, ToXor, ToSeed, ToEmit, Stretching, Decoying, Linked, Folded, Specified

(* The invariant holds throughout a call of choi_pbkdf2_hmac_sha256 or     *)
(* choi_generate_decoy.                                                    *)
THEOREM StretchInvariant == StretchSpec => []StretchIInv
<1>1. StretchIInv /\ [StretchNext]_stretchVars => StretchIInv'
  <2> SUFFICES ASSUME StretchIInv, [StretchNext]_stretchVars PROVE StretchIInv'
    OBVIOUS
  <2>1. CASE HmacInner
    BY <2>1, KeptByInner
  <2>2. CASE HmacOuter
    BY <2>2, KeptByOuter
  <2>3. CASE StretchReturn
    BY <2>3, KeptByReturn
  <2>4. CASE Pbkdf2Call \/ DecoyCall
    BY <2>4, KeptByCalls
  <2>5. CASE NextBlock \/ FirstU \/ Iterate \/ XorU \/ DecoyBlock
    BY <2>5, KeptByFilling
  <2>6. CASE EmitBlock
    BY <2>6, KeptByEmitBlock
  <2>7. CASE DecoyEmit
    BY <2>7, KeptByDecoyEmit
  <2>8. CASE UNCHANGED stretchVars
    BY <2>8, KeptByStutter
  <2> QED
    BY <2>1, <2>2, <2>3, <2>4, <2>5, <2>6, <2>7, <2>8 DEF StretchNext, StretchReturned
<1> QED
  BY <1>1, KeptInitially, PTL DEF StretchSpec
-----------------------------------------------------------------------------
(* What is specified is never what was there before.                       *)
LEMMA SpecifiedNew ==
  ASSUME iter \in Nat PROVE \A j \in Nat \ {0} : Specified(j) # Old
  BY DerivedNew, DecoyedNew DEF Specified

(* Neither routine makes more bytes than it was asked for, and those not   *)
(* made yet are as the caller left them: the copy of the last block of     *)
(* choi_pbkdf2_hmac_sha256 and choi_generate_decoy never runs over.        *)
THEOREM StretchTypeCorrect == StretchSpec => []StretchTypeOK
<1>1. StretchIInv => StretchTypeOK
  <2> SUFFICES ASSUME StretchIInv PROVE StretchTypeOK
    OBVIOUS
  <2>0. iter \in Nat /\ outlen \in Nat
    BY CalledTypes DEF StretchIInv, StretchTypes
  <2>1. call \in {"none", "pbkdf2", "decoy"}
    BY DEF StretchIInv, Called
  <2>2. /\ made \in 0 .. outlen
        /\ mem["out"] = [j \in 1 .. outlen |-> IF j > made THEN Old ELSE Specified(j)]
    BY DEF StretchIInv, Made
  <2>3. \A j \in 1 .. outlen : Specified(j) # Old
    BY <2>0, SpecifiedNew
  <2>4. \A j \in 1 .. outlen : mem["out"][j] = IF j > made THEN Old ELSE Specified(j)
    BY <2>2
  <2>5. DOMAIN mem["out"] = 1 .. outlen
    BY <2>2
  <2>6. counter \in [1 .. HASH -> 0 .. BASE - 1]
    BY DEF StretchIInv, Counted
  <2> QED
    BY <2>1, <2>2, <2>3, <2>4, <2>5, <2>6 DEF StretchTypeOK
<1> QED
  BY <1>1, StretchInvariant, PTL

(* The standards, in the terms of the invariant.                           *)
LEMMA DecoyByteIs == \A j : DecoyByte(j) = Decoyed(ct, j)
  BY DEF DecoyByte, Decoyed, DecoyBlockOf, SeedOf

(* The same for what RFC 8018 derives.                                     *)
LEMMA DerivedByteIs ==
  ASSUME iter \in Nat
  PROVE  \A j \in Nat \ {0} : DerivedByte(j) = Derived(pw, salt, iter, j)
<1> SUFFICES ASSUME NEW j \in Nat \ {0}
             PROVE  DerivedByte(j) = Derived(pw, salt, iter, j)
  OBVIOUS
<1> DEFINE b == (j - 1) \div HASH + 1
           q == ((j - 1) % HASH) + 1
           u == ChainOf(pw, salt, iter, b)
<1>1. u = Chain(b)
  BY DEF ChainOf, Chain, First
<1>2. q \in 1 .. HASH
  BY Places
<1>3. DerivedByte(j) = UNION {Chain(b)[n][q] : n \in {1} \cup 1 .. iter}
  BY DEF DerivedByte
<1>4. Derived(pw, salt, iter, j) = Xored(pw, salt, iter, b, Turns(iter))[q]
  BY DEF Derived
<1> HIDE DEF b, q
<1>5. Xored(pw, salt, iter, b, Turns(iter))[q] = UNION {u[n][q] : n \in 1 .. Turns(iter)}
  BY <1>2, XoredIs
<1> HIDE DEF u
<1>6. {1} \cup 1 .. iter = 1 .. Turns(iter)
  BY DEF Turns
<1> QED
  BY <1>1, <1>3, <1>4, <1>5, <1>6

(* What choi_pbkdf2_hmac_sha256 and choi_generate_decoy return is PBKDF2   *)
(* with HMAC, and HMAC in counter mode, byte for byte: for any password    *)
(* and salt, any count of iterations, any length. If malloc fails, nothing *)
(* is written.                                                             *)
THEOREM OutputIsSpecified == StretchSpec => []OutputAsSpecified
<1>1. StretchIInv => OutputAsSpecified
  <2> SUFFICES ASSUME StretchIInv, step = "returned"
               PROVE  mem["out"] = [j \in 1 .. outlen |-> IF failed THEN Old
                                      ELSE IF call = "decoy" THEN DecoyByte(j)
                                      ELSE DerivedByte(j)]
    BY DEF OutputAsSpecified
  <2>0. iter \in Nat /\ outlen \in Nat
    BY CalledTypes DEF StretchIInv, StretchTypes
  <2>1. mem["out"] = [j \in 1 .. outlen |-> IF j > made THEN Old ELSE Specified(j)]
    BY DEF StretchIInv, Made
  <2>2. IF failed THEN made = 0 ELSE made = outlen
    BY DEF StretchIInv, AtStep
  <2>3. \A j \in 1 .. outlen :
          Specified(j) = IF call = "decoy" THEN DecoyByte(j) ELSE DerivedByte(j)
    BY <2>0, DecoyByteIs, DerivedByteIs DEF Specified
  <2>4. CASE failed
    BY <2>0, <2>1, <2>2, <2>4
  <2>5. CASE ~failed
    BY <2>0, <2>1, <2>2, <2>3, <2>5
  <2> QED
    BY <2>4, <2>5
<1> QED
  BY <1>1, StretchInvariant, PTL

(* No byte of an output of either routine is a byte that it already had:   *)
(* the keys that choi_derive_keys cuts out of one output have nothing in   *)
(* common, and a decoy does not repeat itself.                             *)
THEOREM BlocksDiffer == StretchSpec => []NoBlockTwice
<1>1. StretchIInv => NoBlockTwice
  <2> SUFFICES ASSUME StretchIInv, step = "returned", ~failed,
                      NEW j \in 1 .. outlen, NEW k \in 1 .. outlen,
                      mem["out"][j] = mem["out"][k]
               PROVE  j = k
    BY DEF NoBlockTwice
  <2>0. iter \in Nat /\ outlen \in Nat
    BY CalledTypes DEF StretchIInv, StretchTypes
  <2>1. made = outlen
    BY DEF StretchIInv, AtStep
  <2>2. \A l \in 1 .. outlen : mem["out"][l] = Specified(l)
    BY <2>0, <2>1 DEF StretchIInv, Made
  <2>3. Specified(j) = Specified(k)
    BY <2>2
  <2>4. AllFit(outlen)
    BY AskedFits DEF StretchIInv, Called
  <2>5. CASE call = "decoy"
    BY <2>3, <2>4, <2>5, DecoyedApart DEF Specified
  <2>6. CASE call # "decoy"
    <3>1. salt \in StretchSalts
      BY <2>6 DEF StretchIInv, Called
    <3> QED
      BY <2>0, <2>3, <2>4, <2>6, <3>1, DerivedApart DEF Specified
  <2> QED
    BY <2>5, <2>6
<1> QED
  BY <1>1, StretchInvariant, PTL
=============================================================================
