------------------------------- MODULE Sha256 -------------------------------
(***************************************************************************)
(* The streaming interface of SHA-256 in choi_common.h: a context that is  *)
(* initialised, updated byte by byte and finished.  What the compression   *)
(* function computes is left out; what is fed to it is kept, block for     *)
(* block, for that is what the buffer, the two counters and the two ways   *)
(* of padding have to get right.                                           *)
(*                                                                         *)
(* choi_sha256_update does nothing per call, only per byte, so a message   *)
(* handed over in pieces is a message handed over byte by byte.            *)
(***************************************************************************)
EXTENDS Integers, Sequences

CONSTANTS MsgByte,     \* anything a byte can be, 0 .. 255 among it
          Message,     \* the bytes there are to hash; any prefix may be
          Width,       \* of bitlen, which counts modulo it: 2^64
          Garbage      \* what the uninitialised buffer may hold

BLOCK == 64            \* bytes in a block, in its
FIELD == 8             \*   length field, and
BITS  == 8             \*   bits in a byte
Index == 0 .. BLOCK - 1

ASSUME MessageAssumption ==
  /\ 0 .. 255 \subseteq MsgByte
  /\ Message \in Seq(MsgByte) /\ Width \in Nat \ {0}
  /\ Garbage \subseteq [Index -> MsgByte]

(* bitlen has no more bytes than the length field. *)
ASSUME WidthAssumption ==
  LET by(n) == n \div 256 IN by(by(by(by(by(by(by(by(Width - 1)))))))) = 0

VARIABLES pc, absorbed,           \* bytes of Message taken so far
          data, datalen, bitlen,  \* the context,
          blocks                  \* its state: the blocks compressed

vars == <<pc, absorbed, data, datalen, bitlen, blocks>>

Block == [Index -> MsgByte]
Pad   == 128                      \* the byte 0x80

(* choi_sha256_init, on a context that holds garbage. *)
Init == /\ pc = "update" /\ absorbed = 0
        /\ data \in Garbage
        /\ datalen = 0 /\ bitlen = 0 /\ blocks = <<>>

(***************************************************************************)
(* One turn of the loop of choi_sha256_update.                             *)
(***************************************************************************)
Stored == [data EXCEPT ![datalen] = Message[absorbed + 1]]

FillNoReset == datalen + 1                      \* mutant of Fill

Fill == IF datalen + 1 = BLOCK THEN 0 ELSE datalen + 1

Update ==
  /\ pc = "update" /\ absorbed < Len(Message)
  /\ absorbed' = absorbed + 1
  /\ data' = Stored
  /\ datalen' = Fill
  /\ IF datalen + 1 = BLOCK
     THEN /\ blocks' = Append(blocks, Stored)
          /\ bitlen' = (bitlen + BITS * BLOCK) % Width
     ELSE UNCHANGED <<bitlen, blocks>>
  /\ UNCHANGED pc

(***************************************************************************)
(* choi_sha256_final: 0x80 and zeros, up to the length field or, when the  *)
(* field would not fit behind them, to the end of a block of their own.    *)
(***************************************************************************)
FitsOffByOne == datalen <= BLOCK - FIELD        \* mutant of Fits

Fits == datalen < BLOCK - FIELD

PaddedTo(end) ==
  [i \in Index |-> IF i = datalen THEN Pad
                   ELSE IF i > datalen /\ i < end THEN 0 ELSE data[i]]

FinalPad ==
  /\ pc = "update"
  /\ pc' = "length"
  /\ IF Fits
     THEN data' = PaddedTo(BLOCK - FIELD) /\ UNCHANGED blocks
     ELSE /\ blocks' = Append(blocks, PaddedTo(BLOCK))
          /\ data' = [i \in Index |-> IF i < BLOCK - FIELD THEN 0
                                      ELSE PaddedTo(BLOCK)[i]]
  /\ UNCHANGED <<absorbed, datalen, bitlen>>

(* The bits counted at the block boundaries and those in the buffer, as a   *)
(* big-endian number in the last bytes.                                     *)
LengthByteSwapped(bits, i) ==                    \* mutant of LengthByte
  LET by8     == bits \div 256    by16 == by8 \div 256
      shifted == <<0, 0, 0, 0, 0, by16, bits, by8>>
  IN  shifted[i - (BLOCK - FIELD) + 1] % 256

LengthByte(bits, i) ==
  LET by8  == bits \div 256    by16 == by8  \div 256    by24 == by16 \div 256
      by32 == by24 \div 256    by40 == by32 \div 256    by48 == by40 \div 256
      by56 == by48 \div 256
      shifted == <<by56, by48, by40, by32, by24, by16, by8, bits>>
  IN  shifted[i - (BLOCK - FIELD) + 1] % 256

Bits == (bitlen + BITS * datalen) % Width

FinalLength ==
  LET last == [i \in Index |-> IF i < BLOCK - FIELD THEN data[i]
                               ELSE LengthByte(Bits, i)]
  IN  /\ pc = "length"
      /\ pc' = "done"
      /\ bitlen' = Bits /\ data' = last
      /\ blocks' = Append(blocks, last)
      /\ UNCHANGED <<absorbed, datalen>>

Done == pc = "done" /\ UNCHANGED vars

Next == Update \/ FinalPad \/ FinalLength \/ Done

Spec == Init /\ [][Next]_vars
-----------------------------------------------------------------------------
(* The buffer's fill level stays below a block, both counters in width.     *)
TypeOK ==
  /\ pc \in {"update", "length", "done"}
  /\ absorbed \in 0 .. Len(Message)
  /\ data \in Block /\ datalen \in Index /\ bitlen \in 0 .. Width - 1
  /\ blocks \in Seq(Block)

(***************************************************************************)
(* The padded message of the standard: 0x80 behind its n bytes, zeros, and *)
(* the field at the end of a number of whole blocks that holds them all.   *)
(***************************************************************************)
Blocks(n) == (n + FIELD) \div BLOCK + 1

PaddedByte(n, k) == IF k < n THEN Message[k + 1] ELSE IF k = n THEN Pad ELSE 0

(* The number that stands in a block's field, its first byte the highest.   *)
FieldNumber(block) ==
  LET f(k) == block[BLOCK - FIELD + k]
      h2 == 256 * f(0) + f(1)    h3 == 256 * h2 + f(2)    h4 == 256 * h3 + f(3)
      h5 == 256 * h4 + f(4)      h6 == 256 * h5 + f(5)    h7 == 256 * h6 + f(6)
  IN  256 * h7 + f(7)

InField(b, i) == b = Len(blocks) /\ i >= BLOCK - FIELD

(* A finished hash has compressed exactly the padded message: nothing of    *)
(* the buffer's garbage or of earlier blocks shows through the padding, no  *)
(* block is missing at the lengths where the padding spills over, and the   *)
(* field is the number of bits of the message, whole blocks and the rest    *)
(* counted once.                                                            *)
HashesPaddedMessage ==
  pc = "done" =>
    /\ Len(blocks) = Blocks(absorbed)
    /\ \A b \in 1 .. Len(blocks), i \in Index :
         IF InField(b, i) THEN blocks[b][i] \in 0 .. 255
         ELSE blocks[b][i] = PaddedByte(absorbed, BLOCK * (b - 1) + i)
    /\ FieldNumber(blocks[Len(blocks)]) = (BITS * absorbed) % Width
=============================================================================
