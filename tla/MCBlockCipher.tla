--------------------------- MODULE MCBlockCipher ----------------------------
(***************************************************************************)
(* BlockCipher at its real size: bytes of 8 bits modulo 0x11b, 14 rounds,  *)
(* S-boxes that are the AES table and a shuffle of it, two keys, and in    *)
(* both builds the zero block and blocks with one byte set.                *)
(***************************************************************************)
EXTENDS BlockCipher, AesSBox

MCPoly == {0, 1, 3, 4}

BitsOfByte(n) == {b \in 0 .. 7 : (n \div 2^b) % 2 = 1}
ByteOf  == [n \in 0 .. 255 |-> BitsOfByte(n)]
ByteNumber   == [s \in SUBSET (0 .. 7) |-> CHOOSE n \in 0 .. 255 : ByteOf[n] = s]

MCSBoxes == {[x \in Byte |-> ByteOf[AesTable[((p[1] * ByteNumber[x] + p[2]) % 256) + 1]]] :
              p \in {<<1, 0>>, <<77, 19>>}}

MCKeys == {[n \in 0 .. 31 |-> ByteOf[(a * n * n + 5 * n) % 256]] : a \in {0, 3}}

Blank == [i \in Position |-> {}]
MCInputs == {[Blank EXCEPT ![i] = ByteOf[v]] : i \in Position, v \in {0, 1, 128}}
=============================================================================
