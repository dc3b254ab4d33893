---------------------------- MODULE MCVSClients -----------------------------
(***************************************************************************)
(* The callers at full size: bytes of 8 bits, registers of 16 bytes.       *)
(* Inputs have any first byte and zeros after it.                          *)
(***************************************************************************)
EXTENDS VSClients, AesSBox, Bitwise

MCXor(a, b) == a ^^ b
MCSBox == [b \in 0 .. 255 |-> AesTable[b + 1]]
MCHmac(k, m) == [i \in DOMAIN k |-> (k[i] + 3 * m[i] + 5 + i) % 256]
MCEntropy == {[i \in 0 .. 15 |-> 77 + i]}
MCInputs == {[i \in 0 .. 15 |-> IF i = 0 THEN v ELSE 0] : v \in 0 .. 255}
=============================================================================
