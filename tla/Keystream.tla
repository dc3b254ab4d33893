----------------------------- MODULE Keystream ------------------------------
(***************************************************************************)
(* What the cipher engine of choi_common.h promises its callers: there is  *)
(* one key, the last one derived, and choi_transform xors byte o of the    *)
(* caller's buffer with byte o % BLOCK_SIZE of the cipher of the number    *)
(* nonce + o \div BLOCK_SIZE.  A byte is the set of keystream bytes xored  *)
(* over it, so a second transform under the same key and nonce takes the   *)
(* first one back.  Before any key was derived nothing is transformed.     *)
(***************************************************************************)
EXTENDS Naturals, FiniteSetsExt

CONSTANTS MasterKeys, NoKey,
          BLOCK_SIZE,  \* CHOI_BLOCK_SIZE
          Numbers,     \* how many numbers a block can stand for: 2^128
          Length       \* bytes in the buffer

VARIABLES key, data

Pad(k, nonce, o) == <<k, (nonce + (o \div BLOCK_SIZE)) % Numbers, o % BLOCK_SIZE>>

Init == key = NoKey /\ data = [o \in 0 .. Length - 1 |-> {}]

Derive(k) == key' = k /\ UNCHANGED data

Transform(nonce) ==
  /\ key # NoKey
  /\ data' = [o \in DOMAIN data |-> SymDiff(data[o], {Pad(key, nonce, o)})]
  /\ UNCHANGED key

Next == \/ \E k \in MasterKeys : Derive(k)
        \/ \E n \in 0 .. Numbers - 1 : Transform(n)

Spec == Init /\ [][Next]_<<key, data>>
=============================================================================
