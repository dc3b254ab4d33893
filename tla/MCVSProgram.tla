---------------------------- MODULE MCVSProgram -----------------------------
(***************************************************************************)
(* The machine with bytes of 4 bits: 13 opcodes, two numbers that are none *)
(* and HALT, so any byte is an opcode under some twist.  Two instructions  *)
(* in every combination, over operands that name a register, wrap, or      *)
(* reach the rewrite buffer.                                               *)
(***************************************************************************)
EXTENDS VSProgram, Bitwise

(* A table, which TLC evaluates once. *)
XorTable == [p \in (0 .. 15) \X (0 .. 15) |-> p[1] ^^ p[2]]
MCXor(a, b) == XorTable[<<a, b>>]

MCSBox == [b \in 0 .. 15 |-> (7 * b + 3) % 16]

MCHmac(k, m) == [i \in DOMAIN k |-> (k[i] + 3 * m[i] + 5 + i) % 16]

MCEntropy == {[i \in 0 .. 1 |-> 9 + i]}

MCPrograms == {<<x, a, b, y, c>> : x, y \in 0 .. 15, a \in {1, 6, 15},
                                   b \in {6, 15}, c \in {1, 15}}

Shuffled == [b \in 0 .. 15 |-> (5 * b + 2) % 16]
MCMaps == {[b \in 0 .. 15 |-> b], Shuffled}

(* Other bytecode for a later vs_run: a PATCH that fills the buffer behind *)
(* it, and none at all, so that the buffer is the whole image.             *)
MCLater == {<<>>, <<12, 3, 6>>}

MCSeeds == {[i \in 0 .. 1 |-> IF i = 0 THEN 6 ELSE 0]}
MCLoadRegs == {0}
MCUserBanks == {5}
=============================================================================
