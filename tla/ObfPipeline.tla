----------------------------- MODULE ObfPipeline ----------------------------
(***************************************************************************)
(* obf_pipeline_encrypt, obf_pipeline_decrypt and obf_init_round_keys, on  *)
(* one state and one array of round keys, called in any order with any     *)
(* seed and round count.  A round is the P-box, the three instructions of  *)
(* its bytecode, and the injection of its key, which makes the next one.   *)
(* A byte is a set of bits, so xor is symmetric difference.                *)
(***************************************************************************)
EXTENDS Integers, FiniteSets

CONSTANTS OBF_MAX_ROUNDS,       \* 64
          ObfSeeds,
          KeyMap(_, _),         \* byte i of what expand_key_tent_map makes of a seed
          PBox(_), InvPBox(_),  \* what generate_dynamic_pbox makes of a byte
          ObfSBox(_), ObfInvSBox(_),
          ObfBlocks,            \* the states tried,
          RoundCounts,          \*   the values of num_rounds
          MaxObfCalls

Bit     == 0 .. 7
ObfByte == SUBSET Bit
Pos     == 0 .. 15
Block   == [Pos -> ObfByte]
Wire    == 0 .. 127             \* the bits of a block
Rows    == 0 .. OBF_MAX_ROUNDS - 1

ASSUME ObfAssumption ==
  /\ OBF_MAX_ROUNDS \in Nat \ {0} /\ MaxObfCalls \in Nat
  /\ RoundCounts \subseteq Int /\ ObfBlocks \subseteq Block
  /\ \A s \in ObfSeeds : /\ \A i \in Pos : KeyMap(s, i) \in ObfByte
                         /\ \A r \in Rows : KeyMap(s, 16 * r) \in ObfByte
  /\ \A x \in ObfByte : /\ ObfSBox(x) \in ObfByte /\ ObfInvSBox(x) \in ObfByte
                        /\ ObfInvSBox(ObfSBox(x)) = x
  /\ \A c \in ObfByte :
       LET p == PBox(c)
           q == InvPBox(c)
       IN  p \in [Wire -> Wire] /\ q \in [Wire -> Wire] /\ \A w \in Wire : q[p[w]] = w

VARIABLES block,        \* the state
          rows,         \* round_keys
          job,          \* "encrypt", within a round "inject", "decrypt" or "none"
          seed, n,      \* the arguments of the last call that did not return at once
          round,        \* the rounds that the block has been through
          jobs,         \* calls so far
          made,         \* ghost: seed and n of the last encryption, if any,
          used,         \*   its round keys,
          path,         \*   the blocks between its rounds,
          follows       \*   and whether block is on that path

obfVars == <<block, rows, job, seed, n, round, jobs, made, used, path, follows>>

XorBits(x, y) == (x \ y) \cup (y \ x)

(* The number that a byte is. *)
NumberOf(x) ==
  LET worth(b, v) == IF b \in x THEN v ELSE 0
  IN  worth(0, 1) + worth(1, 2) + worth(2, 4) + worth(3, 8)
      + worth(4, 16) + worth(5, 32) + worth(6, 64) + worth(7, 128)

(* (x << k) | (x >> (8 - k)), cut to a byte. *)
RolBits(x, k) == {b \in Bit : b - k \in x \/ b + 8 - k \in x}

(* apply_pbox: bit i of the block becomes bit p[i]. *)
ApplyPBox(p, s) ==
  LET out == UNION {{p[8 * d + b] : b \in s[d]} : d \in Pos}
  IN  [d \in Pos |-> {b \in Bit : 8 * d + b \in out}]

(***************************************************************************)
(* Round r, with its key and the map of seed s.  The bytecode is XOR x,    *)
(* SBOX, ROL k, at fixed places: an operand is not taken for an opcode.    *)
(***************************************************************************)
Control(s, r, key) == XorBits(KeyMap(s, 16 * r), key[0])
DynamicXor(r, key) == key[r % 16]
DynamicRol(r, key) == (NumberOf(key[(r + 1) % 16]) % 7) + 1

Interpreted(x, k, b) ==
  [i \in Pos |-> RolBits(ObfSBox(XorBits(b[i], x)), k)]

InterpretedBackSameTurn(x, k, b) ==                     \* mutant of InterpretedBack
  [i \in Pos |-> XorBits(ObfInvSBox(RolBits(b[i], k % 8)), x)]

InterpretedBack(x, k, b) ==
  [i \in Pos |-> XorBits(ObfInvSBox(RolBits(b[i], 8 - (k % 8))), x)]

AddKey(b, key) == [i \in Pos |-> XorBits(b[i], key[i])]

(* pipeline_round_encrypt before the injection, and pipeline_round_decrypt. *)
Layered(s, r, key, b) ==
  Interpreted(DynamicXor(r, key), DynamicRol(r, key), ApplyPBox(PBox(Control(s, r, key)), b))

RoundBack(s, r, key, b) ==
  ApplyPBox(InvPBox(Control(s, r, key)),
            InterpretedBack(DynamicXor(r, key), DynamicRol(r, key), AddKey(b, key)))

(* round_key_injection: the next key, of the block before it adds this one. *)
Checksum(b, key) ==
  {x \in Bit : Cardinality({i \in Pos : x \in AddKey(b, key)[i]}) % 2 = 1}

NextKey(b, key) ==
  LET next == [i \in Pos |-> XorBits(XorBits(key[i], AddKey(b, key)[i]), {0, 2, 5, 7})]
  IN  [next EXCEPT ![0] = XorBits(@, Checksum(b, key))]

FirstKey(s) == [i \in Pos |-> KeyMap(s, i)]

(* memcpy into row r of the array, in it or not. *)
WithRow(r, key) == [q \in DOMAIN rows \cup {r} |-> IF q = r THEN key ELSE rows[q]]

RowsAfterUnchecked(r, key) == WithRow(r + 1, key)       \* mutant of RowsAfter

RowsAfter(r, key) == IF r + 1 < n THEN WithRow(r + 1, key) ELSE rows
-----------------------------------------------------------------------------
ObfInit ==
  /\ block \in ObfBlocks
  /\ seed = <<>>
  /\ rows = [r \in Rows |-> block]      \* the caller's array, not initialised
  /\ job = "none" /\ n = 0 /\ round = 0 /\ jobs = 0
  /\ made = <<>> /\ used = rows /\ path = <<>> /\ follows = FALSE

Called == job = "none" /\ jobs < MaxObfCalls /\ jobs' = jobs + 1

(* num_rounds out of range: either call returns, and nothing tells. *)
ObfRefuse == /\ Called /\ \E m \in RoundCounts : m <= 0 \/ m > OBF_MAX_ROUNDS
             /\ UNCHANGED <<block, rows, job, seed, n, round, made, used, path, follows>>

ObfInitRoundKeys ==
  /\ Called
  /\ \E s \in ObfSeeds : rows' = WithRow(0, FirstKey(s))
  /\ UNCHANGED <<block, job, seed, n, round, made, used, path, follows>>

(* The caller puts another block into the state, or the same. *)
ObfLoad ==
  /\ Called /\ block' \in ObfBlocks
  /\ round' = 0 /\ follows' = FALSE
  /\ UNCHANGED <<rows, job, seed, n, made, used, path>>

KeepRowZero(s) == rows                                  \* mutant of StartRows

StartRows(s) == WithRow(0, FirstKey(s))

(* An encryption of the block that the last one started from, with the     *)
(* same arguments, follows its path again; any other makes a new one.      *)
ObfEncryptCall ==
  \E s \in ObfSeeds, m \in RoundCounts :
    /\ Called /\ m > 0 /\ m <= OBF_MAX_ROUNDS
    /\ job' = "encrypt" /\ seed' = s /\ n' = m /\ round' = 0
    /\ rows' = StartRows(s)
    /\ follows' = (made = <<s, m>> /\ block = path[0])
    /\ made' = <<s, m>>
    /\ path' = IF follows' THEN path ELSE [l \in 0 .. m |-> block]
    /\ UNCHANGED <<block, used>>

(* A decryption of the block that the last encryption ended with, with its *)
(* arguments and its keys in the array, is to follow the path back.        *)
ObfDecryptCall ==
  \E s \in ObfSeeds, m \in RoundCounts :
    /\ Called /\ m > 0 /\ m <= OBF_MAX_ROUNDS
    /\ job' = "decrypt" /\ seed' = s /\ n' = m /\ round' = m
    /\ follows' = (/\ made = <<s, m>> /\ block = path[m]
                   /\ \A r \in 0 .. m - 1 : rows[r] = used[r])
    /\ UNCHANGED <<block, rows, made, used, path>>

ObfEncryptRound ==
  /\ job = "encrypt" /\ job' = "inject"
  /\ block' = Layered(seed, round, rows[round], block)
  /\ UNCHANGED <<rows, seed, n, round, jobs, made, used, path, follows>>

(* The end of the round; that of the last one returns. *)
ObfInject ==
  LET last == round + 1 = n
  IN  /\ job = "inject"
      /\ block' = AddKey(block, rows[round]) /\ round' = round + 1
      /\ rows' = RowsAfter(round, NextKey(block, rows[round]))
      /\ path' = IF follows THEN path ELSE [path EXCEPT ![round + 1] = block']
      /\ job' = IF last THEN "none" ELSE "encrypt"
      /\ used' = IF last THEN rows' ELSE used
      /\ UNCHANGED <<seed, n, jobs, made, follows>>

ObfDecryptRound ==
  /\ job = "decrypt"
  /\ block' = RoundBack(seed, round - 1, rows[round - 1], block)
  /\ round' = round - 1
  /\ job' = IF round = 1 THEN "none" ELSE job
  /\ UNCHANGED <<rows, seed, n, jobs, made, used, path, follows>>

ObfNext == \/ ObfRefuse \/ ObfInitRoundKeys \/ ObfLoad
           \/ ObfEncryptCall \/ ObfEncryptRound \/ ObfInject
           \/ ObfDecryptCall \/ ObfDecryptRound

ObfSpec == ObfInit /\ [][ObfNext]_obfVars
-----------------------------------------------------------------------------
(* Blocks and keys are of bytes, and the key after the last round is put   *)
(* nowhere: with OBF_MAX_ROUNDS rounds there is no row for it.             *)
ObfTypeOK ==
  /\ block \in Block /\ rows \in [Rows -> Block]
  /\ job \in {"none", "encrypt", "inject", "decrypt"}
  /\ n \in 0 .. OBF_MAX_ROUNDS /\ round \in 0 .. n

(* Decryption of what the last encryption left, with its arguments and its *)
(* keys, goes back through every block the encryption went through.  And   *)
(* encryption depends on its block, seed and round count alone: with the   *)
(* same ones it takes the same path and leaves the same keys, whatever     *)
(* obf_init_round_keys or another encryption put into the array.           *)
ObfRetraced ==
  follows => /\ job # "inject" => block = path[round]
             /\ job = "encrypt" => \A r \in 0 .. round : rows[r] = used[r]
=============================================================================
