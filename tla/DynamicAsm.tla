----------------------------- MODULE DynamicAsm -----------------------------
(***************************************************************************)
(* dynamic_asm_encrypt and dynamic_asm_decrypt, round by round, called in  *)
(* any order on one state.  The key of a round picks one of four           *)
(* operations.  Encryption's promise, and the demo's test, is that         *)
(* decryption restores the state; here each call that undoes the one       *)
(* before is compared with it at every round.                              *)
(***************************************************************************)
EXTENDS Integers

CONSTANTS XorByte(_, _),
          AsmSBox(_), AsmInvSBox(_),
          STATE_SIZE,           \* 16
          NUM_ROUNDS,           \* 32
          AsmBlocks,            \* the states tried,
          AsmKeys,              \*   and the round_keys arrays
          MaxAsmCalls

AsmByte  == 0 .. 255
AsmIndex == 0 .. STATE_SIZE - 1
AsmState == [AsmIndex -> AsmByte]

ASSUME AsmAssumption ==
  /\ STATE_SIZE \in Nat \ {0} /\ NUM_ROUNDS \in Nat \ {0} /\ MaxAsmCalls \in Nat
  /\ AsmBlocks \subseteq AsmState
  /\ AsmKeys \subseteq [0 .. NUM_ROUNDS - 1 -> AsmState]
  /\ \A x \in AsmByte : /\ AsmSBox(x) \in AsmByte /\ AsmInvSBox(x) \in AsmByte
                        /\ AsmInvSBox(AsmSBox(x)) = x /\ AsmSBox(AsmInvSBox(x)) = x
  /\ \A x, y \in AsmByte : /\ XorByte(x, y) \in AsmByte
                           /\ XorByte(XorByte(x, y), y) = x

VARIABLES state, keys,
          call,         \* the function under way, or "none"
          asmRound,     \* rounds that the state has been through
          calls,
          before,       \* ghost: the call that left the state as it is,
          trail,        \*   the states between its rounds,
          undoes        \*   and whether the present call takes them back

asmVars == <<state, keys, call, asmRound, calls, before, trail, undoes>>

(***************************************************************************)
(* gf_mul and gf_inv: eight turns of a loop over the bits of one number,   *)
(* in which the other is doubled, or squared.                              *)
(***************************************************************************)
AsmBit(b, n) == (b \div 2 ^ n) % 2

Shifted(a) == XorByte((2 * a) % 256, IF a >= 128 THEN 27 ELSE 0)

GfMul == [a, b \in AsmByte |->
  LET turn[n \in 0 .. 8] ==
        IF n = 0 THEN [a |-> a, res |-> 0]
        ELSE LET t == turn[n - 1]
             IN  [a   |-> Shifted(t.a),
                  res |-> XorByte(t.res, AsmBit(b, n - 1) * t.a)]
  IN  turn[8].res]

GfPower(x, power) ==
  LET turn[n \in 0 .. 8] ==
        IF n = 0 THEN [base |-> x, result |-> 1]
        ELSE LET t == turn[n - 1]
             IN  [base   |-> GfMul[t.base, t.base],
                  result |-> IF AsmBit(power, n - 1) = 1
                             THEN GfMul[t.result, t.base] ELSE t.result]
  IN  turn[8].result

GfInv(x) == IF x = 0 THEN 0 ELSE GfPower(x, 254)

Odd(k) == k + 1 - (k % 2)

(* gf_inv gives the inverse of every constant that a round multiplies by:  *)
(* with XorByte the xor of bytes this is arithmetic, and TLC does it.      *)
ASSUME GaloisAssumption ==
  \A c \in AsmByte : c % 2 = 1 =>
    LET d == GfInv(c)
    IN  \A s \in AsmByte : /\ GfMul[s, c] \in AsmByte /\ GfMul[s, d] \in AsmByte
                           /\ GfMul[GfMul[s, c], d] = s /\ GfMul[GfMul[s, d], c] = s

Rotl3Wide(v) == (v * 8) + (v \div 32)                    \* mutant of Rotl3

Rotl3(v) == ((v * 8) % 256) + (v \div 32)
Rotr3(v) == (v \div 8) + ((v * 32) % 256)

(* One byte of apply_dynamic_round and of reverse_dynamic_round.  ~v is    *)
(* 255 - v.                                                                *)
ApplyByte(op, s, k) ==
  CASE op = 0 -> XorByte(s, k)
    [] op = 1 -> Rotl3((s + k) % 256)
    [] op = 2 -> GfMul[s, Odd(k)]
    [] op = 3 -> AsmSBox(255 - s)

ReverseByteSumFirst(op, s, k) ==                      \* mutant of ReverseByte
  CASE op = 0 -> XorByte(s, k)
    [] op = 1 -> Rotr3((s - k) % 256)
    [] op = 2 -> GfMul[s, GfInv(Odd(k))]
    [] op = 3 -> 255 - AsmInvSBox(s)

ReverseByte(op, s, k) ==
  CASE op = 0 -> XorByte(s, k)
    [] op = 1 -> (Rotr3(s) - k) % 256
    [] op = 2 -> GfMul[s, GfInv(Odd(k))]
    [] op = 3 -> 255 - AsmInvSBox(s)

Applied(s, key)  == [i \in AsmIndex |-> ApplyByte(key[0] % 4, s[i], key[i])]
Reversed(s, key) == [i \in AsmIndex |-> ReverseByte(key[0] % 4, s[i], key[i])]
-----------------------------------------------------------------------------
AsmInit ==
  /\ state \in AsmBlocks /\ keys \in AsmKeys
  /\ call = "none" /\ asmRound = 0 /\ calls = 0
  /\ before = "none" /\ undoes = FALSE
  /\ trail = [r \in 0 .. NUM_ROUNDS |-> state]

(* A call begins.  If it is not to undo the one before, it starts a trail. *)
AsmCall(f, r) ==
  /\ call = "none" /\ calls < MaxAsmCalls
  /\ call' = f /\ asmRound' = r /\ calls' = calls + 1 /\ before' = f
  /\ undoes' = (before \notin {f, "none"})
  /\ trail' = IF undoes' THEN trail ELSE [trail EXCEPT ![r] = state]
  /\ UNCHANGED <<state, keys>>

AsmEncryptCall == AsmCall("encrypt", 0)
AsmDecryptCall == AsmCall("decrypt", NUM_ROUNDS)

(* The round that leads to r; the last one returns. *)
AsmRound(s, r, last) ==
  /\ state' = s /\ asmRound' = r
  /\ call' = IF r = last THEN "none" ELSE call
  /\ trail' = IF undoes THEN trail ELSE [trail EXCEPT ![r] = s]
  /\ UNCHANGED <<keys, calls, before, undoes>>

AsmEncryptRound == /\ call = "encrypt"
                   /\ AsmRound(Applied(state, keys[asmRound]), asmRound + 1, NUM_ROUNDS)

AsmDecryptRound == /\ call = "decrypt"
                   /\ AsmRound(Reversed(state, keys[asmRound - 1]), asmRound - 1, 0)

(* The caller puts another block into the state. *)
AsmLoad == /\ call = "none" /\ calls < MaxAsmCalls
           /\ state' \in AsmBlocks /\ before' = "none" /\ undoes' = FALSE
           /\ UNCHANGED <<keys, call, asmRound, calls, trail>>

AsmNext == \/ AsmEncryptCall \/ AsmDecryptCall
           \/ AsmEncryptRound \/ AsmDecryptRound \/ AsmLoad

AsmSpec == AsmInit /\ [][AsmNext]_asmVars
-----------------------------------------------------------------------------
(* The state stays a block of bytes, through sums, rotations and products, *)
(* and the round within the key array.                                     *)
AsmTypeOK ==
  /\ state \in AsmState
  /\ call \in {"none", "encrypt", "decrypt"}
  /\ asmRound \in 0 .. NUM_ROUNDS
  /\ call = "encrypt" => asmRound < NUM_ROUNDS
  /\ call = "decrypt" => asmRound > 0

(* A decryption takes the state back through every state the encryption    *)
(* before it left between two rounds, in the opposite order; and so does   *)
(* an encryption after a decryption, whatever the keys make of the rounds. *)
AsmRetraced == undoes => state = trail[asmRound]
=============================================================================
