------------------------- MODULE DynamicAsm_proofs --------------------------
(***************************************************************************)
(* AsmTypeOK and AsmRetraced for every number of rounds and calls, every   *)
(* block size, every key array, and any S-box with its inverse.  That the  *)
(* Galois products undo each other is arithmetic of the 128 constants that *)
(* a round can have: GaloisAssumption, which TLC works out.                *)
(***************************************************************************)
EXTENDS DynamicAsm, TLAPS

-----------------------------------------------------------------------------
(* The four operations, one by one.                                        *)

(* rotl3 and rotr3 turn a byte there and back.                             *)
LEMMA RotateBack ==
  \A v \in AsmByte : /\ Rotl3(v) \in AsmByte /\ Rotr3(v) \in AsmByte
                     /\ Rotr3(Rotl3(v)) = v /\ Rotl3(Rotr3(v)) = v
  BY DEF AsmByte, Rotl3, Rotr3

(* Sums wrap at 256 and differences wrap back.                             *)
LEMMA SumBack ==
  \A s, k \in AsmByte : /\ (s + k) % 256 \in AsmByte /\ (s - k) % 256 \in AsmByte
                        /\ (((s + k) % 256) - k) % 256 = s
                        /\ (((s - k) % 256) + k) % 256 = s
<1>1. \A t \in Int : /\ 0 <= t /\ t < 256 => t % 256 = t
                     /\ 256 <= t /\ t < 512 => t % 256 = t - 256
                     /\ -256 <= t /\ t < 0 => t % 256 = t + 256
  OBVIOUS
<1> TAKE s, k \in AsmByte
<1>2. s \in Int /\ k \in Int /\ 0 <= s /\ s < 256 /\ 0 <= k /\ k < 256
  BY DEF AsmByte
<1>3. (s + k) % 256 \in AsmByte /\ (((s + k) % 256) - k) % 256 = s
  <2>1. CASE s + k < 256
    <3>1. (s + k) % 256 = s + k
      BY <1>1, <1>2, <2>1
    <3> QED
      BY <1>1, <1>2, <2>1, <3>1 DEF AsmByte
  <2>2. CASE s + k >= 256
    <3>1. (s + k) % 256 = s + k - 256
      BY <1>1, <1>2, <2>2
    <3>2. (s - 256) % 256 = s
      BY <1>1, <1>2
    <3> QED
      BY <1>1, <1>2, <2>2, <3>1, <3>2 DEF AsmByte
  <2> QED
    BY <1>2, <2>1, <2>2
<1>4. (s - k) % 256 \in AsmByte /\ (((s - k) % 256) + k) % 256 = s
  <2>1. CASE s < k
    <3>1. (s - k) % 256 = s - k + 256
      BY <1>1, <1>2, <2>1
    <3>2. (s + 256) % 256 = s
      BY <1>1, <1>2
    <3> QED
      BY <1>1, <1>2, <2>1, <3>1, <3>2 DEF AsmByte
  <2>2. CASE s >= k
    <3>1. (s - k) % 256 = s - k
      BY <1>1, <1>2, <2>2
    <3> QED
      BY <1>1, <1>2, <2>2, <3>1 DEF AsmByte
  <2> QED
    BY <1>2, <2>1, <2>2
<1> QED
  BY <1>3, <1>4

(* The constant of a product is an odd byte.                               *)
LEMMA OddByte == \A k \in AsmByte : Odd(k) \in AsmByte /\ Odd(k) % 2 = 1
  BY DEF AsmByte, Odd

(* One byte of a round: each operation stays in a byte and undoes the      *)
(* other.                                                                  *)
LEMMA ByteBack ==
  ASSUME NEW op \in 0 .. 3, NEW s \in AsmByte, NEW k \in AsmByte
  PROVE  /\ ApplyByte(op, s, k) \in AsmByte /\ ReverseByte(op, s, k) \in AsmByte
         /\ ReverseByte(op, ApplyByte(op, s, k), k) = s
         /\ ApplyByte(op, ReverseByte(op, s, k), k) = s
<1>1. CASE op = 0
  BY <1>1, AsmAssumption DEF AsmAssumption, ApplyByte, ReverseByte
<1>2. CASE op = 1
  <2>1. ApplyByte(op, s, k) = Rotl3((s + k) % 256)
    BY <1>2 DEF ApplyByte
  <2>2. \A t : ReverseByte(op, t, k) = (Rotr3(t) - k) % 256
    BY <1>2 DEF ReverseByte
  <2>3. \A t : ApplyByte(op, t, k) = Rotl3((t + k) % 256)
    BY <1>2 DEF ApplyByte
  <2>4. Rotr3(ApplyByte(op, s, k)) = (s + k) % 256
    BY <2>1, RotateBack, SumBack
  <2>5. (ReverseByte(op, s, k) + k) % 256 = Rotr3(s)
    BY <2>2, RotateBack, SumBack
  <2> QED
    BY <2>1, <2>2, <2>3, <2>4, <2>5, RotateBack, SumBack
<1>3. CASE op = 2
  <2>1. Odd(k) \in AsmByte /\ Odd(k) % 2 = 1
    BY OddByte
  <2>2. \A t : ApplyByte(op, t, k) = GfMul[t, Odd(k)]
    BY <1>3 DEF ApplyByte
  <2>3. \A t : ReverseByte(op, t, k) = GfMul[t, GfInv(Odd(k))]
    BY <1>3 DEF ReverseByte
  <2>4. \A t \in AsmByte :
          /\ GfMul[t, Odd(k)] \in AsmByte /\ GfMul[t, GfInv(Odd(k))] \in AsmByte
          /\ GfMul[GfMul[t, Odd(k)], GfInv(Odd(k))] = t
          /\ GfMul[GfMul[t, GfInv(Odd(k))], Odd(k)] = t
    BY <2>1, GaloisAssumption DEF GaloisAssumption
  <2> QED
    BY <2>2, <2>3, <2>4
<1>4. CASE op = 3
  <2>1. \A t \in AsmByte : 255 - t \in AsmByte /\ 255 - (255 - t) = t
    BY DEF AsmByte
  <2>2. \A t : ApplyByte(op, t, k) = AsmSBox(255 - t)
    BY <1>4 DEF ApplyByte
  <2>3. \A t : ReverseByte(op, t, k) = 255 - AsmInvSBox(t)
    BY <1>4 DEF ReverseByte
  <2> QED
    BY <2>1, <2>2, <2>3, AsmAssumption DEF AsmAssumption
<1> QED
  BY <1>1, <1>2, <1>3, <1>4

(* A whole round, over a block.                                            *)
LEMMA RoundUndone ==
  ASSUME NEW s \in AsmState, NEW key \in AsmState
  PROVE  /\ Applied(s, key) \in AsmState /\ Reversed(s, key) \in AsmState
         /\ Reversed(Applied(s, key), key) = s
         /\ Applied(Reversed(s, key), key) = s
<1> DEFINE op == key[0] % 4
<1>1. op \in 0 .. 3
  <2>1. 0 \in AsmIndex
    BY AsmAssumption DEF AsmAssumption, AsmIndex
  <2>2. key[0] \in 0 .. 255
    BY <2>1 DEF AsmState, AsmByte
  <2> QED
    BY <2>2
<1> HIDE DEF op
<1>2. \A q \in AsmIndex : s[q] \in AsmByte /\ key[q] \in AsmByte
  BY DEF AsmState
<1>3. Applied(s, key) = [q \in AsmIndex |-> ApplyByte(op, s[q], key[q])]
  BY DEF Applied, op
<1>4. Reversed(s, key) = [q \in AsmIndex |-> ReverseByte(op, s[q], key[q])]
  BY DEF Reversed, op
<1>5. Applied(s, key) \in AsmState /\ Reversed(s, key) \in AsmState
  BY <1>1, <1>2, <1>3, <1>4, ByteBack DEF AsmState
<1>6. Reversed(Applied(s, key), key)
        = [q \in AsmIndex |-> ReverseByte(op, Applied(s, key)[q], key[q])]
  BY DEF Reversed, op
<1>7. Applied(Reversed(s, key), key)
        = [q \in AsmIndex |-> ApplyByte(op, Reversed(s, key)[q], key[q])]
  BY DEF Applied, op
<1>8. \A q \in AsmIndex : ReverseByte(op, Applied(s, key)[q], key[q]) = s[q]
  BY <1>1, <1>2, <1>3, ByteBack
<1>9. \A q \in AsmIndex : ApplyByte(op, Reversed(s, key)[q], key[q]) = s[q]
  BY <1>1, <1>2, <1>4, ByteBack
<1> QED
  BY <1>5, <1>6, <1>7, <1>8, <1>9 DEF AsmState
-----------------------------------------------------------------------------
(***************************************************************************)
(* AsmRetraced is not inductive: that a round of decryption gives the      *)
(* state before a round of encryption rests on how the trail was made.     *)
(* OnTrail(lo, hi): between lo and hi the trail leads by rounds upwards,   *)
(* whichever call made it.                                                 *)
(***************************************************************************)
OnTrail(lo, hi) ==
  \A r \in lo .. hi - 1 : trail[r + 1] = Applied(trail[r], keys[r])

AsmShape ==
  /\ AsmTypeOK
  /\ keys \in AsmKeys
  /\ trail \in [0 .. NUM_ROUNDS -> AsmState]
  /\ before \in {"none", "encrypt", "decrypt"} /\ undoes \in BOOLEAN
  /\ call # "none" => before = call

(* How far the trail has come: all the way when no call makes it anew.     *)
AsmTrail ==
  /\ call = "none" /\ before = "encrypt" =>
       OnTrail(0, NUM_ROUNDS) /\ state = trail[NUM_ROUNDS]
  /\ call = "none" /\ before = "decrypt" =>
       OnTrail(0, NUM_ROUNDS) /\ state = trail[0]
  /\ call # "none" => state = trail[asmRound]
  /\ call # "none" /\ undoes => OnTrail(0, NUM_ROUNDS)
  /\ call = "encrypt" => OnTrail(0, asmRound)
  /\ call = "decrypt" => OnTrail(asmRound, NUM_ROUNDS)
  /\ call = "none" /\ before = "none" => ~undoes
  /\ call = "none" /\ before = "encrypt" => asmRound = NUM_ROUNDS
  /\ call = "none" /\ before = "decrypt" => asmRound = 0

AsmIInv == AsmShape /\ AsmTrail

(* Each row of a key array is a block.                                     *)
LEMMA KeysTyped ==
  keys \in AsmKeys => \A r \in 0 .. NUM_ROUNDS - 1 : keys[r] \in AsmState
  BY AsmAssumption DEF AsmAssumption

(* The invariant holds at first: no call, no trail.                        *)
LEMMA AsmInitial == AsmInit => AsmIInv
<1> SUFFICES ASSUME AsmInit PROVE AsmIInv
  OBVIOUS
<1>1. state \in AsmState /\ NUM_ROUNDS \in Nat \ {0}
  BY AsmAssumption DEF AsmAssumption, AsmInit
<1>2. trail \in [0 .. NUM_ROUNDS -> AsmState]
  BY <1>1 DEF AsmInit
<1>3. AsmTypeOK
  BY <1>1 DEF AsmInit, AsmTypeOK
<1>4. AsmShape
  BY <1>2, <1>3 DEF AsmInit, AsmShape
<1>5. AsmTrail
  BY DEF AsmInit, AsmTrail
<1> QED
  BY <1>4, <1>5 DEF AsmIInv

(* A call begins: it takes the trail over, or starts one at its own end.   *)
LEMMA EncryptCallKeeps == AsmIInv /\ AsmEncryptCall => AsmIInv'
<1> SUFFICES ASSUME AsmIInv, AsmEncryptCall PROVE AsmIInv'
  OBVIOUS
<1> USE DEF AsmEncryptCall, AsmCall
<1>1. NUM_ROUNDS \in Nat \ {0}
  BY AsmAssumption DEF AsmAssumption
<1>2. /\ call = "none" /\ call' = "encrypt" /\ before' = "encrypt" /\ asmRound' = 0
      /\ undoes' = (before \notin {"encrypt", "none"})
      /\ UNCHANGED <<state, keys>>
  OBVIOUS
<1>3. undoes' => before = "decrypt" /\ trail' = trail
  BY DEF AsmIInv, AsmShape
<1>4. ~undoes' => trail' = [trail EXCEPT ![0] = state]
  OBVIOUS
<1>5. AsmShape'
  BY <1>1, <1>2, <1>3, <1>4 DEF AsmIInv, AsmShape, AsmTypeOK
<1>6. undoes' => OnTrail(0, NUM_ROUNDS)' /\ state' = trail'[0]
  BY <1>2, <1>3 DEF AsmIInv, AsmTrail, OnTrail
<1>7. ~undoes' => state' = trail'[0]
  BY <1>1, <1>2, <1>4 DEF AsmIInv, AsmShape
<1>8. OnTrail(0, 0)'
  BY DEF OnTrail
<1>9. AsmTrail'
  BY <1>2, <1>6, <1>7, <1>8 DEF AsmTrail
<1> QED
  BY <1>5, <1>9 DEF AsmIInv

(* The same, from the other end.                                           *)
LEMMA DecryptCallKeeps == AsmIInv /\ AsmDecryptCall => AsmIInv'
<1> SUFFICES ASSUME AsmIInv, AsmDecryptCall PROVE AsmIInv'
  OBVIOUS
<1> USE DEF AsmDecryptCall, AsmCall
<1>1. NUM_ROUNDS \in Nat \ {0}
  BY AsmAssumption DEF AsmAssumption
<1>2. /\ call = "none" /\ call' = "decrypt" /\ before' = "decrypt" /\ asmRound' = NUM_ROUNDS
      /\ undoes' = (before \notin {"decrypt", "none"})
      /\ UNCHANGED <<state, keys>>
  OBVIOUS
<1>3. undoes' => before = "encrypt" /\ trail' = trail
  BY DEF AsmIInv, AsmShape
<1>4. ~undoes' => trail' = [trail EXCEPT ![NUM_ROUNDS] = state]
  OBVIOUS
<1>5. AsmShape'
  BY <1>1, <1>2, <1>3, <1>4 DEF AsmIInv, AsmShape, AsmTypeOK
<1>6. undoes' => OnTrail(0, NUM_ROUNDS)' /\ state' = trail'[NUM_ROUNDS]
  BY <1>2, <1>3 DEF AsmIInv, AsmTrail, OnTrail
<1>7. ~undoes' => state' = trail'[NUM_ROUNDS]
  BY <1>1, <1>2, <1>4 DEF AsmIInv, AsmShape
<1>8. OnTrail(NUM_ROUNDS, NUM_ROUNDS)'
  BY <1>1 DEF OnTrail
<1>9. AsmTrail'
  BY <1>2, <1>6, <1>7, <1>8 DEF AsmTrail
<1> QED
  BY <1>5, <1>9 DEF AsmIInv

(* A round of encryption writes the next entry of the trail, or finds it   *)
(* there, since the entry before leads to it.                              *)
LEMMA EncryptRoundKeeps == AsmIInv /\ AsmEncryptRound => AsmIInv'
<1> SUFFICES ASSUME AsmIInv, AsmEncryptRound PROVE AsmIInv'
  OBVIOUS
<1> DEFINE r == asmRound
           s == Applied(state, keys[r])
<1>1. NUM_ROUNDS \in Nat \ {0} /\ r \in 0 .. NUM_ROUNDS - 1 /\ call = "encrypt"
  BY AsmAssumption DEF AsmAssumption, AsmIInv, AsmShape, AsmTypeOK, AsmEncryptRound
<1>2. /\ state' = s /\ asmRound' = r + 1
      /\ call' = IF r + 1 = NUM_ROUNDS THEN "none" ELSE "encrypt"
      /\ trail' = IF undoes THEN trail ELSE [trail EXCEPT ![r + 1] = s]
      /\ UNCHANGED <<keys, calls, before, undoes>>
  BY <1>1 DEF AsmEncryptRound, AsmRound
<1>3. /\ state \in AsmState /\ keys \in AsmKeys /\ before = "encrypt" /\ undoes \in BOOLEAN
      /\ trail \in [0 .. NUM_ROUNDS -> AsmState]
      /\ state = trail[r] /\ OnTrail(0, r) /\ (undoes => OnTrail(0, NUM_ROUNDS))
  BY <1>1 DEF AsmIInv, AsmShape, AsmTypeOK, AsmTrail
<1>4. s \in AsmState
  BY <1>1, <1>3, KeysTyped, RoundUndone
<1> HIDE DEF s
<1>5. AsmShape'
  BY <1>1, <1>2, <1>3, <1>4 DEF AsmShape, AsmTypeOK
<1>6. OnTrail(0, asmRound)' /\ trail'[r + 1] = s
  <2>1. CASE undoes
    BY <1>1, <1>2, <1>3, <2>1 DEF OnTrail, s
  <2>2. CASE ~undoes
    <3>1. trail'[r + 1] = s /\ \A q \in 0 .. r : trail'[q] = trail[q]
      BY <1>1, <1>2, <1>3, <2>2
    <3>2. trail'[r + 1] = Applied(trail'[r], keys[r])
      BY <1>1, <1>3, <3>1 DEF s
    <3> QED
      BY <1>1, <1>2, <1>3, <3>1, <3>2 DEF OnTrail
  <2> QED
    BY <2>1, <2>2
<1>7. undoes => OnTrail(0, NUM_ROUNDS)'
  BY <1>2, <1>3 DEF OnTrail
<1>8. AsmTrail'
  BY <1>1, <1>2, <1>3, <1>6, <1>7 DEF AsmTrail
<1> QED
  BY <1>5, <1>8 DEF AsmIInv

(* The same, downwards.                                                    *)
LEMMA DecryptRoundKeeps == AsmIInv /\ AsmDecryptRound => AsmIInv'
<1> SUFFICES ASSUME AsmIInv, AsmDecryptRound PROVE AsmIInv'
  OBVIOUS
<1> DEFINE r == asmRound - 1
           s == Reversed(state, keys[r])
<1>1. NUM_ROUNDS \in Nat \ {0} /\ r \in 0 .. NUM_ROUNDS - 1 /\ call = "decrypt"
      /\ asmRound = r + 1
  BY AsmAssumption DEF AsmAssumption, AsmIInv, AsmShape, AsmTypeOK, AsmDecryptRound
<1>2. /\ state' = s /\ asmRound' = r
      /\ call' = IF r = 0 THEN "none" ELSE "decrypt"
      /\ trail' = IF undoes THEN trail ELSE [trail EXCEPT ![r] = s]
      /\ UNCHANGED <<keys, calls, before, undoes>>
  BY <1>1 DEF AsmDecryptRound, AsmRound
<1> HIDE DEF r
<1>3. /\ state \in AsmState /\ keys \in AsmKeys /\ before = "decrypt" /\ undoes \in BOOLEAN
      /\ trail \in [0 .. NUM_ROUNDS -> AsmState]
      /\ state = trail[r + 1] /\ OnTrail(r + 1, NUM_ROUNDS)
      /\ (undoes => OnTrail(0, NUM_ROUNDS))
  BY <1>1 DEF AsmIInv, AsmShape, AsmTypeOK, AsmTrail
<1>4. s \in AsmState /\ Applied(s, keys[r]) = state
  BY <1>1, <1>3, KeysTyped, RoundUndone
<1>5. undoes => s = trail[r]
  <2> SUFFICES ASSUME undoes PROVE s = trail[r]
    OBVIOUS
  <2>1. state = Applied(trail[r], keys[r]) /\ trail[r] \in AsmState
    BY <1>1, <1>3 DEF OnTrail
  <2> QED
    BY <1>1, <1>3, <2>1, KeysTyped, RoundUndone
<1> HIDE DEF s
<1>6. AsmShape'
  BY <1>1, <1>2, <1>3, <1>4 DEF AsmShape, AsmTypeOK
<1>7. OnTrail(asmRound, NUM_ROUNDS)' /\ trail'[r] = s
  <2>1. CASE undoes
    BY <1>1, <1>2, <1>3, <1>5, <2>1 DEF OnTrail
  <2>2. CASE ~undoes
    <3>1. trail'[r] = s /\ \A q \in r + 1 .. NUM_ROUNDS : trail'[q] = trail[q]
      BY <1>1, <1>2, <1>3, <2>2
    <3>2. trail'[r + 1] = Applied(trail'[r], keys[r])
      BY <1>1, <1>3, <1>4, <3>1
    <3> QED
      BY <1>1, <1>2, <1>3, <3>1, <3>2 DEF OnTrail
  <2> QED
    BY <2>1, <2>2
<1>8. undoes => OnTrail(0, NUM_ROUNDS)'
  BY <1>2, <1>3 DEF OnTrail
<1>9. AsmTrail'
  BY <1>1, <1>2, <1>3, <1>7, <1>8 DEF AsmTrail
<1> QED
  BY <1>6, <1>9 DEF AsmIInv

(* Every step keeps the invariant.                                         *)
LEMMA AsmStep == AsmIInv /\ [AsmNext]_asmVars => AsmIInv'
<1> SUFFICES ASSUME AsmIInv, [AsmNext]_asmVars PROVE AsmIInv'
  OBVIOUS
<1>1. CASE AsmLoad
  <2>1. AsmShape'
    BY <1>1, AsmAssumption DEF AsmAssumption, AsmLoad, AsmIInv, AsmShape, AsmTypeOK
  <2>2. AsmTrail'
    BY <1>1 DEF AsmLoad, AsmTrail
  <2> QED
    BY <2>1, <2>2 DEF AsmIInv
<1>2. CASE UNCHANGED asmVars
  BY <1>2 DEF asmVars, AsmIInv, AsmShape, AsmTypeOK, AsmTrail, OnTrail
<1> QED
  BY <1>1, <1>2, EncryptCallKeeps, DecryptCallKeeps, EncryptRoundKeeps, DecryptRoundKeeps
     DEF AsmNext
-----------------------------------------------------------------------------
(* Sums, rotations, products and complements of bytes stay bytes, and no   *)
(* round reaches outside the key array.                                    *)
THEOREM AsmTypeCorrect == AsmSpec => []AsmTypeOK
<1>1. AsmIInv => AsmTypeOK
  BY DEF AsmIInv, AsmShape
<1> QED
  BY AsmInitial, AsmStep, <1>1, PTL DEF AsmSpec

(* dynamic_asm_decrypt takes back what dynamic_asm_encrypt did, state by   *)
(* state, and the other way round, for any keys and any number of rounds.  *)
THEOREM AsmUndone == AsmSpec => []AsmRetraced
<1>1. AsmIInv => AsmRetraced
  BY AsmAssumption DEF AsmAssumption, AsmIInv, AsmShape, AsmTypeOK, AsmTrail, AsmRetraced
<1> QED
  BY AsmInitial, AsmStep, <1>1, PTL DEF AsmSpec
=============================================================================
