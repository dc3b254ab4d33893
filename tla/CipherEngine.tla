---------------------------- MODULE CipherEngine ----------------------------
(***************************************************************************)
(* The process-wide cipher engine of choi_common.h: the tables that        *)
(* choi_derive_keys fills one after the other, the CHOI_ENGINE_READY flag, *)
(* and choi_transform, a loop of whole and partial blocks under a counter  *)
(* kept as BLOCK_SIZE bytes.  Callers call in any order.                   *)
(*                                                                         *)
(* The cipher of a counter is a term of the tables that computed it: the   *)
(* key in the S-box, the key in the round keys, and the S-box that the     *)
(* key schedule substituted with.                                          *)
(***************************************************************************)
EXTENDS Naturals, FiniteSetsExt

CONSTANTS MasterKeys,  \* the keys that passwords and salts derive
          NoKey,       \* what zero-initialised tables hold
          BLOCK_SIZE,  \* CHOI_BLOCK_SIZE: 16
          Base,        \* values of a byte: 256
          Length,      \* bytes of the caller's buffer
          MaxCalls     \* calls the callers make

ASSUME EngineAssumption ==
  /\ NoKey \notin MasterKeys
  /\ BLOCK_SIZE \in Nat \ {0} /\ Base \in Nat \ {0, 1}
  /\ Length \in Nat /\ MaxCalls \in Nat

VARIABLES ready,       \* CHOI_ENGINE_READY
          sboxKey,     \* the key whose hash shuffled CHOI_SBOX
          roundKeys,   \* <<key expanded, sbox it was expanded with>>
          stage, arg,  \* the call under way and its key or nonce
          counterBlock, offset,
          text,        \* the buffer: byte -> keystream bytes xored over it
          calls

engineVars == <<ready, sboxKey, roundKeys, stage, arg, counterBlock, offset, text, calls>>

Digit   == 0 .. BLOCK_SIZE - 1
Counter == [Digit -> 0 .. Base - 1]

EngineInit ==
  /\ ready = FALSE /\ sboxKey = NoKey /\ roundKeys = <<NoKey, NoKey>>
  /\ stage = "idle" /\ arg = NoKey
  /\ counterBlock = [d \in Digit |-> 0] /\ offset = 0
  /\ text = [o \in 0 .. Length - 1 |-> {}]
  /\ calls = 0

Called == calls < MaxCalls /\ calls' = calls + 1

(***************************************************************************)
(* choi_derive_keys, after PBKDF2: the S-box, then the round keys, which   *)
(* are made with it, then the flag.                                        *)
(***************************************************************************)
Derive(k) ==
  /\ stage = "idle" /\ Called
  /\ stage' = "sbox" /\ arg' = k
  /\ UNCHANGED <<ready, sboxKey, roundKeys, counterBlock, offset, text>>

GenerateSboxAgain ==                         \* mutant of GenerateSbox: once only
  /\ stage = "sbox"
  /\ sboxKey' = IF ready THEN sboxKey ELSE arg
  /\ stage' = "expand"
  /\ UNCHANGED <<ready, roundKeys, arg, counterBlock, offset, text, calls>>

GenerateSbox ==
  /\ stage = "sbox"
  /\ sboxKey' = arg
  /\ stage' = "expand"
  /\ UNCHANGED <<ready, roundKeys, arg, counterBlock, offset, text, calls>>

ExpandRoundKeys ==
  /\ stage = "expand"
  /\ roundKeys' = <<arg, sboxKey>>
  /\ ready' = TRUE
  /\ stage' = "idle" /\ arg' = NoKey
  /\ UNCHANGED <<sboxKey, counterBlock, offset, text, calls>>

(***************************************************************************)
(* choi_transform.  It returns at once, and says nothing, if no key was    *)
(* derived.  The nonce fills the whole counter block.                      *)
(***************************************************************************)
Transform(nonce) ==
  /\ stage = "idle" /\ Called
  /\ IF ready THEN stage' = "blocks" /\ arg' = nonce /\ counterBlock' = nonce /\ offset' = 0
              ELSE UNCHANGED <<stage, arg, counterBlock, offset>>
  /\ UNCHANGED <<ready, sboxKey, roundKeys, text>>

(* Big-endian: a byte goes up when all the bytes after it are about to wrap. *)
IncrementNoCarry(c) ==                       \* mutant of Increment
  [c EXCEPT ![BLOCK_SIZE - 1] = (@ + 1) % Base]

Increment(c) ==
  [d \in Digit |-> IF \A e \in Digit : e > d => c[e] = Base - 1
                   THEN (c[d] + 1) % Base ELSE c[d]]

KeystreamByte(c, d) == <<roundKeys, sboxKey, c, d>>

BlockLenWhole == BLOCK_SIZE                  \* mutant of BlockLen: always whole

BlockLen == IF Length - offset > BLOCK_SIZE THEN BLOCK_SIZE ELSE Length - offset

TransformBlock ==
  /\ stage = "blocks" /\ offset < Length
  /\ text' = [o \in DOMAIN text |->
                IF o \in offset .. offset + BlockLen - 1
                THEN SymDiff(text[o], {KeystreamByte(counterBlock, o - offset)})
                ELSE text[o]]
  /\ offset' = offset + BlockLen
  /\ counterBlock' = Increment(counterBlock)
  /\ UNCHANGED <<ready, sboxKey, roundKeys, stage, arg, calls>>

TransformEnd ==
  /\ stage = "blocks" /\ offset = Length
  /\ stage' = "idle" /\ arg' = NoKey
  /\ counterBlock' = [d \in Digit |-> 0] /\ offset' = 0
  /\ UNCHANGED <<ready, sboxKey, roundKeys, text, calls>>

Finished == stage = "idle" /\ calls = MaxCalls /\ UNCHANGED engineVars

EngineNext == \/ \E k \in MasterKeys : Derive(k)
              \/ GenerateSbox \/ ExpandRoundKeys
              \/ \E nonce \in Counter : Transform(nonce)
              \/ TransformBlock \/ TransformEnd
              \/ Finished

EngineSpec == EngineInit /\ [][EngineNext]_engineVars
-----------------------------------------------------------------------------
(* The number that the first k bytes of a counter block stand for, and how   *)
(* many numbers k bytes can stand for.                                        *)
Value(c) ==
  LET v[k \in 0 .. BLOCK_SIZE] == IF k = 0 THEN 0 ELSE Base * v[k - 1] + c[k - 1] IN v

Power == LET p[k \in 0 .. BLOCK_SIZE] == IF k = 0 THEN 1 ELSE Base * p[k - 1] IN p

CounterNumber(c) == Value(c)[BLOCK_SIZE]
Numbers   == Power[BLOCK_SIZE]

(* The tables hold derived keys, and choi_transform's offset never passes    *)
(* the end of the buffer, whatever the length of its last block.             *)
EngineTypeOK ==
  /\ ready \in BOOLEAN
  /\ sboxKey \in MasterKeys \cup {NoKey}
  /\ roundKeys \in (MasterKeys \cup {NoKey}) \X (MasterKeys \cup {NoKey})
  /\ stage \in {"idle", "sbox", "expand", "blocks"}
  /\ counterBlock \in Counter /\ offset \in 0 .. Length
  /\ calls \in 0 .. MaxCalls

(* A keystream byte of coherent tables is one of a single key; and it is    *)
(* named by the number that its counter stands for.                         *)
Coherent(p) == p[1] = <<p[2], p[2]>>
Named(p) == <<IF Coherent(p) THEN p[2] ELSE NoKey, CounterNumber(p[3]), p[4]>>

(***************************************************************************)
(* The engine implements Keystream.  A derivation counts from its first    *)
(* step; a transform counts when it returns, so what an unfinished one has *)
(* already xored is taken back off.                                        *)
(***************************************************************************)
Spec_key == IF stage \in {"sbox", "expand"} THEN arg ELSE sboxKey

Spec_data ==
  [o \in DOMAIN text |->
     LET pads == {Named(p) : p \in text[o]}
         pad  == <<sboxKey, (CounterNumber(arg) + (o \div BLOCK_SIZE)) % Numbers, o % BLOCK_SIZE>>
     IN  IF stage = "blocks" /\ o < offset THEN SymDiff(pads, {pad}) ELSE pads]

K == INSTANCE Keystream WITH key <- Spec_key, data <- Spec_data

Implements == K!Spec

(* No block is enciphered with the S-box of one key and the round keys of   *)
(* another, nor with round keys that were expanded with another S-box, nor  *)
(* with tables nobody filled; though each derivation replaces the tables    *)
(* one at a time and the flag of an earlier one is still up meanwhile.      *)
TablesOfOneKey ==
  stage = "blocks" => roundKeys = <<sboxKey, sboxKey>> /\ sboxKey # NoKey
=============================================================================
