---------------------------- MODULE MCChoiCommon ----------------------------
(***************************************************************************)
(* What choi_common.h is made of: the block cipher, the engine over it,    *)
(* SHA-256, and the routines that stretch it.  The four modules share no   *)
(* variable; a behaviour is of the one that begins.                        *)
(***************************************************************************)
EXTENDS MCBlockCipher, CipherEngine, Sha256, KeyStretch

(* No byte of the message is looked at, so one message whose bytes are all *)
(* different stands for every message; it has two blocks and more, so that *)
(* each way of padding is met after none, one and two whole blocks.        *)
MCMsgByte == 0 .. 999
MCMessage == [n \in 1 .. 190 |-> 300 + n]
MCGarbage == {[k \in 0 .. 63 |-> v] : v \in {0, 128, 256}}

(* KeyStretch has hashes of three bytes and blocks of six, and counters    *)
(* whose bytes count to two: passwords up to a block and over it, outputs  *)
(* up to three blocks, and a carry in either counter.                      *)
Text(of, len) == [j \in 1 .. len |-> {<<of, <<>>, j>>}]

MCPasswords   == {Text("pw", len) : len \in {0, 1, 6, 7}}
MCSalts       == {Text("salt", 1)}
MCCiphertexts == {Text("ct", len) : len \in {0, 4}}
MCIters       == 0 .. 3
MCOutLens     == 0 .. 9

(* CipherEngine has two keys, blocks of two digits base 3, a buffer of two *)
(* whole blocks and a partial one, and every sequence of five calls:       *)
(* enough to derive twice and to transform under each key.  Nonces range   *)
(* over all counter values, so carries and the wrap to zero happen.        *)

(* One of the block cipher's beginnings, and one of the hash's: beside     *)
(* these the others begin.                                                 *)
FirstBlock ==
  /\ layer = "ark" /\ round = 0 /\ build = "simd" /\ state = Blank
  /\ sbox[Blank[0]] = ByteOf[AesTable[1]] /\ rk[0][2] = ByteOf[5]

FirstHash == pc = "update" /\ absorbed = 0 /\ data[0] = 0

MCInit == /\ BlockInit /\ Init /\ (FirstBlock \/ FirstHash)
          /\ EngineInit /\ StretchInit

NoEngine  == calls = 0
NoStretch == step = "idle"

MCNext ==
  \/ /\ FirstHash /\ NoEngine /\ NoStretch
     /\ BlockNext /\ UNCHANGED <<vars, engineVars, stretchVars>>
  \/ /\ FirstBlock /\ NoEngine /\ NoStretch
     /\ Next /\ UNCHANGED <<blockVars, engineVars, stretchVars>>
  \/ /\ FirstBlock /\ FirstHash /\ NoStretch
     /\ EngineNext /\ UNCHANGED <<blockVars, vars, stretchVars>>
  \/ /\ FirstBlock /\ FirstHash /\ NoEngine
     /\ StretchNext /\ UNCHANGED <<blockVars, vars, engineVars>>
=============================================================================
