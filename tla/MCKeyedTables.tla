---------------------------- MODULE MCKeyedTables ---------------------------
(***************************************************************************)
(* The tables, and the two ciphers of the demo, which share nothing with   *)
(* them or with each other: a behaviour is of the one that begins.         *)
(***************************************************************************)
EXTENDS ByteTables, KeyedTables, DynamicAsm, ObfTables

(* KeyedTables with tables of N = 5 entries: the downward loop, the upward *)
(* pass and its wrap at N-1 all run, over every sequence of draws.  The    *)
(* stand-in for the AES table is a bijection that is not its own inverse   *)
(* and has a fixed point.                                                  *)
MCAesSBox    == (0 :> 1) @@ (1 :> 2) @@ (2 :> 0) @@ (3 :> 3) @@ (4 :> 4)
MCAesInvSBox == (0 :> 2) @@ (1 :> 0) @@ (2 :> 1) @@ (3 :> 3) @@ (4 :> 4)

(* DynamicAsm at its full size, with the key array of the demo and one of  *)
(* the other parity, and two blocks.                                       *)
MCXor(a, b)     == XorNumbers(a, b)
MCAsmSBox(v)    == Sub[v]
MCAsmInvSBox(w) == InvSub[w]
MCAsmKeys == {[r \in 0 .. NUM_ROUNDS - 1 |->
                 [k \in AsmIndex |-> MCXor((17 * r + 3 * k + d) % 256, 165)]] : d \in {0, 2}}
MCAsmBlocks == {[k \in AsmIndex |-> (k * k + 7 * v) % 256] : v \in 0 .. 1}

(* ObfPipeline with its own tables: a seed of zeros, for which the tent    *)
(* map has its fallback, and one that is not, all 256 P-boxes, two blocks. *)
(* In 17 rounds every index that is taken modulo 16 has gone round.        *)
MCSeeds == {"zero", "mixed"}
SeedBytes(s) == [k \in 0 .. 31 |-> IF s = "zero" THEN {} ELSE BitsOf[(17 * k * k + 77) % 256]]
TentMaps == [s \in MCSeeds |-> TentMap(SeedBytes(s), 16 * OBF_MAX_ROUNDS) @@ <<>>] @@ <<>>
Boxes    == [c \in ObfByte |-> GeneratePBox(c) @@ <<>>] @@ <<>>
InvBoxes == [c \in ObfByte |-> InverseOf(Boxes[c]) @@ <<>>] @@ <<>>
MCKeyMap(s, k)  == TentMaps[s][k]
MCPBox(c)       == Boxes[c]
MCInvPBox(c)    == InvBoxes[c]
MCObfSBox(x)    == BitsOf[Sub[NumberOf(x)]]
MCObfInvSBox(x) == BitsOf[InvSub[NumberOf(x)]]
MCObfBlocks     == {[k \in Pos |-> BitsOf[(k * k + 7 * v) % 256]] : v \in 0 .. 1}
MCRoundCounts   == {0, OBF_MAX_ROUNDS, OBF_MAX_ROUNDS + 1}

(* The first block of each cipher; AsmLoad and ObfLoad bring in the other. *)
MCInit == /\ Init
          /\ AsmInit /\ state[0] = 0
          /\ ObfInit /\ block[0] = {}

NoTable == kind = "sbox" /\ pc = "shuffle" /\ i = N - 1
Resting == calls + jobs > 0 /\ call = "none" /\ job = "none"

MCNext ==
  \/ calls + jobs = 0 /\ Next /\ UNCHANGED <<asmVars, obfVars>>
  \/ NoTable /\ jobs = 0 /\ AsmNext /\ UNCHANGED <<vars, obfVars>>
  \/ NoTable /\ calls = 0 /\ ObfNext /\ UNCHANGED <<vars, asmVars>>
  \/ Resting /\ UNCHANGED <<vars, asmVars, obfVars>>
=============================================================================
