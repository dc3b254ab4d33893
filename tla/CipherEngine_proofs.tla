------------------------ MODULE CipherEngine_proofs -------------------------
(***************************************************************************)
(* For every number of keys, block size, buffer length and sequence of     *)
(* calls: the engine's variables keep their types, no block meets the      *)
(* tables of two keys, and the engine implements Keystream.                *)
(*                                                                         *)
(* The refinement needs what the carry loop does to the number that the    *)
(* counter's bytes stand for, whatever their count and however far the     *)
(* carry runs.  Numbers are recursive functions (Value, Power); that they  *)
(* exist (Iterates) and what they compute is shown by least counterexample *)
(* (NatInductive).                                                         *)
(***************************************************************************)
EXTENDS CipherEngine, WellFoundedInduction, TLAPS

(***************************************************************************)
(* TablesOfOneKey speaks of the blocks only; that the tables agree when a  *)
(* transform starts rests on what each step of a derivation has done.      *)
(***************************************************************************)
Derivation ==
  /\ stage = "sbox"   => arg \in MasterKeys
  /\ stage = "expand" => arg \in MasterKeys /\ sboxKey = arg
  /\ stage = "blocks" => ready
  /\ ready /\ stage \in {"idle", "blocks"} =>
       roundKeys = <<sboxKey, sboxKey>> /\ sboxKey \in MasterKeys

IInv == EngineTypeOK /\ Derivation

-----------------------------------------------------------------------------
(* The counter's carry loop leaves a counter, whatever bytes it starts from. *)
LEMMA IncrementType ==
  ASSUME NEW c \in Counter PROVE Increment(c) \in Counter
<1> SUFFICES ASSUME NEW d \in Digit
             PROVE  (IF \A e \in Digit : e > d => c[e] = Base - 1
                     THEN (c[d] + 1) % Base ELSE c[d]) \in 0 .. Base - 1
  BY DEF Increment, Counter
<1>1. c[d] \in 0 .. Base - 1
  BY DEF Counter
<1>2. (c[d] + 1) % Base \in 0 .. Base - 1
  BY <1>1, EngineAssumption
<1> QED
  BY <1>1, <1>2

(* A block is never empty and never reaches past the buffer. *)
LEMMA BlockLenBounds ==
  ASSUME offset \in 0 .. Length, offset < Length
  PROVE  offset + BlockLen \in 0 .. Length /\ BlockLen > 0
BY EngineAssumption DEF BlockLen

(* The zeroed tables, with the flag down, satisfy the invariant. *)
LEMMA InitIInv == EngineInit => IInv
<1> SUFFICES ASSUME EngineInit PROVE IInv
  OBVIOUS
<1>1. 0 \in 0 .. Base - 1 /\ 0 \in 0 .. Length /\ 0 \in 0 .. MaxCalls
  BY EngineAssumption
<1>2. [d \in Digit |-> 0] \in Counter
  BY <1>1 DEF Counter
<1>3. EngineTypeOK
  BY <1>1, <1>2 DEF EngineInit, EngineTypeOK
<1>4. Derivation
  BY DEF EngineInit, Derivation
<1> QED
  BY <1>3, <1>4 DEF IInv

(* Each step of a derivation or of a transform preserves the invariant. *)
LEMMA StepIInv == IInv /\ [EngineNext]_engineVars => IInv'
<1> SUFFICES ASSUME IInv, [EngineNext]_engineVars PROVE IInv'
  OBVIOUS
<1>0. EngineTypeOK /\ Derivation
  BY DEF IInv
<1>1. ASSUME Called PROVE calls' \in 0 .. MaxCalls
  BY <1>0, <1>1, EngineAssumption DEF Called, EngineTypeOK
<1>2. [d \in Digit |-> 0] \in Counter /\ 0 \in 0 .. Length
  <2>1. 0 \in 0 .. Base - 1 /\ 0 \in 0 .. Length
    BY EngineAssumption
  <2> QED
    BY <2>1 DEF Counter
<1>3. ASSUME NEW k \in MasterKeys, Derive(k) PROVE IInv'
  <2>1. EngineTypeOK'
    BY <1>0, <1>1, <1>3 DEF Derive, EngineTypeOK
  <2>2. Derivation'
    BY <1>0, <1>3 DEF Derive, Derivation
  <2> QED
    BY <2>1, <2>2 DEF IInv
<1>4. CASE GenerateSbox
  <2>1. arg \in MasterKeys
    BY <1>0, <1>4 DEF GenerateSbox, Derivation
  <2>2. EngineTypeOK'
    BY <1>0, <1>4, <2>1 DEF GenerateSbox, EngineTypeOK
  <2>3. Derivation'
    BY <1>0, <1>4, <2>1 DEF GenerateSbox, Derivation
  <2> QED
    BY <2>2, <2>3 DEF IInv
<1>5. CASE ExpandRoundKeys
  <2>1. arg \in MasterKeys /\ sboxKey = arg
    BY <1>0, <1>5 DEF ExpandRoundKeys, Derivation
  <2>2. EngineTypeOK'
    BY <1>0, <1>5, <2>1 DEF ExpandRoundKeys, EngineTypeOK
  <2>3. Derivation'
    BY <1>0, <1>5, <2>1 DEF ExpandRoundKeys, Derivation
  <2> QED
    BY <2>2, <2>3 DEF IInv
<1>6. ASSUME NEW nonce \in Counter, Transform(nonce) PROVE IInv'
  <2>1. CASE ready
    <3>1. EngineTypeOK'
      BY <1>0, <1>1, <1>2, <1>6, <2>1 DEF Transform, EngineTypeOK
    <3>2. Derivation'
      BY <1>0, <1>6, <2>1 DEF Transform, Derivation
    <3> QED
      BY <3>1, <3>2 DEF IInv
  <2>2. CASE ~ready
    <3>1. EngineTypeOK'
      BY <1>0, <1>1, <1>6, <2>2 DEF Transform, EngineTypeOK
    <3>2. Derivation'
      BY <1>0, <1>6, <2>2 DEF Transform, Derivation
    <3> QED
      BY <3>1, <3>2 DEF IInv
  <2> QED
    BY <2>1, <2>2
<1>7. CASE TransformBlock
  <2>1. offset' \in 0 .. Length
    BY <1>0, <1>7, BlockLenBounds DEF TransformBlock, EngineTypeOK
  <2>2. counterBlock' \in Counter
    BY <1>0, <1>7, IncrementType DEF TransformBlock, EngineTypeOK
  <2>3. EngineTypeOK'
    BY <1>0, <1>7, <2>1, <2>2 DEF TransformBlock, EngineTypeOK
  <2>4. Derivation'
    BY <1>0, <1>7 DEF TransformBlock, Derivation
  <2> QED
    BY <2>3, <2>4 DEF IInv
<1>8. CASE TransformEnd
  <2>1. EngineTypeOK'
    BY <1>0, <1>2, <1>8 DEF TransformEnd, EngineTypeOK
  <2>2. Derivation'
    BY <1>0, <1>8 DEF TransformEnd, Derivation
  <2> QED
    BY <2>1, <2>2 DEF IInv
<1>9. CASE Finished \/ UNCHANGED engineVars
  BY <1>0, <1>9 DEF Finished, engineVars, IInv, EngineTypeOK, Derivation
<1> QED
  BY <1>3, <1>4, <1>5, <1>6, <1>7, <1>8, <1>9 DEF EngineNext

(* The tables agree with one another at every point where they may be used,  *)
(* in any sequence of calls of choi_derive_keys and choi_transform.           *)
THEOREM Inductive == EngineSpec => []IInv
  BY InitIInv, StepIInv, PTL DEF EngineSpec

-----------------------------------------------------------------------------
(* Flags, tables, counter and offset keep their types; in particular the   *)
(* block loop never passes the end of the buffer.                          *)
THEOREM TypeCorrect == EngineSpec => []EngineTypeOK
<1>1. IInv => EngineTypeOK
  BY DEF IInv
<1> QED
  BY <1>1, Inductive, PTL

(* No block is enciphered with tables of two keys, or of none. *)
THEOREM OneKeyPerBlock == EngineSpec => []TablesOfOneKey
<1>1. IInv => TablesOfOneKey
  BY EngineAssumption DEF IInv, Derivation, TablesOfOneKey
<1> QED
  BY <1>1, Inductive, PTL
-----------------------------------------------------------------------------
(* Induction over the natural numbers, with a set in the place of a formula. *)
LEMMA NatInductive ==
  ASSUME NEW S, 0 \in S, \A n \in Nat : n \in S => n + 1 \in S
  PROVE  \A n \in Nat : n \in S
<1> SUFFICES ASSUME NEW n \in Nat, n \notin S PROVE FALSE
  OBVIOUS
<1> DEFINE R == OpToRel(<, Nat)
           T == {m \in Nat : m \notin S}
<1>1. PICK t \in T : \A u \in T : <<u, t>> \notin R
  <2>1. T # {} /\ T \subseteq Nat
    OBVIOUS
  <2> QED
    BY <2>1, NatLessThanWellFounded, WFMin
<1>2. \A u \in T : ~(u < t)
  BY <1>1 DEF OpToRel
<1>3. t # 0 /\ t - 1 \in Nat /\ t - 1 < t
  OBVIOUS
<1>4. t - 1 \in S
  BY <1>2, <1>3
<1> QED
  BY <1>3, <1>4

(* v begins with a and goes on by the steps of F.                          *)
Iterated(v, n, V, a, F) ==
  v \in [0 .. n -> V] /\ v[0] = a /\ \A k \in 1 .. n : v[k] = F[k - 1][v[k - 1]]

(* Steps that stay in a set can be repeated as often as one likes.         *)
LEMMA Iterates ==
  \A n, V, a, F : n \in Nat /\ a \in V /\ F \in [0 .. n - 1 -> [V -> V]]
                  => \E v : Iterated(v, n, V, a, F)
<1> SUFFICES ASSUME NEW n \in Nat, NEW V, NEW a \in V, NEW F \in [0 .. n - 1 -> [V -> V]]
             PROVE  \E v : Iterated(v, n, V, a, F)
  OBVIOUS
<1> DEFINE Good(m, v) == /\ v \in [0 .. m -> V] /\ v[0] = a
                         /\ \A k \in 1 .. m : v[k] = F[k - 1][v[k - 1]]
           S == {m \in Nat : m <= n => \E v : Good(m, v)}
<1>1. 0 \in S
  <2>1. Good(0, [k \in 0 .. 0 |-> a])
    OBVIOUS
  <2> QED
    BY <2>1
<1>2. ASSUME NEW m \in Nat, m \in S PROVE m + 1 \in S
  <2> SUFFICES ASSUME m + 1 <= n PROVE \E w : Good(m + 1, w)
    OBVIOUS
  <2>1. PICK v : Good(m, v)
    BY <1>2
  <2> DEFINE w == [k \in 0 .. m + 1 |-> IF k = m + 1 THEN F[m][v[m]] ELSE v[k]]
  <2>2. F[m][v[m]] \in V
    BY <2>1
  <2>3. w \in [0 .. m + 1 -> V] /\ w[0] = a
    BY <2>1, <2>2
  <2>4. \A k \in 0 .. m : w[k] = v[k]
    OBVIOUS
  <2>5. ASSUME NEW k \in 1 .. m + 1 PROVE w[k] = F[k - 1][w[k - 1]]
    <3>1. CASE k = m + 1
      <4>1. k - 1 = m /\ w[m] = v[m] /\ k \in 0 .. m + 1
        BY <3>1, <2>4
      <4>2. w[k] = F[m][v[m]]
        BY <4>1, <3>1
      <4> HIDE DEF w
      <4> QED
        BY <4>1, <4>2
    <3>2. CASE k # m + 1
      <4>1. k \in 1 .. m /\ k - 1 \in 0 .. m /\ k \in 0 .. m
        BY <3>2
      <4> QED
        BY <4>1, <2>1, <2>4
    <3> QED
      BY <3>1, <3>2
  <2> QED
    BY <2>3, <2>5
<1> HIDE DEF S
<1>3. n \in S
  BY <1>1, <1>2, NatInductive
<1> QED
  BY <1>3 DEF S, Iterated

(* The numbers that the first bytes of a counter stand for.                *)
LEMMA ValueSteps ==
  ASSUME NEW c \in Counter
  PROVE  /\ Value(c)[0] = 0 /\ \A k \in 0 .. BLOCK_SIZE : Value(c)[k] \in Nat
         /\ \A k \in 1 .. BLOCK_SIZE : Value(c)[k] = Base * Value(c)[k - 1] + c[k - 1]
<1> DEFINE Rec(v) == v = [k \in 0 .. BLOCK_SIZE |->
                            IF k = 0 THEN 0 ELSE Base * v[k - 1] + c[k - 1]]
           F == [k \in 0 .. BLOCK_SIZE - 1 |-> [x \in Nat |-> Base * x + c[k]]]
<1>1. BLOCK_SIZE \in Nat /\ Base \in Nat /\ \A k \in 0 .. BLOCK_SIZE - 1 : c[k] \in Nat
  BY EngineAssumption DEF Counter, Digit
<1>2. F \in [0 .. BLOCK_SIZE - 1 -> [Nat -> Nat]]
  BY <1>1
<1> HIDE DEF F
<1>3. PICK v : Iterated(v, BLOCK_SIZE, Nat, 0, F)
  <2>1. BLOCK_SIZE \in Nat /\ 0 \in Nat
    BY <1>1
  <2> QED
    BY <1>2, <2>1, Iterates
<1>4. Rec(v)
  <2>1. \A k \in 1 .. BLOCK_SIZE : k - 1 \in 0 .. BLOCK_SIZE - 1 /\ v[k - 1] \in Nat
    BY <1>1, <1>3 DEF Iterated
  <2>2. \A k \in 1 .. BLOCK_SIZE : v[k] = Base * v[k - 1] + c[k - 1]
    BY <1>3, <2>1 DEF Iterated, F
  <2> QED
    BY <1>1, <1>3, <2>2 DEF Iterated
<1>5. Value(c) = CHOOSE w : Rec(w)
  BY DEF Value
<1> DEFINE u == Value(c)
<1>6. Rec(u)
  BY <1>4, <1>5
<1> HIDE DEF u
<1>7. /\ u[0] = 0 /\ \A k \in 1 .. BLOCK_SIZE : u[k] = Base * u[k - 1] + c[k - 1]
  BY <1>1, <1>6
<1> DEFINE S == {k \in Nat : k <= BLOCK_SIZE => u[k] \in Nat}
<1>8. 0 \in S /\ \A k \in Nat : k \in S => k + 1 \in S
  <2>1. 0 \in S
    BY <1>7
  <2>2. ASSUME NEW k \in Nat, k \in S, k + 1 <= BLOCK_SIZE PROVE u[k + 1] \in Nat
    <3>1. u[k + 1] = Base * u[k] + c[k] /\ u[k] \in Nat
      BY <1>1, <1>7, <2>2
    <3>2. c[k] \in Nat /\ Base * u[k] \in Nat
      BY <1>1, <3>1, <2>2
    <3> QED
      BY <3>1, <3>2
  <2> QED
    BY <2>1, <2>2
<1> HIDE DEF S
<1>9. \A k \in Nat : k \in S
  BY <1>8, NatInductive
<1>10. \A k \in 0 .. BLOCK_SIZE : k \in Nat /\ k <= BLOCK_SIZE
  BY <1>1
<1>11. \A k \in 0 .. BLOCK_SIZE : u[k] \in Nat
  BY <1>9, <1>10 DEF S
<1> QED
  BY <1>7, <1>11 DEF u

(* The numbers that so many bytes can stand for.                           *)
LEMMA PowerSteps ==
  /\ Power[0] = 1 /\ \A k \in 0 .. BLOCK_SIZE : Power[k] \in Nat \ {0}
  /\ \A k \in 1 .. BLOCK_SIZE : Power[k] = Base * Power[k - 1]
<1> DEFINE Rec(v) == v = [k \in 0 .. BLOCK_SIZE |-> IF k = 0 THEN 1 ELSE Base * v[k - 1]]
           F == [k \in 0 .. BLOCK_SIZE - 1 |-> [x \in Nat |-> Base * x]]
<1>1. BLOCK_SIZE \in Nat /\ Base \in Nat /\ Base > 1
  BY EngineAssumption
<1>2. F \in [0 .. BLOCK_SIZE - 1 -> [Nat -> Nat]]
  BY <1>1
<1> HIDE DEF F
<1>3. PICK v : Iterated(v, BLOCK_SIZE, Nat, 1, F)
  <2>1. BLOCK_SIZE \in Nat /\ 1 \in Nat
    BY <1>1
  <2> QED
    BY <1>2, <2>1, Iterates
<1>4. Rec(v)
  <2>1. \A k \in 1 .. BLOCK_SIZE : k - 1 \in 0 .. BLOCK_SIZE - 1 /\ v[k - 1] \in Nat
    BY <1>1, <1>3 DEF Iterated
  <2>2. \A k \in 1 .. BLOCK_SIZE : v[k] = Base * v[k - 1]
    BY <1>3, <2>1 DEF Iterated, F
  <2> QED
    BY <1>1, <1>3, <2>2 DEF Iterated
<1>5. Power = CHOOSE w : Rec(w)
  BY DEF Power
<1> DEFINE u == Power
<1>6. Rec(u)
  BY <1>4, <1>5
<1> HIDE DEF u
<1>7. /\ u[0] = 1 /\ \A k \in 1 .. BLOCK_SIZE : u[k] = Base * u[k - 1]
  BY <1>1, <1>6
<1> DEFINE S == {k \in Nat : k <= BLOCK_SIZE => u[k] \in Nat \ {0}}
<1>8. 0 \in S /\ \A k \in Nat : k \in S => k + 1 \in S
  <2>1. 0 \in S
    BY <1>7
  <2>2. ASSUME NEW k \in Nat, k \in S, k + 1 <= BLOCK_SIZE PROVE u[k + 1] \in Nat \ {0}
    <3>1. u[k + 1] = Base * u[k] /\ u[k] \in Nat \ {0}
      BY <1>1, <1>7, <2>2
    <3> QED
      BY <1>1, <3>1, <2>2
  <2> QED
    BY <2>1, <2>2
<1> HIDE DEF S
<1>9. \A k \in Nat : k \in S
  BY <1>8, NatInductive
<1>10. \A k \in 0 .. BLOCK_SIZE : k \in Nat /\ k <= BLOCK_SIZE
  BY <1>1
<1>11. \A k \in 0 .. BLOCK_SIZE : u[k] \in Nat \ {0}
  BY <1>9, <1>10 DEF S
<1> QED
  BY <1>7, <1>11 DEF u
-----------------------------------------------------------------------------
(* Larger numbers in front outweigh any digit behind.                      *)
LEMMA Scaled ==
  ASSUME NEW a \in Nat, NEW b \in Nat, a < b
  PROVE  /\ Base * a \in Nat /\ Base * b \in Nat /\ Base * (a + 1) = Base * a + Base
         /\ Base * a + Base <= Base * b
<1>1. Base \in Nat /\ b - a - 1 \in Nat
  BY EngineAssumption
<1>2. \A x, y \in Nat : x * y \in Nat
  BY Z3
<1>3. Base * (b - a - 1) \in Nat
  BY <1>1, <1>2
<1>4. Base * (b - a - 1) = Base * b - (Base * a + Base) /\ Base * (a + 1) = Base * a + Base
  BY <1>1, Z3
<1>5. Base * a \in Nat /\ Base * b \in Nat
  BY <1>1, <1>2
<1> QED
  BY <1>1, <1>3, <1>4, <1>5

(* The first k bytes stand for less than there are numbers of k bytes.     *)
LEMMA ValueBounded ==
  ASSUME NEW c \in Counter
  PROVE  \A k \in 0 .. BLOCK_SIZE : Value(c)[k] \in Nat /\ Value(c)[k] < Power[k]
<1> DEFINE S == {k \in Nat : k <= BLOCK_SIZE => Value(c)[k] < Power[k]}
<1>0. BLOCK_SIZE \in Nat /\ Base \in Nat
  BY EngineAssumption
<1>1. 0 \in S
  BY ValueSteps, PowerSteps
<1>2. ASSUME NEW k \in Nat, k \in S PROVE k + 1 \in S
  <2> SUFFICES ASSUME k + 1 <= BLOCK_SIZE PROVE Value(c)[k + 1] < Power[k + 1]
    OBVIOUS
  <2>1. /\ k \in 0 .. BLOCK_SIZE /\ k + 1 \in 1 .. BLOCK_SIZE /\ (k + 1) - 1 = k
        /\ k \in Digit /\ k + 1 \in 0 .. BLOCK_SIZE
    BY <1>0 DEF Digit
  <2>2. Value(c)[k] \in Nat /\ Power[k] \in Nat /\ Value(c)[k] < Power[k]
    BY <1>2, <2>1, ValueSteps, PowerSteps
  <2>3. Base * Value(c)[k] + Base <= Base * Power[k] /\ Base * Value(c)[k] \in Nat
        /\ Base * Power[k] \in Nat
    BY <2>2, Scaled
  <2>4. c[k] \in 0 .. Base - 1
    BY <2>1 DEF Counter
  <2>5. Value(c)[k + 1] = Base * Value(c)[k] + c[k] /\ Power[k + 1] = Base * Power[k]
    <3> HIDE DEF S
    <3> QED BY <2>1, ValueSteps, PowerSteps
  <2> QED
    BY <1>0, <2>3, <2>4, <2>5
<1> HIDE DEF S
<1>3. \A k \in Nat : k \in S
  BY <1>1, <1>2, NatInductive
<1>4. \A k \in 0 .. BLOCK_SIZE : k \in Nat /\ k <= BLOCK_SIZE
  BY <1>0
<1> QED
  BY <1>3, <1>4, ValueSteps DEF S

(* Counters that stand for the same number are the same.                   *)
LEMMA NumberInjective ==
  ASSUME NEW c \in Counter, NEW e \in Counter, CounterNumber(c) = CounterNumber(e)
  PROVE  c = e
<1> DEFINE S == {k \in Nat : k <= BLOCK_SIZE => Value(c)[BLOCK_SIZE - k] = Value(e)[BLOCK_SIZE - k]}
<1>0. BLOCK_SIZE \in Nat /\ Base \in Nat
  BY EngineAssumption
<1>1. ASSUME NEW k \in Digit, Value(c)[k + 1] = Value(e)[k + 1]
      PROVE  Value(c)[k] = Value(e)[k] /\ c[k] = e[k]
  <2>1. /\ k \in 0 .. BLOCK_SIZE /\ k + 1 \in 1 .. BLOCK_SIZE /\ (k + 1) - 1 = k
        /\ c[k] \in 0 .. Base - 1 /\ e[k] \in 0 .. Base - 1
    BY <1>0 DEF Digit, Counter
  <2>2. /\ Value(c)[k] \in Nat /\ Value(e)[k] \in Nat
        /\ Base * Value(c)[k] + c[k] = Base * Value(e)[k] + e[k]
    BY <1>1, <2>1, ValueSteps
  <2>3. CASE Value(c)[k] < Value(e)[k]
    BY <1>0, <2>1, <2>2, <2>3, Scaled
  <2>4. CASE Value(e)[k] < Value(c)[k]
    BY <1>0, <2>1, <2>2, <2>4, Scaled
  <2>5. CASE Value(e)[k] = Value(c)[k]
    <3>1. Base * Value(c)[k] \in Nat
      BY <1>0, <2>2, Z3
    <3> QED
      BY <2>1, <2>2, <2>5, <3>1
  <2> QED
    BY <2>2, <2>3, <2>4, <2>5
<1>2. 0 \in S
  BY <1>0 DEF CounterNumber
<1>3. ASSUME NEW k \in Nat, k \in S PROVE k + 1 \in S
  <2> SUFFICES ASSUME k + 1 <= BLOCK_SIZE PROVE Value(c)[BLOCK_SIZE - (k + 1)] = Value(e)[BLOCK_SIZE - (k + 1)]
    OBVIOUS
  <2>1. BLOCK_SIZE - (k + 1) \in Digit /\ (BLOCK_SIZE - (k + 1)) + 1 = BLOCK_SIZE - k
    BY <1>0 DEF Digit
  <2> QED
    BY <1>0, <1>1, <1>3, <2>1
<1> HIDE DEF S
<1>4. \A k \in Nat : k \in S
  BY <1>2, <1>3, NatInductive
<1>5. ASSUME NEW k \in Digit PROVE c[k] = e[k]
  <2>1. BLOCK_SIZE - (k + 1) \in Nat /\ BLOCK_SIZE - (k + 1) <= BLOCK_SIZE /\ BLOCK_SIZE - (BLOCK_SIZE - (k + 1)) = k + 1
    BY <1>0 DEF Digit
  <2>2. BLOCK_SIZE - (k + 1) \in S
    BY <1>4, <2>1
  <2>3. Value(c)[k + 1] = Value(e)[k + 1]
    BY <2>1, <2>2 DEF S
  <2> QED
    BY <1>1, <2>3
<1> QED
  BY <1>5 DEF Counter

(* All bytes from k on are about to wrap.                                  *)
Rising(c, k) == \A d \in Digit : d >= k => c[d] = Base - 1

(* What the carry loop does to the number of the first k bytes: nothing,   *)
(* unless the carry comes as far as them.                                  *)
LEMMA ValueIncremented ==
  ASSUME NEW c \in Counter
  PROVE  \A k \in 0 .. BLOCK_SIZE :
           Value(Increment(c))[k] =
             IF ~Rising(c, k) THEN Value(c)[k]
             ELSE IF Value(c)[k] + 1 = Power[k] THEN 0 ELSE Value(c)[k] + 1
<1> DEFINE i == Increment(c)
           Right(k) == Value(i)[k] =
             IF ~Rising(c, k) THEN Value(c)[k]
             ELSE IF Value(c)[k] + 1 = Power[k] THEN 0 ELSE Value(c)[k] + 1
           S == {k \in Nat : k <= BLOCK_SIZE => Right(k)}
<1>0. BLOCK_SIZE \in Nat /\ Base \in Nat /\ Base > 1
  BY EngineAssumption
<1>1. \A d \in Digit : i[d] = IF Rising(c, d + 1) THEN (c[d] + 1) % Base ELSE c[d]
  <2>1. \A d, e \in Digit : e > d <=> e >= d + 1
    BY <1>0 DEF Digit
  <2> QED
    BY <2>1 DEF Increment, Rising
<1>2. Right(0)
  BY IncrementType, ValueSteps, PowerSteps
<1>type. i \in Counter
  BY IncrementType
<1> HIDE DEF i
<1>3. ASSUME NEW k \in Nat, k + 1 <= BLOCK_SIZE, Right(k) PROVE Right(k + 1)
  <2>1. /\ k \in 0 .. BLOCK_SIZE /\ k + 1 \in 1 .. BLOCK_SIZE /\ k + 1 \in 0 .. BLOCK_SIZE
        /\ (k + 1) - 1 = k /\ k \in Digit /\ c[k] \in 0 .. Base - 1
    BY <1>0, <1>3 DEF Digit, Counter
  <2>2. /\ Value(c)[k] \in Nat /\ Power[k] \in Nat /\ Value(c)[k] < Power[k]
        /\ Value(i)[k] \in Nat
    BY <1>type, <2>1, ValueBounded, PowerSteps
  <2>3. /\ Value(c)[k + 1] = Base * Value(c)[k] + c[k]
        /\ Value(i)[k + 1] = Base * Value(i)[k] + i[k]
        /\ Power[k + 1] = Base * Power[k]
    BY <1>type, <2>1, ValueSteps, PowerSteps
  <2>4. Rising(c, k) <=> Rising(c, k + 1) /\ c[k] = Base - 1
    <3>1. \A d \in Digit : d >= k <=> d = k \/ d >= k + 1
      BY <1>0, <1>3 DEF Digit
    <3> QED
      BY <2>1, <3>1 DEF Rising
  <2>5. /\ Base * Value(c)[k] \in Nat /\ Base * Power[k] \in Nat
        /\ Base * (Value(c)[k] + 1) = Base * Value(c)[k] + Base
        /\ Base * Value(c)[k] + Base <= Base * Power[k]
    BY <2>2, Scaled
  <2>6. CASE ~Rising(c, k + 1)
    BY <1>1, <1>3, <2>1, <2>3, <2>4, <2>6
  <2>7. CASE Rising(c, k + 1) /\ c[k] # Base - 1
    <3>1. i[k] = c[k] + 1
      BY <1>0, <1>1, <2>1, <2>7
    <3>2. Value(i)[k] = Value(c)[k]
      BY <1>3, <2>4, <2>7
    <3> QED
      BY <1>0, <2>1, <2>3, <2>5, <2>7, <3>1, <3>2
  <2>8. CASE Rising(c, k + 1) /\ c[k] = Base - 1
    <3>1. i[k] = 0
      BY <1>0, <1>1, <2>1, <2>8
    <3>2. Value(i)[k] = IF Value(c)[k] + 1 = Power[k] THEN 0 ELSE Value(c)[k] + 1
      BY <1>3, <2>4, <2>8
    <3>3. CASE Value(c)[k] + 1 = Power[k]
      <4>1. Value(i)[k] = 0 /\ Base * 0 = 0
        BY <1>0, <3>2, <3>3
      <4>2. Base * Value(c)[k] + Base = Base * Power[k]
        BY <2>5, <3>3
      <4> QED
        BY <1>0, <2>3, <2>5, <2>8, <3>1, <4>1, <4>2
    <3>4. CASE Value(c)[k] + 1 # Power[k]
      <4>1. Value(c)[k] + 1 < Power[k] /\ Value(c)[k] + 1 \in Nat
        BY <2>2, <3>4
      <4>2. Base * (Value(c)[k] + 1) + Base <= Base * Power[k]
        BY <2>2, <4>1, Scaled
      <4>3. Value(i)[k] = Value(c)[k] + 1
        BY <3>2, <3>4
      <4> QED
        BY <1>0, <2>3, <2>5, <2>8, <3>1, <4>2, <4>3
    <3> QED
      BY <3>3, <3>4
  <2> QED
    BY <2>6, <2>7, <2>8
<1> HIDE DEF Right
<1>4. \A k \in Nat : k \in S => k + 1 \in S
  BY <1>0, <1>3
<1>5. 0 \in S
  BY <1>2
<1> HIDE DEF S
<1>6. \A k \in Nat : k \in S
  BY <1>4, <1>5, NatInductive
<1>7. \A k \in 0 .. BLOCK_SIZE : k \in Nat /\ k <= BLOCK_SIZE
  BY <1>0
<1>8. \A k \in 0 .. BLOCK_SIZE : Right(k)
  BY <1>6, <1>7 DEF S
<1> QED
  BY <1>8 DEF Right, i

(* The carry loop adds one to the number, and wraps the highest to zero.   *)
LEMMA NumberIncremented ==
  ASSUME NEW c \in Counter
  PROVE  CounterNumber(Increment(c)) = (CounterNumber(c) + 1) % Numbers
<1>1. BLOCK_SIZE \in Nat /\ BLOCK_SIZE \in 0 .. BLOCK_SIZE /\ Rising(c, BLOCK_SIZE)
  BY EngineAssumption DEF Rising, Digit
<1>2. /\ CounterNumber(c) \in Nat /\ Numbers \in Nat /\ CounterNumber(c) < Numbers
  BY <1>1, ValueBounded, PowerSteps DEF CounterNumber, Numbers
<1>3. CounterNumber(Increment(c)) = IF CounterNumber(c) + 1 = Numbers THEN 0 ELSE CounterNumber(c) + 1
  BY <1>1, ValueIncremented DEF CounterNumber, Numbers
<1>4. \A n \in Nat \ {0} : n % n = 0 /\ \A x \in 0 .. n - 1 : x % n = x
  BY Z3
<1> QED
  BY <1>2, <1>3, <1>4
-----------------------------------------------------------------------------
(***************************************************************************)
(* The engine as an implementation of Keystream.  Besides IInv, what has   *)
(* been xored over each byte are keystream bytes of its own place, made    *)
(* with tables of one key; and while a transform is under way its counter  *)
(* stands for the nonce and the number of blocks done.                     *)
(***************************************************************************)
OwnPads(P, d) == \A p \in P : \E k \in MasterKeys, c \in Counter : p = <<<<k, k>>, k, c, d>>

Counted ==
  stage = "blocks" =>
       /\ arg \in Counter
       /\ offset < Length => /\ offset % BLOCK_SIZE = 0
                             /\ CounterNumber(counterBlock) = (CounterNumber(arg) + (offset \div BLOCK_SIZE)) % Numbers

Ciphered == /\ text = [o \in 0 .. Length - 1 |-> text[o]]
            /\ \A o \in 0 .. Length - 1 : OwnPads(text[o], o % BLOCK_SIZE)
            /\ Counted

(* A counter stands for one of the numbers there are.                      *)
LEMMA NumberRange ==
  /\ Numbers \in Nat \ {0}
  /\ \A c \in Counter : CounterNumber(c) \in 0 .. Numbers - 1
<1>1. BLOCK_SIZE \in 0 .. BLOCK_SIZE
  BY EngineAssumption
<1>2. Numbers \in Nat \ {0}
  BY <1>1, PowerSteps DEF Numbers
<1>3. ASSUME NEW c \in Counter PROVE CounterNumber(c) \in 0 .. Numbers - 1
  <2>1. CounterNumber(c) \in Nat /\ CounterNumber(c) < Numbers
    BY <1>1, ValueBounded DEF CounterNumber, Numbers
  <2> QED
    BY <1>2, <2>1
<1> QED
  BY <1>2, <1>3

(* Remainders and quotients of the places of a block.                      *)
LEMMA Places ==
  ASSUME NEW m \in Nat \ {0}, NEW a \in Nat, a % m = 0
  PROVE  /\ \A o \in a .. a + m - 1 : o % m = o - a /\ o \div m = a \div m
         /\ (a + m) % m = 0 /\ (a + m) \div m = (a \div m) + 1
         /\ a \div m \in Nat /\ 0 % m = 0 /\ 0 \div m = 0
<1>1. a = m * (a \div m) /\ a \div m \in Nat
  BY Z3
<1>2. ASSUME NEW x \in Nat, NEW q \in Nat, NEW r \in 0 .. m - 1, x = m * q + r
      PROVE  x % m = r /\ x \div m = q
  <2> DEFINE y == x \div m
             z == x % m
  <2>1. y \in Int /\ z \in 0 .. m - 1 /\ x = m * y + z
    BY Z3
  <2>2. m * (y - q) = r - z
    BY <1>2, <2>1, Z3
  <2>3. y - q = 0
    BY <2>1, <2>2, Z3
  <2> QED
    BY <2>1, <2>2, <2>3, Z3
<1>3. ASSUME NEW o \in a .. a + m - 1 PROVE o % m = o - a /\ o \div m = a \div m
  <2>1. o \in Nat /\ o - a \in 0 .. m - 1 /\ o = m * (a \div m) + (o - a)
    BY <1>1
  <2> QED
    BY <1>1, <1>2, <2>1
<1>4. (a + m) % m = 0 /\ (a + m) \div m = (a \div m) + 1
  <2>1. a + m \in Nat /\ (a \div m) + 1 \in Nat /\ 0 \in 0 .. m - 1
    BY <1>1
  <2>2. a + m = m * ((a \div m) + 1) + 0
    BY <1>1, Z3
  <2> QED
    BY <1>2, <2>1, <2>2
<1>5. 0 % m = 0 /\ 0 \div m = 0
  <2>1. 0 \in Nat /\ 0 \in 0 .. m - 1 /\ 0 = m * 0 + 0
    OBVIOUS
  <2> QED
    BY <1>2, <2>1
<1>6. a \div m \in Nat
  BY <1>1
<1> QED
  BY <1>3, <1>4, <1>5, <1>6

(* One added before or after the wrap.                                     *)
LEMMA WrappedNext ==
  ASSUME NEW a \in Nat, NEW m \in Nat \ {0}
  PROVE  ((a % m) + 1) % m = (a + 1) % m
<1> DEFINE q == a \div m
           r == ((a % m) + 1) \div m
           s == (a + 1) \div m
           x == ((a % m) + 1) % m
           y == (a + 1) % m
<1>1. /\ q \in Int /\ r \in Int /\ s \in Int /\ x \in 0 .. m - 1 /\ y \in 0 .. m - 1
      /\ a = m * q + (a % m) /\ a % m \in 0 .. m - 1
  BY Z3
<1>2. (a % m) + 1 = m * r + x /\ a + 1 = m * s + y
  BY Z3
<1>3. x - y = m * (s - r - q)
  BY <1>1, <1>2, Z3
<1>4. s - r - q = 0
  BY <1>1, <1>3, Z3
<1> QED
  BY <1>1, <1>3, <1>4, Z3

NamedAll(P) == {Named(p) : p \in P}

(* Naming keystream bytes by the number of their counter confuses none, so *)
(* it makes no difference whether it is done before or after a xor.        *)
LEMMA NamedXor ==
  \A d, P, q : OwnPads(P, d) /\ OwnPads({q}, d) =>
    /\ NamedAll(SymDiff(P, {q})) = SymDiff(NamedAll(P), {Named(q)})
    /\ OwnPads(SymDiff(P, {q}), d)
<1> SUFFICES ASSUME NEW d, NEW P, OwnPads(P, d), NEW q, OwnPads({q}, d)
             PROVE  /\ NamedAll(SymDiff(P, {q})) = SymDiff(NamedAll(P), {Named(q)})
                    /\ OwnPads(SymDiff(P, {q}), d)
  OBVIOUS
<1>1. ASSUME NEW k, NEW c
      PROVE  Named(<<<<k, k>>, k, c, d>>) = <<k, CounterNumber(c), d>>
  BY DEF Named, Coherent
<1>2. ASSUME NEW p \in P, Named(p) = Named(q) PROVE p = q
  <2>1. PICK k \in MasterKeys, c \in Counter : p = <<<<k, k>>, k, c, d>>
    BY DEF OwnPads
  <2>2. PICK l \in MasterKeys, e \in Counter : q = <<<<l, l>>, l, e, d>>
    BY DEF OwnPads
  <2>3. k = l /\ CounterNumber(c) = CounterNumber(e)
    BY <1>1, <1>2, <2>1, <2>2
  <2> QED
    BY <2>1, <2>2, <2>3, NumberInjective
<1>3. SymDiff(P, {q}) = IF q \in P THEN P \ {q} ELSE P \cup {q}
  BY DEF SymDiff
<1>4. SymDiff(NamedAll(P), {Named(q)}) =
        IF q \in P THEN NamedAll(P) \ {Named(q)} ELSE NamedAll(P) \cup {Named(q)}
  BY <1>2 DEF SymDiff, NamedAll
<1> HIDE DEF Named, SymDiff
<1>5. OwnPads(SymDiff(P, {q}), d)
  BY <1>3 DEF OwnPads
<1>6. CASE q \in P
  BY <1>2, <1>3, <1>4, <1>5, <1>6 DEF NamedAll
<1>7. CASE q \notin P
  BY <1>3, <1>4, <1>5, <1>7 DEF NamedAll
<1> QED
  BY <1>6, <1>7

(* Xoring twice.                                                           *)
LEMMA XorTwice == ASSUME NEW P, NEW x PROVE SymDiff(SymDiff(P, {x}), {x}) = P
  BY DEF SymDiff

(* What a block of the loop does to a byte, and where it leaves counter    *)
(* and offset.                                                             *)
LEMMA BlockStep ==
  ASSUME IInv, Ciphered, TransformBlock
  PROVE  /\ Ciphered'
         /\ \A o \in 0 .. Length - 1 :
              LET pad == <<sboxKey, (CounterNumber(arg) + (o \div BLOCK_SIZE)) % Numbers, o % BLOCK_SIZE>>
              IN  IF o \in offset .. offset' - 1
                  THEN NamedAll(text'[o]) = SymDiff(NamedAll(text[o]), {pad})
                  ELSE text'[o] = text[o]
<1> DEFINE n == offset
           pad(o) == <<sboxKey, (CounterNumber(arg) + (o \div BLOCK_SIZE)) % Numbers, o % BLOCK_SIZE>>
<1>1. /\ BLOCK_SIZE \in Nat \ {0} /\ Length \in Nat /\ n \in Nat /\ n < Length
      /\ counterBlock \in Counter /\ arg \in Counter /\ stage = "blocks" /\ n % BLOCK_SIZE = 0
      /\ CounterNumber(counterBlock) = (CounterNumber(arg) + (n \div BLOCK_SIZE)) % Numbers
      /\ sboxKey \in MasterKeys /\ roundKeys = <<sboxKey, sboxKey>>
      /\ text = [o \in 0 .. Length - 1 |-> text[o]]
      /\ \A o \in 0 .. Length - 1 : OwnPads(text[o], o % BLOCK_SIZE)
  BY EngineAssumption DEF IInv, EngineTypeOK, Derivation, Ciphered, Counted, TransformBlock
<1>2. /\ offset' \in 0 .. Length /\ offset' = n + BlockLen
      /\ offset' = n + BLOCK_SIZE \/ offset' = Length
      /\ offset' <= n + BLOCK_SIZE /\ n < offset'
  BY <1>1 DEF TransformBlock, BlockLen
<1>3. /\ \A o \in n .. n + BLOCK_SIZE - 1 : o % BLOCK_SIZE = o - n /\ o \div BLOCK_SIZE = n \div BLOCK_SIZE
      /\ (n + BLOCK_SIZE) % BLOCK_SIZE = 0 /\ (n + BLOCK_SIZE) \div BLOCK_SIZE = (n \div BLOCK_SIZE) + 1
      /\ n \div BLOCK_SIZE \in Nat
  BY <1>1, Places
<1>4. \A o \in 0 .. Length - 1 :
        text'[o] = IF o \in n .. offset' - 1
                   THEN SymDiff(text[o], {KeystreamByte(counterBlock, o - n)}) ELSE text[o]
  <2>1. DOMAIN text = 0 .. Length - 1 /\ n + BlockLen = offset'
    BY <1>1, <1>2
  <2>2. text' = [o \in DOMAIN text |->
                  IF o \in n .. n + BlockLen - 1
                  THEN SymDiff(text[o], {KeystreamByte(counterBlock, o - n)}) ELSE text[o]]
    BY DEF TransformBlock
  <2>3. \A o \in DOMAIN text :
          text'[o] = IF o \in n .. n + BlockLen - 1
                     THEN SymDiff(text[o], {KeystreamByte(counterBlock, o - n)}) ELSE text[o]
    BY <2>2, Zenon
  <2>4. n .. n + BlockLen - 1 = n .. offset' - 1
    <3>1. BlockLen \in Nat
      BY <1>1 DEF BlockLen
    <3> QED
      BY <1>1, <2>1, <3>1
  <2> QED
    BY <2>1, <2>3, <2>4, Zenon
<1>5. text' = [o \in 0 .. Length - 1 |-> text'[o]]
  BY <1>1 DEF TransformBlock
<1>6. ASSUME NEW o \in 0 .. Length - 1, o \in n .. offset' - 1
      PROVE  /\ NamedAll(text'[o]) = SymDiff(NamedAll(text[o]), {pad(o)})
             /\ OwnPads(text'[o], o % BLOCK_SIZE)
  <2> DEFINE q == <<<<sboxKey, sboxKey>>, sboxKey, counterBlock, o % BLOCK_SIZE>>
  <2>1. o % BLOCK_SIZE = o - n /\ o \div BLOCK_SIZE = n \div BLOCK_SIZE
    BY <1>1, <1>2, <1>3, <1>6
  <2>2. KeystreamByte(counterBlock, o - n) = q
    BY <1>1, <2>1 DEF KeystreamByte
  <2>3. OwnPads({q}, o % BLOCK_SIZE)
    BY <1>1 DEF OwnPads
  <2>4. Named(q) = pad(o)
    BY <1>1, <2>1 DEF Named, Coherent
  <2>5. text'[o] = SymDiff(text[o], {q})
    BY <1>4, <1>6, <2>2
  <2>6. OwnPads(text[o], o % BLOCK_SIZE)
    BY <1>1
  <2> HIDE DEF q, pad
  <2>7. /\ NamedAll(SymDiff(text[o], {q})) = SymDiff(NamedAll(text[o]), {Named(q)})
        /\ OwnPads(SymDiff(text[o], {q}), o % BLOCK_SIZE)
    BY <2>3, <2>6, NamedXor
  <2> QED
    BY <2>4, <2>5, <2>7
<1>7. \A o \in 0 .. Length - 1 : OwnPads(text'[o], o % BLOCK_SIZE)
  BY <1>1, <1>4, <1>6
<1>8. Counted'
  <2> SUFFICES ASSUME offset' < Length
               PROVE  /\ offset' % BLOCK_SIZE = 0
                      /\ CounterNumber(counterBlock') = (CounterNumber(arg) + (offset' \div BLOCK_SIZE)) % Numbers
    BY <1>1 DEF Counted, TransformBlock
  <2>1. offset' = n + BLOCK_SIZE
    BY <1>2
  <2>2. CounterNumber(counterBlock') = (CounterNumber(counterBlock) + 1) % Numbers
    BY <1>1, NumberIncremented DEF TransformBlock
  <2>3. /\ Numbers \in Nat \ {0} /\ CounterNumber(arg) \in Nat
    BY <1>1, NumberRange
  <2> DEFINE a == CounterNumber(arg) + (n \div BLOCK_SIZE)
  <2>4. a \in Nat /\ a + 1 = CounterNumber(arg) + ((n \div BLOCK_SIZE) + 1)
    BY <1>3, <2>3
  <2>5. ((a % Numbers) + 1) % Numbers = (a + 1) % Numbers
    <3> HIDE DEF a
    <3> QED
      BY <2>3, <2>4, WrappedNext
  <2> QED
    BY <1>1, <1>3, <2>1, <2>2, <2>4, <2>5
<1> QED
  BY <1>4, <1>5, <1>6, <1>7, <1>8 DEF Ciphered

(* Nothing is enciphered at the start, and no transform is under way.      *)
LEMMA InitCiphered == EngineInit => Ciphered
  BY DEF EngineInit, Ciphered, OwnPads, Counted

(* The steps that leave the buffer alone.                                  *)
LEMMA DataUnchanged ==
  ASSUME Ciphered, text' = text, Counted' PROVE Ciphered'
  BY DEF Ciphered

(* Every step leaves keystream bytes where they belong.                    *)
LEMMA StepCiphered == IInv /\ Ciphered /\ [EngineNext]_engineVars => Ciphered'
<1> SUFFICES ASSUME IInv, Ciphered, [EngineNext]_engineVars PROVE Ciphered'
  OBVIOUS
<1>1. Counted
  BY DEF Ciphered
<1>2. CASE TransformBlock
  BY <1>2, BlockStep
<1>3. ASSUME NEW k \in MasterKeys, Derive(k) PROVE Ciphered'
  BY <1>3, DataUnchanged DEF Derive, Counted
<1>4. CASE GenerateSbox
  BY <1>4, DataUnchanged DEF GenerateSbox, Counted
<1>5. CASE ExpandRoundKeys
  BY <1>5, DataUnchanged DEF ExpandRoundKeys, Counted
<1>6. ASSUME NEW nonce \in Counter, Transform(nonce) PROVE Ciphered'
  <2>1. CASE ready
    <3>1. /\ stage' = "blocks" /\ arg' = nonce /\ counterBlock' = nonce /\ offset' = 0 /\ text' = text
      BY <1>6, <2>1 DEF Transform
    <3>2. BLOCK_SIZE \in Nat \ {0} /\ 0 % BLOCK_SIZE = 0 /\ 0 \div BLOCK_SIZE = 0
      <4>1. BLOCK_SIZE \in Nat \ {0}
        BY EngineAssumption
      <4>2. \A m \in Nat \ {0} : 0 % m = 0
        BY Z3
      <4> QED
        BY <4>1, <4>2, Places
    <3>3. \A m \in Nat \ {0} : \A x \in 0 .. m - 1 : (x + 0) % m = x
      BY Z3
    <3>4. (CounterNumber(nonce) + 0) % Numbers = CounterNumber(nonce)
      BY <3>3, NumberRange
    <3>5. Counted'
      BY <3>1, <3>2, <3>4 DEF Counted
    <3> QED
      BY <3>1, <3>5, DataUnchanged
  <2>2. CASE ~ready
    <3>1. UNCHANGED <<stage, arg, counterBlock, offset, text>>
      BY <1>6, <2>2 DEF Transform
    <3>2. Counted'
      BY <1>1, <3>1 DEF Counted
    <3> QED
      BY <3>1, <3>2, DataUnchanged
  <2> QED
    BY <2>1, <2>2
<1>7. CASE TransformEnd
  BY <1>7, DataUnchanged DEF TransformEnd, Counted
<1>8. CASE Finished \/ UNCHANGED engineVars
  <2>1. UNCHANGED <<stage, arg, counterBlock, offset, text>>
    BY <1>8 DEF Finished, engineVars
  <2>2. Counted'
    BY <1>1, <2>1 DEF Counted
  <2> QED
    BY <2>1, <2>2, DataUnchanged
<1> QED
  BY <1>2, <1>3, <1>4, <1>5, <1>6, <1>7, <1>8 DEF EngineNext
-----------------------------------------------------------------------------
(* What Keystream sees of the buffer, byte by byte.                        *)
Promised(o) == <<sboxKey, (CounterNumber(arg) + (o \div BLOCK_SIZE)) % Numbers, o % BLOCK_SIZE>>

Underway(o) == stage = "blocks" /\ o < offset

Seen(o) == IF Underway(o) THEN SymDiff(NamedAll(text[o]), {Promised(o)})
                          ELSE NamedAll(text[o])

(* Together they are the buffer that Keystream sees, before a step...      *)
LEMMA SeenData ==
  ASSUME Ciphered PROVE Spec_data = [o \in 0 .. Length - 1 |-> Seen(o)]
<1>1. DOMAIN text = 0 .. Length - 1
  BY DEF Ciphered
<1> QED
  BY <1>1, Zenon DEF Spec_data, Seen, Underway, Promised, NamedAll

(* The code begins as Keystream does.                                      *)
LEMMA InitRefines == EngineInit => K!Init
<1> SUFFICES ASSUME EngineInit PROVE K!Init
  OBVIOUS
<1>1. Ciphered /\ stage = "idle" /\ sboxKey = NoKey
  BY InitCiphered DEF EngineInit
<1>2. \A o \in 0 .. Length - 1 : Seen(o) = {}
  BY DEF EngineInit, Seen, Underway, NamedAll
<1>3. Spec_data = [o \in 0 .. Length - 1 |-> {}]
  BY <1>1, <1>2, SeenData
<1>4. Spec_key = NoKey
  BY <1>1 DEF Spec_key
<1> QED
  BY <1>3, <1>4 DEF K!Init

(* ... and after it.                                                       *)
LEMMA SeenDataNext ==
  ASSUME Ciphered' PROVE Spec_data' = [o \in 0 .. Length - 1 |-> Seen(o)']
<1>1. DOMAIN text' = 0 .. Length - 1
  BY DEF Ciphered
<1> QED
  BY <1>1, Zenon DEF Spec_data, Seen, Underway, Promised, NamedAll

(* A step of the code that leaves key and bytes as Keystream sees them.    *)
LEMMA Stutters ==
  ASSUME Ciphered, Ciphered', Spec_key' = Spec_key,
         \A o \in 0 .. Length - 1 : Seen(o)' = Seen(o)
  PROVE  UNCHANGED <<Spec_key, Spec_data>>
<1>1. Spec_data' = [o \in 0 .. Length - 1 |-> Seen(o)']
  BY SeenDataNext
<1>2. Spec_data = [o \in 0 .. Length - 1 |-> Seen(o)]
  BY SeenData
<1>3. Spec_data' = Spec_data
  BY <1>1, <1>2
<1> QED
  BY <1>3

(* Outside a transform, what is seen is what is there.                     *)
LEMMA SeenAtRest ==
  ASSUME stage # "blocks", stage' # "blocks", text' = text
  PROVE  \A o \in 0 .. Length - 1 : Seen(o)' = Seen(o)
  BY DEF Seen, Underway, NamedAll

(* Deriving a key shows at once.                                           *)
LEMMA DeriveRefines ==
  ASSUME Ciphered, Ciphered', NEW k \in MasterKeys, Derive(k) PROVE K!Derive(k)
<1>1. stage = "idle" /\ stage' = "sbox" /\ arg' = k /\ text' = text
  BY DEF Derive
<1>2. Spec_key' = k
  BY <1>1 DEF Spec_key
<1>3. Spec_data' = Spec_data
  <2>1. \A o \in 0 .. Length - 1 : Seen(o)' = Seen(o)
    BY <1>1, SeenAtRest
  <2> QED
    BY <2>1, SeenData, SeenDataNext
<1> QED
  BY <1>2, <1>3 DEF K!Derive

(* Filling the tables does not show.                                       *)
LEMMA TablesRefine ==
  ASSUME IInv, Ciphered, Ciphered', GenerateSbox \/ ExpandRoundKeys
  PROVE  UNCHANGED <<Spec_key, Spec_data>>
<1>1. Spec_key' = Spec_key
  BY DEF GenerateSbox, ExpandRoundKeys, Spec_key, IInv, Derivation
<1>2. \A o \in 0 .. Length - 1 : Seen(o)' = Seen(o)
  BY SeenAtRest DEF GenerateSbox, ExpandRoundKeys
<1> QED
  BY <1>1, <1>2, Stutters

(* A transform that starts shows nothing yet.                              *)
LEMMA StartRefines ==
  ASSUME Ciphered, Ciphered', NEW nonce \in Counter, Transform(nonce)
  PROVE  UNCHANGED <<Spec_key, Spec_data>>
<1>1. /\ stage = "idle" /\ sboxKey' = sboxKey /\ text' = text
      /\ (stage' = "blocks" /\ offset' = 0) \/ stage' = "idle"
  BY DEF Transform
<1>2. \A o \in 0 .. Length - 1 : ~Underway(o) /\ ~Underway(o)'
  BY <1>1 DEF Underway
<1>3. \A o \in 0 .. Length - 1 : Seen(o)' = Seen(o)
  BY <1>1, <1>2 DEF Seen, NamedAll
<1>4. Spec_key' = Spec_key
  BY <1>1 DEF Spec_key
<1> QED
  BY <1>3, <1>4, Stutters

(* The bytes below the end of a block are those below its beginning and    *)
(* its own.                                                                *)
LEMMA BelowTheEnd ==
  \A a, b, o \in Nat : a <= b =>
    /\ o \in a .. b - 1    => o < b /\ ~(o < a)
    /\ o \notin a .. b - 1 => (o < b <=> o < a)
  OBVIOUS

(* What a block has had xored over it is taken back off.                   *)
LEMMA BlockRefines ==
  ASSUME IInv, Ciphered, Ciphered', TransformBlock
  PROVE  UNCHANGED <<Spec_key, Spec_data>>
<1>0. offset \in Nat /\ offset' \in Nat /\ offset <= offset'
  <2>1. offset \in Nat /\ Length \in Nat /\ BlockLen \in Nat /\ offset' = offset + BlockLen
    BY EngineAssumption DEF TransformBlock, IInv, EngineTypeOK, BlockLen
  <2> QED
    BY <2>1
<1>1. stage = "blocks" /\ stage' = "blocks" /\ sboxKey' = sboxKey /\ arg' = arg
  BY DEF TransformBlock
<1>2. ASSUME NEW o \in 0 .. Length - 1 PROVE Seen(o)' = Seen(o)
  <2>0. o \in Nat
    BY EngineAssumption
  <2>1. Promised(o)' = Promised(o)
    BY <1>1 DEF Promised
  <2>2. NamedAll(text[o])' = NamedAll(text'[o])
    BY DEF NamedAll
  <2>3. CASE o \in offset .. offset' - 1
    <3>1. Underway(o)' /\ ~Underway(o)
      <4>1. o < offset' /\ ~(o < offset)
        BY <1>0, <2>0, <2>3, BelowTheEnd
      <4> QED
        BY <1>1, <4>1, Zenon DEF Underway
    <3>2. NamedAll(text'[o]) = SymDiff(NamedAll(text[o]), {Promised(o)})
      BY <2>3, BlockStep DEF Promised
    <3> QED
      BY <2>1, <2>2, <3>1, <3>2, XorTwice DEF Seen
  <2>4. CASE o \notin offset .. offset' - 1
    <3>1. text'[o] = text[o]
      BY <2>4, BlockStep
    <3>2. Underway(o)' <=> Underway(o)
      <4>1. o < offset' <=> o < offset
        BY <1>0, <2>0, <2>4, BelowTheEnd
      <4> QED
        BY <1>1, <4>1, Zenon DEF Underway
    <3> QED
      BY <2>1, <2>2, <3>1, <3>2 DEF Seen
  <2> QED
    BY <2>3, <2>4
<1>3. Spec_key' = Spec_key
  BY <1>1 DEF Spec_key
<1> QED
  BY <1>2, <1>3, Stutters

(* At the return the whole transform shows.                                *)
LEMMA EndRefines ==
  ASSUME IInv, Ciphered, Ciphered', TransformEnd
  PROVE  \E n \in 0 .. Numbers - 1 : K!Transform(n)
<1>1. /\ stage = "blocks" /\ stage' = "idle" /\ offset = Length /\ sboxKey' = sboxKey /\ text' = text
      /\ arg \in Counter /\ sboxKey \in MasterKeys /\ sboxKey # NoKey /\ Length \in Nat
  BY EngineAssumption DEF TransformEnd, IInv, EngineTypeOK, Derivation, Ciphered, Counted
<1>2. CounterNumber(arg) \in 0 .. Numbers - 1
  BY <1>1, NumberRange
<1>3. Spec_key = sboxKey /\ Spec_key' = sboxKey
  BY <1>1 DEF Spec_key
<1>4. DOMAIN Spec_data = 0 .. Length - 1
  BY SeenData
<1>5. ASSUME NEW o \in 0 .. Length - 1
      PROVE  Seen(o)' = SymDiff(Seen(o), {Promised(o)})
  <2>1. Underway(o) /\ ~Underway(o)'
    BY <1>1 DEF Underway
  <2>2. Seen(o)' = NamedAll(text[o])
    BY <1>1, <2>1 DEF Seen, NamedAll
  <2>3. Seen(o) = SymDiff(NamedAll(text[o]), {Promised(o)})
    BY <2>1 DEF Seen
  <2> QED
    BY <2>2, <2>3, XorTwice
<1>6. /\ \A o : K!Pad(sboxKey, CounterNumber(arg), o) = Promised(o)
      /\ \A P, Q : K!SymDiff(P, Q) = SymDiff(P, Q)
  BY DEF K!Pad, K!SymDiff, Promised, SymDiff
<1>7. Spec_data' = [o \in DOMAIN Spec_data |->
                      K!SymDiff(Spec_data[o], {K!Pad(Spec_key, CounterNumber(arg), o)})]
  <2>1. \A o \in 0 .. Length - 1 :
          Seen(o)' = K!SymDiff(Spec_data[o], {K!Pad(Spec_key, CounterNumber(arg), o)})
    BY <1>3, <1>5, <1>6, SeenData
  <2>2. Spec_data' = [o \in 0 .. Length - 1 |-> Seen(o)']
    BY SeenDataNext
  <2> QED
    BY <1>4, <2>1, <2>2
<1>8. K!Transform(CounterNumber(arg))
  BY <1>1, <1>3, <1>7 DEF K!Transform
<1> QED
  BY <1>2, <1>8

(* Every step of the code is a step of Keystream or one that it does not   *)
(* see.                                                                    *)
LEMMA StepRefines ==
  IInv /\ Ciphered /\ Ciphered' /\ [EngineNext]_engineVars => [K!Next]_<<Spec_key, Spec_data>>
<1> SUFFICES ASSUME IInv, Ciphered, Ciphered', [EngineNext]_engineVars
             PROVE  K!Next \/ UNCHANGED <<Spec_key, Spec_data>>
  OBVIOUS
<1>1. ASSUME NEW k \in MasterKeys, Derive(k) PROVE K!Next
  BY <1>1, DeriveRefines DEF K!Next
<1>2. CASE GenerateSbox \/ ExpandRoundKeys
  BY <1>2, TablesRefine
<1>3. ASSUME NEW nonce \in Counter, Transform(nonce)
      PROVE  UNCHANGED <<Spec_key, Spec_data>>
  BY <1>3, StartRefines
<1>4. CASE TransformBlock
  BY <1>4, BlockRefines
<1>5. CASE TransformEnd
  BY <1>5, EndRefines DEF K!Next
<1>6. CASE Finished \/ UNCHANGED engineVars
  <2>1. UNCHANGED <<sboxKey, stage, arg, offset, text>>
    BY <1>6 DEF Finished, engineVars
  <2>2. \A o \in 0 .. Length - 1 : Seen(o)' = Seen(o)
    BY <2>1 DEF Seen, Underway, Promised, NamedAll
  <2>3. Spec_key' = Spec_key
    BY <2>1 DEF Spec_key
  <2> QED
    BY <2>2, <2>3, Stutters
<1> QED
  BY <1>1, <1>2, <1>3, <1>4, <1>5, <1>6 DEF EngineNext

(* The engine implements Keystream: for any keys, byte size, block size,   *)
(* buffer and calls, a transform that returns has xored byte o of the      *)
(* buffer with byte o % BLOCK_SIZE of the cipher, under the key derived    *)
(* last, of nonce + o \div BLOCK_SIZE, wrapped; and nothing else shows.    *)
THEOREM EngineImplements == EngineSpec => Implements
<1>1. EngineInit => IInv /\ Ciphered
  BY InitIInv, InitCiphered
<1>2. IInv /\ Ciphered /\ [EngineNext]_engineVars => (IInv /\ Ciphered)'
  BY StepIInv, StepCiphered
<1>3. EngineInit => K!Init
  BY InitRefines
<1>4. IInv /\ Ciphered /\ (IInv /\ Ciphered)' /\ [EngineNext]_engineVars
      => [K!Next]_<<Spec_key, Spec_data>>
  BY StepRefines
<1> QED
  BY <1>1, <1>2, <1>3, <1>4, PTL DEF EngineSpec, Implements, K!Spec
=============================================================================
