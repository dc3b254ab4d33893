------------------------- MODULE KeyedTables_proofs -------------------------
(***************************************************************************)
(* What KeyedTables promises for every table size N > 1 and every pair of  *)
(* start tables, hence for the 256 and 128 entries of the code, which TLC  *)
(* cannot enumerate.                                                       *)
(***************************************************************************)
EXTENDS KeyedTables, TLAPS

(* Two tables that undo each other on either side. *)
Undoes(u, t) == \A x \in Index : u[t[x]] = x /\ t[u[x]] = x

(***************************************************************************)
(* TypeOK, Permutation and Derangement say nothing of the loops' indices,  *)
(* so they are not inductive.  IInv adds where each loop is, what it has   *)
(* already established, and which routine may be in it.                    *)
(***************************************************************************)
Progress ==
  /\ pc = "shuffle" => i < N
  /\ pc = "derange" => kind = "pbox" /\ \A x \in Index : x < i => table[x] # x
  /\ pc = "invert"  => kind # "opcode"
  /\ pc = "verify"  => kind = "sbox" /\ Undoes(inv, table)
  /\ pc = "done" /\ kind # "opcode" => Undoes(inv, table)

IInv == TypeOK /\ Permutation /\ Derangement /\ ok = TRUE /\ Progress

-----------------------------------------------------------------------------
(* A permutation is a table without repetition that leaves nothing out. *)
LEMMA PermutationFacts ==
  \A t : t \in Bijection(Index, Index) <=>
    /\ t \in Table
    /\ \A x, y \in Index : t[x] = t[y] => x = y
    /\ \A v \in Index : \E x \in Index : t[x] = v
BY DEF Bijection, Injection, Surjection, IsInjective, Table

(* The swap through tmp keeps a permutation a permutation. *)
LEMMA SwapPermutes ==
  ASSUME NEW t \in Bijection(Index, Index), NEW a \in Index, NEW b \in Index
  PROVE  Swap(t, a, b) \in Bijection(Index, Index)
<1> DEFINE s == Swap(t, a, b)
<1>1. /\ t \in Table
      /\ \A x, y \in Index : t[x] = t[y] => x = y
      /\ \A v \in Index : \E x \in Index : t[x] = v
  BY PermutationFacts
<1>2. /\ s \in Table
      /\ s[b] = t[a] /\ s[a] = t[b]
      /\ \A x \in Index \ {a, b} : s[x] = t[x]
  BY <1>1 DEF Swap, Table
<1>3. \A x, y \in Index : s[x] = s[y] => x = y
  BY <1>1, <1>2
<1>4. ASSUME NEW v \in Index
      PROVE  \E x \in Index : s[x] = v
  <2>1. PICK x \in Index : t[x] = v
    BY <1>1
  <2> QED
    BY <2>1, <1>2
<1> HIDE DEF s
<1>5. s \in Bijection(Index, Index)
  BY <1>2, <1>3, <1>4, PermutationFacts
<1> QED
  BY <1>5 DEF s

(* The loop inv[t[i]] = i leaves the two-sided inverse of a permutation, *)
(* whatever the array held before it.                                    *)
LEMMA InvertedUndoes ==
  ASSUME NEW t \in Bijection(Index, Index), NEW old
  PROVE  Inverted(t, old) \in Table /\ Undoes(Inverted(t, old), t)
<1> DEFINE u == Inverted(t, old)
<1>1. /\ t \in Table
      /\ \A x, y \in Index : t[x] = t[y] => x = y
      /\ \A v \in Index : \E x \in Index : t[x] = v
  BY PermutationFacts
<1>2. ASSUME NEW v \in Index
      PROVE  u[v] \in Index /\ t[u[v]] = v
  <2>1. PICK x \in Index : t[x] = v
    BY <1>1
  <2>2. \A y \in Index : t[y] = v => y = x
    BY <1>1, <2>1
  <2>3. x <= x
    BY DEF Index
  <2>4. LastAt(t, v, x)
    BY <2>1, <2>2, <2>3 DEF LastAt
  <2>5. u[v] = CHOOSE y \in Index : LastAt(t, v, y)
    BY <2>1 DEF Inverted
  <2>6. u[v] \in Index /\ LastAt(t, v, u[v])
    BY <2>4, <2>5
  <2> QED
    BY <2>6 DEF LastAt
<1>3. u \in Table
  <2>1. u = [v \in Index |-> u[v]]
    BY DEF Inverted
  <2> HIDE DEF u
  <2> QED
    BY <1>2, <2>1 DEF Table
<1>4. Undoes(u, t)
  <2> SUFFICES ASSUME NEW x \in Index
               PROVE  u[t[x]] = x /\ t[u[x]] = x
    BY DEF Undoes
  <2>1. t[x] \in Index
    BY <1>1 DEF Table
  <2>2. u[t[x]] \in Index /\ t[u[t[x]]] = t[x]
    BY <1>2, <2>1
  <2> HIDE DEF u
  <2> QED
    BY <1>1, <1>2, <2>2
<1> QED
  BY <1>3, <1>4

(***************************************************************************)
(* The fixed-point pass.  A swap rewrites the entry being left and one     *)
(* other: the next, not yet visited, or at the wrap entry 0, which was     *)
(* visited.  Either way the value that moves is the index it moves from,   *)
(* and by injectivity the value that comes in is not the index it comes    *)
(* to.                                                                     *)
(***************************************************************************)
LEMMA DerangeAdvances ==
  ASSUME NEW t \in Bijection(Index, Index), NEW n \in Index,
         \A x \in Index : x < n => t[x] # x
  PROVE  LET s == IF t[n] = n THEN Swap(t, n, SwapIndex(n)) ELSE t
         IN  /\ s \in Bijection(Index, Index)
             /\ \A x \in Index : x < n + 1 => s[x] # x
<1> USE TablesAssumption
<1> DEFINE m == SwapIndex(n)
           s == IF t[n] = n THEN Swap(t, n, m) ELSE t
<1>1. m \in Index /\ m # n
  BY DEF SwapIndex, Index
<1>2. s \in Bijection(Index, Index)
  BY <1>1, SwapPermutes
<1>3. ASSUME NEW x \in Index, x < n + 1
      PROVE  s[x] # x
  <2>1. t \in Table /\ \A y, z \in Index : t[y] = t[z] => y = z
    BY PermutationFacts
  <2>2. x = n \/ x < n
    BY <1>3 DEF Index
  <2>3. CASE t[n] # n
    BY <2>2, <2>3
  <2>4. CASE t[n] = n
    <3>1. s[n] = t[m] /\ s[m] = n /\ \A y \in Index \ {n, m} : s[y] = t[y]
      BY <1>1, <2>1, <2>4 DEF Swap, Table
    <3>2. t[m] # n
      BY <1>1, <2>1, <2>4
    <3> HIDE DEF s, m
    <3> QED
      BY <1>1, <2>2, <3>1, <3>2
  <2> QED
    BY <2>3, <2>4
<1> QED
  BY <1>2, <1>3

-----------------------------------------------------------------------------
(* All three routines start from a permutation. *)
LEMMA StartPermutes ==
  \A k : StartTable(k) \in Bijection(Index, Index)
<1>1. AesSBox \in Bijection(Index, Index)
  <2>1. AesSBox \in Table /\ AesInvSBox \in Table
    BY TablesAssumption
  <2>2. \A x \in Index : AesInvSBox[AesSBox[x]] = x /\ AesSBox[AesInvSBox[x]] = x
    BY TablesAssumption
  <2>3. \A x, y \in Index : AesSBox[x] = AesSBox[y] => x = y
    BY <2>2
  <2>4. \A v \in Index : \E x \in Index : AesSBox[x] = v
    BY <2>1, <2>2 DEF Table
  <2> QED
    BY <2>1, <2>3, <2>4, PermutationFacts
<1>2. [x \in Index |-> x] \in Bijection(Index, Index)
  BY PermutationFacts DEF Table
<1> QED
  BY <1>1, <1>2 DEF StartTable

(* A start table and the first index satisfy the invariant. *)
LEMMA InitIInv == Init => IInv
<1> SUFFICES ASSUME Init PROVE IInv
  OBVIOUS
<1> USE TablesAssumption
<1>1. Permutation
  BY StartPermutes DEF Init, Permutation
<1>2. table \in Table
  BY <1>1, PermutationFacts DEF Permutation
<1>3. TypeOK
  <2>1. 0 \in Index /\ N - 1 \in 0 .. N
    BY DEF Index
  <2>2. [x \in Index |-> 0] \in Table
    BY <2>1 DEF Table
  <2> QED
    BY <1>2, <2>1, <2>2 DEF Init, TypeOK
<1>4. Derangement /\ Progress /\ ok = TRUE
  BY DEF Init, Derangement, Progress
<1> QED
  BY <1>1, <1>3, <1>4 DEF IInv

(* Each iteration, and each passage from one loop to the next, preserves it. *)
LEMMA StepIInv == IInv /\ [Next]_vars => IInv'
<1> SUFFICES ASSUME IInv, [Next]_vars PROVE IInv'
  OBVIOUS
<1> USE TablesAssumption
<1>0. /\ TypeOK /\ Permutation /\ Derangement /\ ok = TRUE /\ Progress
      /\ table \in Bijection(Index, Index)
  BY DEF IInv, Permutation
<1>1. CASE ShuffleStep
  <2>1. PICK j \in 0 .. i : table' = Swap(table, i, j)
    BY <1>1 DEF ShuffleStep
  <2>2. i \in Index /\ j \in Index /\ i' \in 0 .. N /\ i' < N
    BY <1>0, <1>1 DEF ShuffleStep, TypeOK, Progress, Index
  <2>3. Permutation'
    BY <1>0, <2>1, <2>2, SwapPermutes DEF Permutation
  <2>4. TypeOK'
    BY <1>0, <1>1, <2>2, <2>3, PermutationFacts DEF ShuffleStep, TypeOK, Permutation
  <2>5. Derangement' /\ Progress' /\ ok' = TRUE
    BY <1>0, <1>1, <2>2 DEF ShuffleStep, Derangement, Progress
  <2> QED
    BY <2>3, <2>4, <2>5 DEF IInv
<1>2. CASE ShuffleEnd
  <2>1. Permutation' /\ ok' = TRUE
    BY <1>0, <1>2 DEF ShuffleEnd, Permutation
  <2>2. kind \in {"sbox", "pbox", "opcode"}
    BY <1>0 DEF TypeOK
  <2>3. /\ kind = "sbox" => pc' = "invert"
        /\ kind = "pbox" => pc' = "derange"
        /\ kind = "opcode" => pc' = "done"
    BY <1>2 DEF ShuffleEnd
  <2>4. TypeOK'
    BY <1>0, <1>2, <2>2, <2>3 DEF ShuffleEnd, TypeOK
  <2>5. Derangement'
    BY <1>2, <2>3 DEF ShuffleEnd, Derangement
  <2>6. Progress'
    BY <1>2, <2>2, <2>3 DEF ShuffleEnd, Progress, Index
  <2> QED
    BY <2>1, <2>4, <2>5, <2>6 DEF IInv
<1>3. CASE DerangeStep
  <2>1. i \in Index /\ i' = i + 1 /\ i' \in 0 .. N
    BY <1>0, <1>3 DEF DerangeStep, TypeOK, Index
  <2>2. \A x \in Index : x < i => table[x] # x
    BY <1>0, <1>3 DEF DerangeStep, Progress
  <2>3. /\ table' \in Bijection(Index, Index)
        /\ \A x \in Index : x < i' => table'[x] # x
    BY <1>0, <1>3, <2>1, <2>2, DerangeAdvances DEF DerangeStep
  <2>4. TypeOK'
    BY <1>0, <1>3, <2>1, <2>3, PermutationFacts DEF DerangeStep, TypeOK
  <2>5. Derangement' /\ Progress' /\ ok' = TRUE
    BY <1>0, <1>3, <2>3 DEF DerangeStep, Derangement, Progress
  <2> QED
    BY <2>3, <2>4, <2>5 DEF IInv, Permutation
<1>4. CASE DerangeEnd
  <2>1. Permutation' /\ TypeOK' /\ ok' = TRUE
    BY <1>0, <1>4 DEF DerangeEnd, Permutation, TypeOK
  <2>2. \A x \in Index : table[x] # x
    BY <1>0, <1>4 DEF DerangeEnd, Progress, Index
  <2>3. Derangement' /\ Progress'
    BY <1>0, <1>4, <2>2 DEF DerangeEnd, Derangement, Progress
  <2> QED
    BY <2>1, <2>3 DEF IInv
<1>5. CASE Invert
  <2>1. Inverted(table, inv) \in Table /\ Undoes(Inverted(table, inv), table)
    BY <1>0, InvertedUndoes
  <2>2. inv' \in Table /\ Undoes(inv, table)'
    BY <1>5, <2>1 DEF Invert, Undoes
  <2>3. Permutation' /\ TypeOK' /\ ok' = TRUE
    BY <1>0, <1>5, <2>2 DEF Invert, Permutation, TypeOK
  <2>4. Derangement'
    BY <1>0, <1>5 DEF Invert, Derangement
  <2>5. Progress'
    BY <1>0, <1>5, <2>2 DEF Invert, Progress
  <2> QED
    BY <2>3, <2>4, <2>5 DEF IInv
<1>6. CASE Verify
  <2>1. Undoes(inv, table) /\ kind = "sbox"
    BY <1>0, <1>6 DEF Verify, Progress
  <2>2. Verified(table, inv) = TRUE
    BY <2>1 DEF Verified, Undoes
  <2>3. ok' = TRUE /\ UNCHANGED <<table, inv>>
    BY <1>6, <2>2 DEF Verify
  <2>4. Permutation' /\ TypeOK'
    BY <1>0, <1>6, <2>3 DEF Verify, Permutation, TypeOK
  <2>5. Derangement' /\ Progress'
    BY <1>6, <2>1, <2>3 DEF Verify, Derangement, Progress, Undoes
  <2> QED
    BY <2>3, <2>4, <2>5 DEF IInv
<1>7. CASE Done \/ UNCHANGED vars
  BY <1>0, <1>7 DEF Done, vars, IInv, TypeOK, Permutation, Derangement, Progress,
     Undoes
<1> QED
  BY <1>1, <1>2, <1>3, <1>4, <1>5, <1>6, <1>7 DEF Next

(* Loop by loop, for every draw of the generators: what choi_generate_sbox,   *)
(* vs_build_opcode_map and generate_dynamic_pbox have established so far.     *)
THEOREM Inductive == Spec => []IInv
  BY InitIInv, StepIInv, PTL DEF Spec

-----------------------------------------------------------------------------
(* Every index is inside its table and every entry is an index. *)
THEOREM TypeCorrect == Spec => []TypeOK
<1>1. IInv => TypeOK
  BY DEF IInv
<1> QED
  BY <1>1, Inductive, PTL

(* The S-box, the opcode map and the P-box are permutations at every step  *)
(* of their construction, so SubBytes, the keyed instruction set and the   *)
(* bit permutation lose nothing.                                           *)
THEOREM AlwaysPermutation == Spec => []Permutation
<1>1. IInv => Permutation
  BY DEF IInv
<1> QED
  BY <1>1, Inductive, PTL

(* The inverse S-box and the inverse P-box undo their tables. *)
THEOREM InverseCorrect == Spec => []InverseUndoes
<1>1. IInv => InverseUndoes
  BY DEF IInv, Progress, InverseUndoes, Undoes
<1> QED
  BY <1>1, Inductive, PTL

(* The fallback branch of choi_generate_sbox is dead code. *)
THEOREM FallbackDead == Spec => []FallbackNeverTaken
<1>1. IInv => FallbackNeverTaken
  BY DEF IInv, FallbackNeverTaken
<1> QED
  BY <1>1, Inductive, PTL

(* The single upward pass of generate_dynamic_pbox leaves no fixed point. *)
THEOREM PBoxDeranged == Spec => []Derangement
<1>1. IInv => Derangement
  BY DEF IInv
<1> QED
  BY <1>1, Inductive, PTL
=============================================================================
