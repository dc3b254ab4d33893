---------------------------- MODULE KeyedTables ----------------------------
(***************************************************************************)
(* The three key-dependent lookup tables of Choicrypt:                     *)
(*                                                                         *)
(*   "sbox"    choi_generate_sbox     choi_common.h        256 entries     *)
(*   "opcode"  vs_build_opcode_map    virtual_silicon.c    256 entries     *)
(*   "pbox"    generate_dynamic_pbox  obfuscated_pipeline.c 128 entries    *)
(*                                                                         *)
(* Each routine shuffles a start table in place with the same downward     *)
(* Fisher-Yates loop.  The S-box then gets an inverse table, a             *)
(* verification and a fallback; the P-box gets a pass that is to remove    *)
(* its fixed points, and an inverse table.                                 *)
(*                                                                         *)
(* The index j that a loop draws is a 32-bit generator's state xor a key   *)
(* byte, modulo i + 1.  Keys are arbitrary, so j is any number of 0..i.    *)
(***************************************************************************)
EXTENDS Naturals, Functions

CONSTANTS N,            \* entries of a table
          Kinds,        \* the tables built by this instance
          AesSBox,      \* the start table of the S-box ...
          AesInvSBox    \* ... and its published inverse

Index == 0 .. N - 1
Table == [Index -> Index]

ASSUME TablesAssumption ==
  /\ N \in Nat /\ N > 1
  /\ Kinds \subseteq {"sbox", "opcode", "pbox"}
  /\ AesSBox \in Table /\ AesInvSBox \in Table
  /\ \A x \in Index : AesInvSBox[AesSBox[x]] = x /\ AesSBox[AesInvSBox[x]] = x

VARIABLES kind,     \* which routine runs
          pc,       \* the loop it is in
          i,        \* the loop's index
          table,    \* CHOI_SBOX, map or pbox
          inv,      \* CHOI_INV_SBOX or inv_pbox
          ok        \* the S-box routine's verdict on its own result

vars == <<kind, pc, i, table, inv, ok>>

(***************************************************************************)
(* The swap through tmp that every loop performs.                          *)
(***************************************************************************)
SwapWithoutTmp(t, a, b) == [t EXCEPT ![a] = t[b]]   \* mutant of Swap

Swap(t, a, b) == [t EXCEPT ![a] = t[b], ![b] = t[a]]

(***************************************************************************)
(* for (i = 0..N-1) inv[t[i]] = i.  Entries stored to twice keep the last  *)
(* store; entries never stored to keep what old held.                      *)
(***************************************************************************)
LastAt(t, v, x) == t[x] = v /\ \A y \in Index : t[y] = v => y <= x

InvertedShort(t, old) ==               \* mutant of Inverted: x stops at N-2
  [v \in Index |-> IF t[N - 1] # v /\ \E x \in Index : t[x] = v
                   THEN CHOOSE x \in Index : LastAt(t, v, x)
                   ELSE old[v]]

Inverted(t, old) ==
  [v \in Index |-> IF \E x \in Index : t[x] = v
                   THEN CHOOSE x \in Index : LastAt(t, v, x)
                   ELSE old[v]]

StartTableFromOne(k) ==                \* mutant of StartTable: entries 1..N
  IF k = "sbox" THEN AesSBox ELSE [x \in Index |-> x + 1]

StartTable(k) == IF k = "sbox" THEN AesSBox ELSE [x \in Index |-> x]

Init ==
  /\ kind \in Kinds
  /\ pc = "shuffle"
  /\ i = N - 1
  /\ table = StartTable(kind)
  /\ inv = [x \in Index |-> 0]
  /\ ok = TRUE

(***************************************************************************)
(* One iteration of the shuffle: i runs from N-1 down to 1.                *)
(***************************************************************************)
ShuffleStep ==
  /\ pc = "shuffle" /\ i > 0
  /\ \E j \in 0 .. i : table' = Swap(table, i, j)
  /\ i' = i - 1
  /\ UNCHANGED <<kind, pc, inv, ok>>

ShuffleEnd ==
  /\ pc = "shuffle" /\ i = 0
  /\ pc' = CASE kind = "sbox"   -> "invert"
             [] kind = "pbox"   -> "derange"
             [] kind = "opcode" -> "done"
  /\ UNCHANGED <<kind, i, table, inv, ok>>

(***************************************************************************)
(* One iteration of the P-box's second loop: i runs from 0 up to N-1, and  *)
(* a fixed point is swapped with its successor, the last one with entry 0. *)
(***************************************************************************)
SwapIndexStuck(x) ==                   \* mutant of SwapIndex: no wrap to 0
  IF x = N - 1 THEN x ELSE x + 1

SwapIndex(x) == IF x = N - 1 THEN 0 ELSE x + 1

DerangeStep ==
  /\ pc = "derange" /\ i < N
  /\ table' = IF table[i] = i THEN Swap(table, i, SwapIndex(i)) ELSE table
  /\ i' = i + 1
  /\ UNCHANGED <<kind, pc, inv, ok>>

DerangeEnd ==
  /\ pc = "derange" /\ i = N
  /\ pc' = "invert"
  /\ UNCHANGED <<kind, i, table, inv, ok>>

(***************************************************************************)
(* The inverse.  CHOI_INV_SBOX is cleared first; inv_pbox is written over  *)
(* whatever the caller's array held.                                       *)
(***************************************************************************)
Invert ==
  /\ pc = "invert"
  /\ inv' = Inverted(table, inv)
  /\ pc' = IF kind = "sbox" THEN "verify" ELSE "done"
  /\ UNCHANGED <<kind, i, table, ok>>

(***************************************************************************)
(* The S-box's own check of its result, and the fallback to the AES pair.  *)
(***************************************************************************)
Verified(t, u) == \A x \in Index : t[u[x]] = x

Verify ==
  /\ pc = "verify"
  /\ ok' = Verified(table, inv)
  /\ IF ok' THEN UNCHANGED <<table, inv>>
            ELSE table' = AesSBox /\ inv' = AesInvSBox
  /\ pc' = "done"
  /\ UNCHANGED <<kind, i>>

Done == pc = "done" /\ UNCHANGED vars

Next == ShuffleStep \/ ShuffleEnd \/ DerangeStep \/ DerangeEnd \/ Invert
        \/ Verify \/ Done

Spec == Init /\ [][Next]_vars

-----------------------------------------------------------------------------
(* Every index stays inside the table it indexes and every entry is a byte. *)
TypeOK ==
  /\ kind \in Kinds
  /\ pc \in {"shuffle", "derange", "invert", "verify", "done"}
  /\ i \in 0 .. N
  /\ table \in Table
  /\ inv \in Table
  /\ ok \in BOOLEAN

(* "The result is a permutation (bijection) because we only swap": at every *)
(* point of every loop, the fixed-point pass and the fallback included.     *)
Permutation == table \in Bijection(Index, Index)

(* What the decryption paths rely on: the finished inverse undoes the table *)
(* on either side.                                                          *)
InverseUndoes ==
  pc = "done" /\ kind # "opcode" =>
    \A x \in Index : inv[table[x]] = x /\ table[inv[x]] = x

(* "Fallback should never happen": no key makes the S-box fail its own      *)
(* verification, which would replace it by the keyless AES table.           *)
FallbackNeverTaken == ok

(* The P-box handed to the rounds has no fixed point: one upward pass that  *)
(* swaps with the next entry is enough, though a swap rewrites an entry the *)
(* pass has not reached and the last one wraps to an entry it has.          *)
Derangement ==
  kind = "pbox" /\ pc \in {"invert", "done"} =>
    \A x \in Index : table[x] # x
=============================================================================
