----------------------------- MODULE VSClients ------------------------------
(***************************************************************************)
(* The two callers whose result is what the machine leaves in a register:  *)
(* vs_obfuscate_block, applied twice to a block, and vs_rng_bytes, which   *)
(* resets the machine and runs it again for each REG_SIZE bytes.           *)
(***************************************************************************)
EXTENDS VirtualSilicon

CONSTANTS Callers,     \* subset of {"obfuscate", "rng"}
          Inputs,      \* the blocks or the seeds
          Chunks       \* how many registers of output are asked of the rng

VARIABLES caller, input,
          value,       \* the block so far, or the bytes of the last chunk
          done         \* applications, or chunks, that are complete

vars == <<code, limit, on, vm, caller, input, value, done>>

ObfuscateProgram ==
  <<XOR, 1, 55, ROL, 1, 4, XOR, 1, 115, ROL, 1, 4, HALT>>

RngProgram ==
  <<XOR, 0, 165, ROL, 0, 3, SBOX, 0, BANK, 1, XOR, 0, 90, MIX, 0, 1, BANK, 2,
    ROL, 1, 5, MIX, 1, 0, BANK, 3, SBOX, 1, XOR, 1, 55, BANK, 0, MIX, 0, 1,
    SBOX, 0, OBF, 0, HALT>>

Fresh(r0, r1) == [FreshVM(Identity) EXCEPT !.regs[0] = r0, !.regs[1] = r1]

Init ==
  /\ caller \in Callers /\ input \in Inputs
  /\ value = input /\ done = 0
  /\ limit = 128 /\ on = TRUE
  /\ IF caller = "rng"
     THEN code = RngProgram /\ vm = Fresh(input, input)
     ELSE code = ObfuscateProgram /\ vm = Fresh(Zero, input)

(* vs_store of R1, and the second application, in a new machine. *)
BlockObfuscated ==
  /\ ~on /\ caller = "obfuscate" /\ done < 2
  /\ value' = Reg(1) /\ done' = done + 1
  /\ vm' = Fresh(Zero, Reg(1)) /\ on' = (done' < 2)
  /\ UNCHANGED <<code, limit, caller, input>>

(* A chunk is R0 of the bank left active, which is fed back into R0. *)
ChunkDrawn ==
  /\ ~on /\ caller = "rng" /\ done < Chunks
  /\ LET feedback == [i \in RegIndex |->
                       XorByte(Reg(0)[i], ((done + 1) * REG_SIZE + i + 165) % M)]
     IN  vm' = [Reset(vm) EXCEPT !.regs = Set(0, feedback)]
  /\ value' = Reg(0) /\ done' = done + 1 /\ on' = (done' < Chunks)
  /\ UNCHANGED <<code, limit, caller, input>>

Returned == /\ ~on /\ done = (IF caller = "rng" THEN Chunks ELSE 2)
            /\ UNCHANGED vars

Next == \/ Step /\ UNCHANGED <<caller, input, value, done>>
        \/ BlockObfuscated \/ ChunkDrawn \/ Returned

Spec == Init /\ [][Next]_vars
-----------------------------------------------------------------------------
(* "XOR and ROL-by-4 are each self-inverse, so applying the whole sequence  *)
(* twice restores the original block."                                      *)
SelfInverse == caller = "obfuscate" /\ done = 2 => value = input

(* "vs_rng_bytes(seed, out, len) executes a deterministic bytecode loop":   *)
(* no instruction of it reads /dev/urandom.                                 *)
RngDeterministic ==
  caller = "rng" /\ on /\ vm.cycle < limit /\ Raw # HALT => Opcode # ENTROPY
=============================================================================
