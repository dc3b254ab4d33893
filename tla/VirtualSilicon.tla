--------------------------- MODULE VirtualSilicon ---------------------------
(***************************************************************************)
(* The bytecode machine of virtual_silicon.c: vs_step, one action per      *)
(* opcode, and the loop of vs_run around it.                               *)
(*                                                                         *)
(* A byte has BITS bits, 8 in the code; all the widths that follow from it *)
(* (program counter, opcode map, rewrite buffer, 16-bit addresses) scale   *)
(* with it.  HALT is the highest byte, as 0xFF is.                         *)
(***************************************************************************)
EXTENDS Integers, Sequences, FiniteSetsExt, SequencesExt

CONSTANTS BITS,            \* 8; at least 4, so that every opcode has a byte
          REG_SIZE,        \* VS_REG_SIZE: 16
          XorByte(_, _),       \* a ^ b on bytes
          VS_SBOX,         \* the fixed S-box
          Hmac(_, _),      \* the first REG_SIZE bytes of HMAC-SHA256
          Entropy          \* what /dev/urandom may give: a set of registers

M        == 2 ^ BITS
Byte     == 0 .. M - 1
BankSize == 4
Banks    == 4
Register == 0 .. BankSize * Banks - 1
RegIndex == 0 .. REG_SIZE - 1
Content  == [RegIndex -> Byte]

ASSUME MachineAssumption ==
  /\ BITS \in Nat /\ BITS >= 4 /\ REG_SIZE \in Nat \ {0}
  /\ VS_SBOX \in [Byte -> Byte] /\ Entropy \subseteq Content

NOP       == 0
LOAD      == 1
STORE     == 2
XOR       == 3
ROL       == 4
SUB       == 5
SBOX      == 6
MIX       == 7
ENTROPY   == 8
HMAC_STEP == 9
OBF       == 10
BANK      == 11
PATCH     == 12
HALT      == M - 1

VARIABLES code,    \* the bytecode: a sequence of bytes
          limit,   \* max_cycles of the vs_run under way
          on,      \* vs_run has not returned
          vm       \* the vs_vm; rewrite is rewrite_buf up to rewrite_len

machine == <<code, limit, on, vm>>

Zero     == [i \in RegIndex |-> 0]
Identity == [b \in Byte |-> b]

(* vs_vm_init, and vs_vm_init_keyed with the map that a key gives. *)
FreshVM(map) == [regs |-> [r \in Register |-> Zero], pc |-> 0, bank |-> 0,
                 obf |-> 0, cycle |-> 0, map |-> map, rewrite |-> <<>>]

Reset(v) == [v EXCEPT !.pc = 0, !.cycle = 0]

PhysRegNoBank(bank, reg) == reg % BankSize              \* mutant of PhysReg

PhysReg(bank, reg) == (bank % Banks) * BankSize + (reg % BankSize)

(***************************************************************************)
(* vs_fetch: the rewrite buffer lies behind the bytecode, HALT behind it.  *)
(***************************************************************************)
Fetch(offset) ==
  LET roff == offset - Len(code)
  IN  IF offset < Len(code) THEN code[offset + 1]
      ELSE IF roff < Len(vm.rewrite) THEN vm.rewrite[roff + 1] ELSE HALT

Raw == Fetch(vm.pc)

(* vs_resolve_opcode; the state twists what the map gives. *)
Opcode == (XorByte(vm.map[Raw], vm.obf) + vm.obf) % M

(* The program counter is a byte and wraps; operand k is fetched through it. *)
After(k)   == (vm.pc + 1 + k) % M
Operand(k) == Fetch(After(k - 1))

Room(k) == After(0) + k <= Len(code)

Rol(v, n) == LET k == n % BITS
             IN  ((v * 2 ^ k) % M) + (v \div 2 ^ (BITS - k))

XorAll(reg) == FoldLeft(XorByte, 0, [i \in 1 .. REG_SIZE |-> reg[i - 1]])

(***************************************************************************)
(* An instruction that runs: k operand bytes consumed, the registers and   *)
(* the bank as they are left, and vs_update_obf of register reg.           *)
(***************************************************************************)
Executes(op, k) ==
  /\ on /\ vm.cycle < limit /\ Raw # HALT
  /\ Opcode = op /\ Room(k)

Uncounted(v) == v                                       \* mutant of Counted

Counted(v) == [v EXCEPT !.cycle = @ + 1]

Effect(v, k, regs, bank, reg) ==
  [Counted(v) EXCEPT
     !.pc = After(k), !.regs = regs, !.bank = bank,
     !.obf = XorByte(XorByte((@ * 31) % M, XorAll(regs[PhysReg(bank, reg)])), bank)]

Commit(k, regs, bank, reg) ==
  /\ vm' = Effect(vm, k, regs, bank, reg)
  /\ UNCHANGED <<code, limit, on>>

(* Register reg of the active bank is given the content c. *)
Set(reg, c)   == [vm.regs EXCEPT ![PhysReg(vm.bank, reg)] = c]
Reg(reg)      == vm.regs[PhysReg(vm.bank, reg)]

(* NOP, and every number that is no opcode; a HALT that decoding makes of  *)
(* another byte is one of these.                                           *)
Nop ==
  /\ on /\ vm.cycle < limit /\ Raw # HALT
  /\ Opcode \notin LOAD .. PATCH
  /\ vm' = [Counted(vm) EXCEPT !.pc = After(0)]
  /\ UNCHANGED <<code, limit, on>>

Load ==
  /\ Executes(LOAD, 1) /\ After(1) + REG_SIZE <= Len(code)
  /\ LET c == [i \in RegIndex |-> Fetch(After(1) + i)]
     IN  Commit(1 + REG_SIZE, Set(Operand(1), c), vm.bank, Operand(1))

Store == Executes(STORE, 1) /\ Commit(1, vm.regs, vm.bank, 0)

XorImm ==
  /\ Executes(XOR, 2)
  /\ LET c == [i \in RegIndex |-> XorByte(Reg(Operand(1))[i], Operand(2))]
     IN  Commit(2, Set(Operand(1), c), vm.bank, Operand(1))

RolImm ==
  /\ Executes(ROL, 2)
  /\ LET c == [i \in RegIndex |-> Rol(Reg(Operand(1))[i], Operand(2))]
     IN  Commit(2, Set(Operand(1), c), vm.bank, Operand(1))

SubImm ==
  /\ Executes(SUB, 2)
  /\ LET c == [i \in RegIndex |-> (Reg(Operand(1))[i] - Operand(2) - i) % M]
     IN  Commit(2, Set(Operand(1), c), vm.bank, Operand(1))

Sbox ==
  /\ Executes(SBOX, 1)
  /\ LET c == [i \in RegIndex |-> VS_SBOX[Reg(Operand(1))[i]]]
     IN  Commit(1, Set(Operand(1), c), vm.bank, Operand(1))

Mix ==
  /\ Executes(MIX, 2)
  /\ LET c == [i \in RegIndex |-> Rol(XorByte(Reg(Operand(1))[i], Reg(Operand(2))[i]), 1)]
     IN  Commit(2, Set(Operand(1), c), vm.bank, Operand(1))

(* read gives the first n bytes of what it was asked for, none when the file *)
(* does not open; the rest of the register keeps what it held.               *)
Drawn(reg, n, c) == [i \in RegIndex |-> IF i < n THEN c[i] ELSE Reg(reg)[i]]

DrawEntropy ==
  /\ Executes(ENTROPY, 1)
  /\ \E n \in 0 .. REG_SIZE, c \in Entropy :
       Commit(1, Set(Operand(1), Drawn(Operand(1), n, c)), vm.bank, Operand(1))

HmacStep ==
  /\ Executes(HMAC_STEP, 3)
  /\ LET c == Hmac(Reg(Operand(1)), Reg(Operand(2)))
     IN  Commit(3, Set(Operand(3), c), vm.bank, Operand(3))

Obf == Executes(OBF, 1) /\ Commit(1, vm.regs, vm.bank, Operand(1))

SwitchBank ==
  Executes(BANK, 1) /\ Commit(1, vm.regs, Operand(1) % Banks, 0)

(***************************************************************************)
(* PATCH start count: byte start+i of the image xored with byte i of R0,   *)
(* put into the rewrite buffer.  The buffer's offset is a 16-bit number; a *)
(* byte that is no byte of the buffer is not written.                      *)
(***************************************************************************)
RewriteOffset(addr) == (addr - Len(code)) % (M * M)

PatchedUnchecked(start, count) ==                       \* mutant of Patched
  LET hits  == {i \in 0 .. count - 1 : start + i >= Len(code)}
      reach == {Len(vm.rewrite)} \cup {RewriteOffset(start + i) + 1 : i \in hits}
  IN  [k \in 1 .. Max(reach) |-> IF k <= Len(vm.rewrite) THEN vm.rewrite[k] ELSE 0]

Patched(start, count) ==
  LET hits  == {i \in 0 .. count - 1 : RewriteOffset(start + i) < M}
      reach == {Len(vm.rewrite)} \cup {RewriteOffset(start + i) + 1 : i \in hits}
      old(k) == IF k <= Len(vm.rewrite) THEN vm.rewrite[k] ELSE 0
  IN  [k \in 1 .. Max(reach) |->
         IF \E i \in hits : RewriteOffset(start + i) + 1 = k
         THEN LET i == CHOOSE i \in hits : RewriteOffset(start + i) + 1 = k
              IN  XorByte(old(k), Reg(0)[i % REG_SIZE])
         ELSE old(k)]

Patch ==
  /\ Executes(PATCH, 2)
  /\ vm' = [Effect(vm, 2, vm.regs, vm.bank, 0)
              EXCEPT !.rewrite = Patched(Operand(1), Operand(2))]
  /\ UNCHANGED <<code, limit, on>>

(***************************************************************************)
(* vs_step returns 0: at HALT, or at an instruction whose operands reach   *)
(* past the bytecode, which has already moved the program counter.         *)
(***************************************************************************)
Operands(op) ==
  CASE op \in {LOAD, STORE, SBOX, ENTROPY, OBF, BANK} -> 1
    [] op \in {XOR, ROL, SUB, MIX, PATCH}             -> 2
    [] op = HMAC_STEP                                 -> 3
    [] OTHER                                          -> 0

Stop(pc) == /\ on' = FALSE
            /\ vm' = [vm EXCEPT !.pc = pc]
            /\ UNCHANGED <<code, limit>>

Halt == on /\ vm.cycle < limit /\ Raw = HALT /\ Stop(vm.pc)

OutOfRoom ==
  /\ on /\ vm.cycle < limit /\ Raw # HALT
  /\ \/ ~Room(Operands(Opcode)) /\ Operands(Opcode) > 0 /\ Stop(After(0))
     \/ Opcode = LOAD /\ Room(1) /\ After(1) + REG_SIZE > Len(code) /\ Stop(After(1))

OutOfCycles == on /\ vm.cycle >= limit /\ Stop(vm.pc)

Step == Nop \/ Load \/ Store \/ XorImm \/ RolImm \/ SubImm \/ Sbox \/ Mix
        \/ DrawEntropy \/ HmacStep \/ Obf \/ SwitchBank \/ Patch
        \/ Halt \/ OutOfRoom \/ OutOfCycles
-----------------------------------------------------------------------------
(* The machine's state stays within the widths that vs_vm gives it, and PATCH *)
(* never fills more of the rewrite buffer than there is.                      *)
MachineTypeOK ==
  /\ on \in BOOLEAN
  /\ vm.pc \in Byte /\ vm.obf \in Byte /\ vm.bank \in 0 .. Banks - 1
  /\ vm.regs \in [Register -> Content]
  /\ vm.cycle \in 0 .. limit
  /\ Len(vm.rewrite) \in 0 .. M /\ \A k \in DOMAIN vm.rewrite : vm.rewrite[k] \in Byte
=============================================================================
