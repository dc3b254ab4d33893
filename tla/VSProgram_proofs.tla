------------------------- MODULE VSProgram_proofs ---------------------------
(***************************************************************************)
(* TypeOK and BankIsolation for every program, opcode map, width and       *)
(* sequence of calls of the user; and, as the other side of the two        *)
(* violated properties of PATCH, how little what it writes can do.         *)
(***************************************************************************)
EXTENDS VSProgram, WellFoundedInduction, SequenceTheorems, TLAPS

(* The vs_vm as a record; TypeOK speaks of its parts.                      *)
VM == [regs : [Register -> Content], pc : Byte, bank : 0 .. Banks - 1, obf : Byte,
       cycle : Nat, map : [Byte -> Byte], rewrite : Seq(Byte)]

Fits(v) == v \in VM /\ v.cycle <= limit /\ Len(v.rewrite) <= M

MachineIInv == /\ on \in BOOLEAN
               /\ code \in Seq(Byte) /\ limit \in Nat
               /\ Fits(vm)

IInv == MachineIInv /\ runs \in 0 .. MaxRuns /\ sets \in 0 .. MaxSets
-----------------------------------------------------------------------------
(* What the assumptions give on the sizes.                                 *)
LEMMA Width == M \in Nat /\ M >= 16 /\ REG_SIZE \in Nat \ {0}
  BY ArithmeticAssumption, MachineAssumption DEF ArithmeticAssumption, MachineAssumption

(* Sums and differences cut to a byte are bytes.                           *)
LEMMA ModByte == \A a \in Int : a % M \in Byte
  BY Width DEF Byte

(* Register numbers are natural numbers.                                   *)
LEMMA IndexNat == RegIndex \subseteq Nat
  BY Width DEF RegIndex

(* Bytes are natural numbers, from 0 to M - 1.                             *)
LEMMA ByteNat == Byte \subseteq Nat /\ 0 \in Byte /\ M - 1 \in Byte
  BY Width DEF Byte

(* A register number of any size names a register of the bank.             *)
LEMMA Physical ==
  ASSUME NEW bank \in 0 .. Banks - 1, NEW reg \in Nat
  PROVE  /\ PhysReg(bank, reg) \in Register
         /\ PhysReg(bank, reg) \in BankSize * bank .. BankSize * bank + BankSize - 1
<1>1. bank % 4 = bank /\ reg % 4 \in 0 .. 3
  BY DEF Banks
<1> QED
  BY <1>1 DEF PhysReg, Register, BankSize, Banks

(* Every fetch is of a byte, through a program counter that is one.        *)
LEMMA FetchByte ==
  ASSUME code \in Seq(Byte), vm.rewrite \in Seq(Byte), NEW offset \in Nat
  PROVE  Fetch(offset) \in Byte
<1>1. CASE offset < Len(code)
  <2>1. offset + 1 \in 1 .. Len(code)
    BY <1>1
  <2> QED
    BY <1>1, <2>1 DEF Fetch
<1>2. CASE offset >= Len(code) /\ offset - Len(code) < Len(vm.rewrite)
  <2>1. offset - Len(code) + 1 \in 1 .. Len(vm.rewrite)
    BY <1>2
  <2> QED
    BY <1>2, <2>1 DEF Fetch
<1>3. CASE offset >= Len(code) /\ offset - Len(code) >= Len(vm.rewrite)
  BY <1>3, ByteNat DEF Fetch, HALT
<1> QED
  BY <1>1, <1>2, <1>3

(* Whatever is fetched as an operand is a byte.                            *)
LEMMA OperandByte ==
  ASSUME MachineIInv
  PROVE  /\ \A k \in Nat : After(k) \in Byte
         /\ \A k \in Nat \ {0} : Operand(k) \in Byte
         /\ Raw \in Byte
<1>1. vm.pc \in Nat /\ vm.pc \in Byte /\ code \in Seq(Byte) /\ vm.rewrite \in Seq(Byte)
  BY ByteNat DEF MachineIInv, Fits, VM
<1>2. \A k \in Nat : After(k) \in Byte
  BY <1>1, ModByte DEF After
<1>3. \A k \in Nat : Fetch(After(k)) \in Byte
  <2> TAKE k \in Nat
  <2>1. After(k) \in Nat
    BY <1>2, ByteNat
  <2> HIDE DEF After
  <2> QED
    BY <1>1, <2>1, FetchByte
<1>4. \A k \in Nat \ {0} : Operand(k) \in Byte
  BY <1>3 DEF Operand
<1>5. Raw \in Byte
  BY <1>1, FetchByte DEF Raw
<1> QED
  BY <1>2, <1>4, <1>5

(* The greatest of some numbers up to M exists.                            *)
LEMMA MaxExists ==
  ASSUME NEW S, S \subseteq 0 .. M, S # {}
  PROVE  Max(S) \in S /\ \A y \in S : Max(S) >= y
<1> DEFINE T == {M - x : x \in S}
           R == OpToRel(<, Nat)
<1>1. T \subseteq Nat /\ T # {}
  <2>1. \A x \in S : M - x \in Nat
    <3> TAKE x \in S
    <3>1. x \in 0 .. M
      OBVIOUS
    <3> QED
      BY <3>1, Width
  <2> QED
    BY <2>1
<1>2. PICK t \in T : \A u \in T : <<u, t>> \notin R
  BY <1>1, NatLessThanWellFounded, WFMin
<1>3. \A u \in T : ~(u < t)
  BY <1>1, <1>2 DEF OpToRel
<1>4. PICK m \in S : t = M - m
  OBVIOUS
<1>5. \A y \in S : m >= y
  <2> TAKE y \in S
  <2>1. m \in 0 .. M /\ y \in 0 .. M
    OBVIOUS
  <2>2. ~(M - y < M - m)
    BY <1>3, <1>4
  <2> QED
    BY <2>1, <2>2, Width
<1> QED
  BY <1>5 DEF Max
-----------------------------------------------------------------------------
(***************************************************************************)
(* What any instruction but PATCH does: Commit, of registers of which at   *)
(* most one of the active bank is new.                                     *)
(***************************************************************************)
OneRegister(regs) ==
  \E r \in BankSize * vm.bank .. BankSize * vm.bank + BankSize - 1 :
    \A q \in Register \ {r} : regs[q] = vm.regs[q]

Ordinary ==
  /\ vm.cycle < limit
  /\ \E k \in Nat, regs \in [Register -> Content], bank \in 0 .. Banks - 1, reg \in Byte :
       OneRegister(regs) /\ Commit(k, regs, bank, reg)

(* The fields of a machine that fits, one by one.                          *)
LEMMA VMFields ==
  ASSUME MachineIInv
  PROVE  /\ vm.regs \in [Register -> Content] /\ vm.bank \in 0 .. Banks - 1
         /\ vm.pc \in Byte /\ vm.obf \in Byte /\ vm.cycle \in Nat
         /\ vm.map \in [Byte -> Byte] /\ vm.rewrite \in Seq(Byte)
  BY DEF MachineIInv, Fits, VM

(* A step that leaves the registers alone keeps to one register.           *)
LEMMA SameRegisters == ASSUME MachineIInv PROVE OneRegister(vm.regs)
<1>1. BankSize * vm.bank \in BankSize * vm.bank .. BankSize * vm.bank + BankSize - 1
  BY VMFields DEF BankSize, Banks
<1> QED
  BY <1>1 DEF OneRegister

(* The one write of an instruction goes to a register of the active bank   *)
(* and keeps the others.                                                   *)
LEMMA SetRegister ==
  ASSUME MachineIInv, NEW o \in Byte, NEW c \in Content
  PROVE  Set(o, c) \in [Register -> Content] /\ OneRegister(Set(o, c))
<1> DEFINE r == PhysReg(vm.bank, o)
<1>1. r \in Register /\ r \in BankSize * vm.bank .. BankSize * vm.bank + BankSize - 1
  BY VMFields, ByteNat, Physical
<1>2. Set(o, c) = [vm.regs EXCEPT ![r] = c]
  BY DEF Set
<1> HIDE DEF r
<1> QED
  BY <1>1, <1>2, VMFields DEF OneRegister

(* Reading a register of the active bank gives a register content.         *)
LEMMA RegTyped == ASSUME MachineIInv, NEW o \in Byte PROVE Reg(o) \in Content
<1>1. PhysReg(vm.bank, o) \in Register
  BY VMFields, ByteNat, Physical
<1> QED
  BY <1>1, VMFields DEF Reg

(* An instruction with operands o of n bytes that sets one register.       *)
LEMMA Sets ==
  ASSUME MachineIInv, NEW k \in Nat, NEW o \in Byte, NEW c \in Content, vm.cycle < limit,
         Commit(k, Set(o, c), vm.bank, o)
  PROVE  Ordinary
  BY SetRegister, VMFields DEF Ordinary

(* An instruction that leaves the registers as they are.                   *)
LEMMA SetsNone ==
  ASSUME MachineIInv, NEW k \in Nat, NEW bank \in 0 .. Banks - 1, NEW reg \in Byte,
         vm.cycle < limit, Commit(k, vm.regs, bank, reg)
  PROVE  Ordinary
  BY SameRegisters, VMFields DEF Ordinary

(* Each instruction with an effect on the registers writes at most the one *)
(* that its operand names, with a content.                                 *)
LEMMA Instructions ==
  ASSUME MachineIInv,
         \/ Load \/ Store \/ XorImm \/ RolImm \/ SubImm \/ Sbox \/ Mix
         \/ DrawEntropy \/ HmacStep \/ Obf \/ SwitchBank
  PROVE  Ordinary
<1> DEFINE o1 == Operand(1)
           o2 == Operand(2)
           o3 == Operand(3)
<1>1. o1 \in Byte /\ o2 \in Byte /\ o3 \in Byte /\ \A k \in Nat : After(k) \in Byte
  BY OperandByte
<1>2. \A o \in Byte : Reg(o) \in Content
  BY RegTyped
<1>3. \A x, y \in Byte : XorByte(x, y) \in Byte /\ Rol(x, y) \in Byte
  BY ArithmeticAssumption DEF ArithmeticAssumption
<1>4. 0 \in Byte /\ 1 \in Byte /\ vm.bank \in 0 .. Banks - 1
  BY VMFields, Width DEF Byte
<1> HIDE DEF o1, o2, o3
<1>5. CASE Load
  <2> DEFINE c == [i \in RegIndex |-> Fetch(After(1) + i)]
  <2>1. \A i \in RegIndex : After(1) + i \in Nat
    <3>1. After(1) \in Nat
      BY <1>1, ByteNat
    <3> HIDE DEF After
    <3> QED
      BY <3>1, IndexNat
  <2>2. \A i \in RegIndex : Fetch(After(1) + i) \in Byte
    BY <2>1, FetchByte, VMFields DEF MachineIInv
  <2>3. c \in Content
    BY <2>2 DEF Content
  <2>4. vm.cycle < limit /\ Commit(1 + REG_SIZE, Set(o1, c), vm.bank, o1)
    BY <1>5 DEF Load, Executes, o1
  <2> HIDE DEF c
  <2>5. 1 + REG_SIZE \in Nat
    BY Width
  <2> QED
    BY <1>1, <2>3, <2>4, <2>5, Sets
<1>6. CASE Store
  BY <1>4, <1>6, SetsNone DEF Store, Executes
<1>7. CASE XorImm
  <2> DEFINE c == [i \in RegIndex |-> XorByte(Reg(o1)[i], o2)]
  <2>1. c \in Content
    BY <1>1, <1>2, <1>3 DEF Content
  <2>2. vm.cycle < limit /\ Commit(2, Set(o1, c), vm.bank, o1)
    BY <1>7 DEF XorImm, Executes, o1, o2
  <2> HIDE DEF c
  <2> QED
    BY <1>1, <2>1, <2>2, Sets
<1>8. CASE RolImm
  <2> DEFINE c == [i \in RegIndex |-> Rol(Reg(o1)[i], o2)]
  <2>1. c \in Content
    BY <1>1, <1>2, <1>3 DEF Content
  <2>2. vm.cycle < limit /\ Commit(2, Set(o1, c), vm.bank, o1)
    BY <1>8 DEF RolImm, Executes, o1, o2
  <2> HIDE DEF c
  <2> QED
    BY <1>1, <2>1, <2>2, Sets
<1>9. CASE SubImm
  <2> DEFINE c == [i \in RegIndex |-> (Reg(o1)[i] - o2 - i) % M]
  <2>1. \A i \in RegIndex : Reg(o1)[i] - o2 - i \in Int
    <3> TAKE i \in RegIndex
    <3>1. Reg(o1)[i] \in Byte
      BY <1>1, <1>2 DEF Content
    <3>2. Reg(o1)[i] \in Nat /\ o2 \in Nat /\ i \in Nat
      BY <1>1, <3>1, ByteNat, IndexNat
    <3> QED
      BY <3>2
  <2>2. c \in Content
    BY <2>1, ModByte DEF Content
  <2>3. vm.cycle < limit /\ Commit(2, Set(o1, c), vm.bank, o1)
    BY <1>9 DEF SubImm, Executes, o1, o2
  <2> HIDE DEF c
  <2> QED
    BY <1>1, <2>2, <2>3, Sets
<1>10. CASE Sbox
  <2> DEFINE c == [i \in RegIndex |-> VS_SBOX[Reg(o1)[i]]]
  <2>1. c \in Content
    BY <1>1, <1>2, MachineAssumption DEF MachineAssumption, Content
  <2>2. vm.cycle < limit /\ Commit(1, Set(o1, c), vm.bank, o1)
    BY <1>10 DEF Sbox, Executes, o1
  <2> HIDE DEF c
  <2> QED
    BY <1>1, <2>1, <2>2, Sets
<1>11. CASE Mix
  <2> DEFINE c == [i \in RegIndex |-> Rol(XorByte(Reg(o1)[i], Reg(o2)[i]), 1)]
  <2>1. c \in Content
    BY <1>1, <1>2, <1>3, <1>4 DEF Content
  <2>2. vm.cycle < limit /\ Commit(2, Set(o1, c), vm.bank, o1)
    BY <1>11 DEF Mix, Executes, o1, o2
  <2> HIDE DEF c
  <2> QED
    BY <1>1, <2>1, <2>2, Sets
<1>12. CASE DrawEntropy
  <2>1. PICK n \in 0 .. REG_SIZE, d \in Entropy :
          Commit(1, Set(o1, Drawn(o1, n, d)), vm.bank, o1)
    BY <1>12 DEF DrawEntropy, o1
  <2> DEFINE c == Drawn(o1, n, d)
  <2>2. c \in Content
    <3>1. d \in Content /\ Reg(o1) \in Content
      BY <1>1, <1>2, MachineAssumption DEF MachineAssumption
    <3> QED
      BY <3>1 DEF Drawn, Content
  <2>3. vm.cycle < limit
    BY <1>12 DEF DrawEntropy, Executes
  <2>4. Commit(1, Set(o1, c), vm.bank, o1)
    BY <2>1
  <2> HIDE DEF c
  <2> QED
    BY <1>1, <2>2, <2>3, <2>4, Sets
<1>13. CASE HmacStep
  <2> DEFINE c == Hmac(Reg(o1), Reg(o2))
  <2>1. c \in Content
    BY <1>1, <1>2, ArithmeticAssumption DEF ArithmeticAssumption
  <2>2. vm.cycle < limit /\ Commit(3, Set(o3, c), vm.bank, o3)
    BY <1>13 DEF HmacStep, Executes, o1, o2, o3
  <2> HIDE DEF c
  <2> QED
    BY <1>1, <2>1, <2>2, Sets
<1>14. CASE Obf
  BY <1>1, <1>4, <1>14, SetsNone DEF Obf, Executes, o1
<1>15. CASE SwitchBank
  <2>1. o1 % Banks \in 0 .. Banks - 1
    BY <1>1, ByteNat DEF Banks
  <2>2. vm.cycle < limit /\ Commit(1, vm.regs, o1 % Banks, 0)
    BY <1>15 DEF SwitchBank, Executes, o1
  <2> QED
    BY <1>4, <2>1, <2>2, SetsNone
<1> QED
  BY <1>5, <1>6, <1>7, <1>8, <1>9, <1>10, <1>11, <1>12, <1>13, <1>14, <1>15
-----------------------------------------------------------------------------
(***************************************************************************)
(* What each kind of step leaves of the machine, and of the registers.     *)
(***************************************************************************)
MachineKept == MachineIInv' /\ OneRegister(vm'.regs)

(* After the effect of an instruction the machine still fits.              *)
LEMMA EffectFits ==
  ASSUME MachineIInv, vm.cycle < limit,
         NEW k \in Nat, NEW regs \in [Register -> Content],
         NEW bank \in 0 .. Banks - 1, NEW reg \in Byte
  PROVE  LET e == Effect(vm, k, regs, bank, reg)
         IN  Fits(e) /\ e.regs = regs /\ e.rewrite = vm.rewrite
<1> DEFINE sum == XorAll(regs[PhysReg(bank, reg)])
           obf == XorByte(XorByte((vm.obf * 31) % M, sum), bank)
           e   == Effect(vm, k, regs, bank, reg)
<1>1. vm \in VM /\ vm.cycle + 1 \in Nat /\ vm.cycle + 1 <= limit /\ Len(vm.rewrite) <= M
  BY DEF MachineIInv, Fits, VM
<1>2. sum \in Byte
  BY Physical, ByteNat, ArithmeticAssumption DEF ArithmeticAssumption
<1>3. (vm.obf * 31) % M \in Byte
  <2>1. vm.obf \in Nat
    BY VMFields, ByteNat
  <2>2. vm.obf * 31 \in Int
    BY <2>1
  <2> QED
    BY <2>2, ModByte
<1>4. bank \in Byte
  BY Width DEF Byte, Banks
<1> HIDE DEF sum
<1>5. obf \in Byte
  BY <1>2, <1>3, <1>4, ArithmeticAssumption DEF ArithmeticAssumption
<1>6. After(k) \in Byte
  BY OperandByte
<1>7. e = [vm EXCEPT !.cycle = vm.cycle + 1, !.pc = After(k), !.regs = regs,
                     !.bank = bank, !.obf = obf]
  BY <1>1 DEF Effect, Counted, VM, sum
<1> HIDE DEF obf, e, After
<1>8. e \in VM /\ e.cycle = vm.cycle + 1 /\ e.regs = regs /\ e.rewrite = vm.rewrite
  BY <1>1, <1>5, <1>6, <1>7 DEF VM
<1> QED
  BY <1>1, <1>8 DEF Fits, e

(* Instructions that patch nothing, with their cycle and operands.         *)
LEMMA OrdinaryKeeps == ASSUME MachineIInv, Ordinary PROVE MachineKept
<1>1. PICK k \in Nat, regs \in [Register -> Content], bank \in 0 .. Banks - 1, reg \in Byte :
        OneRegister(regs) /\ Commit(k, regs, bank, reg)
  BY DEF Ordinary
<1>2. Fits(vm') /\ vm'.regs = regs /\ UNCHANGED <<code, limit, on>>
  BY <1>1, EffectFits DEF Ordinary, Commit
<1> QED
  BY <1>1, <1>2 DEF MachineKept, MachineIInv, Fits

(* The offset that PATCH works out is a natural number.                    *)
LEMMA OffsetNat ==
  ASSUME MachineIInv, NEW a \in Nat
  PROVE  RewriteOffset(a) \in Nat
<1>1. a - Len(code) \in Int
  BY DEF MachineIInv
<1>2. M * M \in Nat /\ M * M > 0
  BY Width
<1>3. \A b \in Int, w \in Nat : w > 0 => b % w \in Nat
  OBVIOUS
<1> QED
  BY <1>1, <1>2, <1>3 DEF RewriteOffset

(* PATCH also writes the rewrite buffer: a sequence of bytes, of which no  *)
(* hit is beyond M.                                                        *)
LEMMA PatchedFits ==
  ASSUME MachineIInv, NEW start \in Byte, NEW count \in Byte
  PROVE  Patched(start, count) \in Seq(Byte) /\ Len(Patched(start, count)) <= M
<1> DEFINE hits   == {i \in 0 .. count - 1 : RewriteOffset(start + i) < M}
           reach  == {Len(vm.rewrite)} \cup {RewriteOffset(start + i) + 1 : i \in hits}
           old(k) == IF k <= Len(vm.rewrite) THEN vm.rewrite[k] ELSE 0
           byte(k) == IF \E i \in hits : RewriteOffset(start + i) + 1 = k
                      THEN LET i == CHOOSE i \in hits : RewriteOffset(start + i) + 1 = k
                           IN  XorByte(old(k), Reg(0)[i % REG_SIZE])
                      ELSE old(k)
<1>1. Len(vm.rewrite) \in 0 .. M
  BY VMFields, Width DEF MachineIInv, Fits
<1>2. \A i \in 0 .. count - 1 : RewriteOffset(start + i) \in Nat
  <2>1. \A i \in 0 .. count - 1 : start + i \in Nat
    BY ByteNat
  <2> QED
    BY <2>1, OffsetNat
<1>3. \A i \in hits : RewriteOffset(start + i) + 1 \in 0 .. M
  BY <1>2, Width
<1>4. reach \subseteq 0 .. M /\ reach # {}
  BY <1>1, <1>3
<1>5. Max(reach) \in 0 .. M
  <2> HIDE DEF reach
  <2> QED
    BY <1>4, MaxExists
<1>6. \A k \in 1 .. Max(reach) : byte(k) \in Byte
  <2> HIDE DEF reach
  <2> TAKE k \in 1 .. Max(reach)
  <2>1. old(k) \in Byte
    BY <1>5, VMFields, ByteNat
  <2>2. Reg(0) \in Content
    BY RegTyped, ByteNat
  <2>3. ASSUME NEW i \in hits
        PROVE  XorByte(old(k), Reg(0)[i % REG_SIZE]) \in Byte
    <3>1. i \in Nat
      BY ByteNat
    <3>2. i % REG_SIZE \in RegIndex
      BY <3>1, Width DEF RegIndex
    <3>3. Reg(0)[i % REG_SIZE] \in Byte
      BY <2>2, <3>2 DEF Content
    <3> QED
      BY <2>1, <3>3, ArithmeticAssumption DEF ArithmeticAssumption
  <2> HIDE DEF hits, old
  <2> QED
    BY <2>1, <2>3
<1>7. Patched(start, count) = [k \in 1 .. Max(reach) |-> byte(k)]
  BY DEF Patched
<1> HIDE DEF reach, byte
<1> QED
  BY <1>5, <1>6, <1>7

(* PATCH writes code or the rewrite buffer, and no register.               *)
LEMMA PatchKeeps == ASSUME MachineIInv, Patch PROVE MachineKept
<1> DEFINE e == Effect(vm, 2, vm.regs, vm.bank, 0)
           p == Patched(Operand(1), Operand(2))
<1>1. Fits(e) /\ e.regs = vm.regs
  BY EffectFits, VMFields, ByteNat DEF Patch, Executes
<1>2. p \in Seq(Byte) /\ Len(p) <= M
  <2>1. Operand(1) \in Byte /\ Operand(2) \in Byte
    BY OperandByte
  <2> QED
    BY <2>1, PatchedFits
<1>3. vm' = [e EXCEPT !.rewrite = p] /\ UNCHANGED <<code, limit, on>>
  BY DEF Patch
<1> HIDE DEF e, p
<1>4. Fits(vm') /\ vm'.regs = vm.regs
  BY <1>1, <1>2, <1>3 DEF Fits, VM
<1> QED
  BY <1>3, <1>4, SameRegisters DEF MachineKept, MachineIInv, Fits

(* NOP and the bytes that no opcode decodes to.                            *)
LEMMA NopKeeps == ASSUME MachineIInv, Nop PROVE MachineKept
<1>1. /\ vm \in VM /\ Len(vm.rewrite) <= M
      /\ vm.cycle + 1 \in Nat /\ vm.cycle + 1 <= limit /\ After(0) \in Byte
  BY OperandByte DEF Nop, MachineIInv, Fits, VM
<1>2. /\ vm' = [vm EXCEPT !.cycle = vm.cycle + 1, !.pc = After(0)]
      /\ UNCHANGED <<code, limit, on>>
  BY <1>1 DEF Nop, Counted, VM
<1> HIDE DEF After
<1>3. Fits(vm') /\ vm'.regs = vm.regs
  BY <1>1, <1>2 DEF Fits, VM
<1> QED
  BY <1>2, <1>3, SameRegisters DEF MachineKept, MachineIInv, Fits

(* The ways to leave the loop.                                             *)
LEMMA StopKeeps == ASSUME MachineIInv, NEW pc \in Byte, Stop(pc) PROVE MachineKept
<1>1. Fits(vm') /\ vm'.regs = vm.regs
  BY DEF MachineIInv, Stop, Fits, VM
<1> QED
  BY <1>1, SameRegisters DEF MachineKept, MachineIInv, Fits, Stop

(* A turn of the loop, whichever it is.                                    *)
LEMMA StepKeeps == ASSUME MachineIInv, Step PROVE MachineKept
<1>1. CASE Halt \/ OutOfRoom \/ OutOfCycles
  <2>1. PICK pc \in Byte : Stop(pc)
    BY <1>1, OperandByte, VMFields DEF Halt, OutOfRoom, OutOfCycles
  <2> QED
    BY <2>1, StopKeeps
<1> QED
  BY <1>1, Instructions, OrdinaryKeeps, PatchKeeps, NopKeeps DEF Step
-----------------------------------------------------------------------------
(***************************************************************************)
(* The user, and the two together.                                         *)
(***************************************************************************)
LEMMA Initial == Init => IInv
<1> SUFFICES ASSUME Init PROVE IInv
  OBVIOUS
<1>1. /\ code \in Seq(Byte) /\ limit \in Nat /\ on = FALSE /\ MaxRuns \in Nat /\ MaxSets \in Nat
      /\ runs = 0 /\ sets = 0
  BY ProgramAssumption DEF ProgramAssumption, Init
<1>2. PICK map \in Maps : vm = FreshVM(map)
  BY DEF Init
<1>3. map \in [Byte -> Byte]
  BY ProgramAssumption DEF ProgramAssumption
<1>4. Zero \in Content
  BY ByteNat DEF Zero, Content
<1>5. vm \in VM /\ vm.cycle = 0 /\ vm.rewrite = <<>>
  BY <1>2, <1>3, <1>4, ByteNat DEF FreshVM, VM, Banks
<1>6. Fits(vm)
  BY <1>1, <1>5, Width DEF Fits
<1>7. runs \in 0 .. MaxRuns /\ sets \in 0 .. MaxSets
  BY <1>1
<1>8. MachineIInv
  BY <1>1, <1>6 DEF MachineIInv
<1> QED
  BY <1>7, <1>8 DEF IInv

(* What the user does to a machine at rest.                                *)
LEMMA UserKeeps ==
  ASSUME IInv, UserLoads \/ UserSwitches \/ UserRuns
  PROVE  IInv' /\ OneRegister(vm'.regs)
<1>1. /\ MachineIInv /\ vm \in VM /\ vm.cycle <= limit /\ Len(vm.rewrite) <= M
      /\ MaxRuns \in Nat /\ MaxSets \in Nat
  BY ProgramAssumption DEF ProgramAssumption, IInv, MachineIInv, Fits
<1>2. CASE UserLoads
  <2>1. PICK r \in LoadRegs, c \in Seeds : Calls([vm EXCEPT !.regs = Set(r, c)])
    BY <1>2 DEF UserLoads
  <2>2. r \in Byte /\ c \in Content
    BY ProgramAssumption DEF ProgramAssumption
  <2>3. Set(r, c) \in [Register -> Content] /\ OneRegister(Set(r, c))
    BY <1>1, <2>2, SetRegister
  <2>4. vm' = [vm EXCEPT !.regs = Set(r, c)] /\ UNCHANGED <<code, limit, on, runs>>
        /\ sets < MaxSets /\ sets' = sets + 1
    BY <2>1 DEF Calls
  <2> HIDE DEF Set
  <2>5. Fits(vm') /\ vm'.regs = Set(r, c)
    BY <1>1, <2>3, <2>4 DEF Fits, VM
  <2> QED
    BY <1>1, <2>3, <2>4, <2>5 DEF IInv, MachineIInv, Fits
<1>3. CASE UserSwitches
  <2>1. PICK b \in UserBanks : Calls([vm EXCEPT !.bank = b % Banks])
    BY <1>3 DEF UserSwitches
  <2>2. b % Banks \in 0 .. Banks - 1
    BY ProgramAssumption, ByteNat DEF ProgramAssumption, Banks
  <2>3. vm' = [vm EXCEPT !.bank = b % Banks] /\ UNCHANGED <<code, limit, on, runs>>
        /\ sets < MaxSets /\ sets' = sets + 1
    BY <2>1 DEF Calls
  <2>4. Fits(vm') /\ vm'.regs = vm.regs
    BY <1>1, <2>2, <2>3 DEF Fits, VM
  <2> QED
    BY <1>1, <2>3, <2>4, SameRegisters DEF IInv, MachineIInv, Fits
<1>4. CASE UserRuns
  <2>1. vm' \in {vm, Reset(vm)} /\ UNCHANGED limit /\ on' = TRUE
        /\ runs < MaxRuns /\ runs' = runs + 1 /\ sets' = 0
    BY <1>4 DEF UserRuns
  <2>0. code' \in Seq(Byte)
    <3>1. \A p \in Later : p \in Seq(Byte)
      BY ProgramAssumption DEF ProgramAssumption
    <3> QED
      BY <1>1, <1>4, <3>1 DEF UserRuns, MachineIInv
  <2>2. Fits(vm') /\ vm'.regs = vm.regs
    <3>1. CASE vm' = vm
      BY <1>1, <2>1, <3>1 DEF Fits
    <3>2. CASE vm' = Reset(vm)
      <4>1. vm' = [vm EXCEPT !.pc = 0, !.cycle = 0] /\ limit \in Nat /\ 0 \in Byte
        BY <1>1, <3>2, ByteNat DEF Reset, MachineIInv
      <4> QED
        BY <1>1, <2>1, <4>1 DEF Fits, VM
    <3> QED
      BY <2>1, <3>1, <3>2
  <2> QED
    BY <1>1, <2>0, <2>1, <2>2, SameRegisters DEF IInv, MachineIInv, Fits
<1> QED
  BY <1>2, <1>3, <1>4

(* Every step keeps the invariant.                                         *)
LEMMA NextKeeps ==
  ASSUME IInv, [Next]_vars
  PROVE  IInv' /\ OneRegister(vm'.regs)
<1>1. CASE MachineSteps
  BY <1>1, StepKeeps DEF MachineSteps, IInv, MachineKept
<1>2. CASE Returned \/ UNCHANGED vars
  <2>1. UNCHANGED <<code, limit, on, vm, runs, sets>>
    BY <1>2 DEF Returned, vars
  <2> QED
    BY <2>1, SameRegisters DEF IInv, MachineIInv, Fits
<1> QED
  BY <1>1, <1>2, UserKeeps DEF Next

(* The invariant is stronger than TypeOK.                                  *)
LEMMA Typed == IInv => TypeOK
<1> SUFFICES ASSUME IInv PROVE TypeOK
  OBVIOUS
<1>1. vm \in VM /\ vm.cycle <= limit /\ Len(vm.rewrite) <= M
  BY DEF IInv, MachineIInv, Fits
<1>2. \A k \in DOMAIN vm.rewrite : vm.rewrite[k] \in Byte
  BY <1>1 DEF VM
<1>3. vm.cycle \in 0 .. limit /\ Len(vm.rewrite) \in 0 .. M
  BY <1>1, Width DEF VM, IInv, MachineIInv
<1> QED
  BY <1>1, <1>2, <1>3 DEF TypeOK, MachineTypeOK, VM, IInv, MachineIInv
-----------------------------------------------------------------------------
(* The machine stays within its widths, and its rewrite buffer within its  *)
(* size, whatever bytecode runs and whatever the user does between runs.   *)
THEOREM TypeCorrect == Spec => []TypeOK
<1>1. IInv /\ [Next]_vars => IInv'
  BY NextKeeps
<1> QED
  BY Initial, <1>1, Typed, PTL DEF Spec

(* No instruction, and no call of the user, writes a register of another   *)
(* bank than the one that was active, or two registers.                    *)
THEOREM BanksIsolated == Spec => BankIsolation
<1> DEFINE A == \E r \in BankSize * vm.bank .. BankSize * vm.bank + BankSize - 1 :
                  \A q \in Register \ {r} : vm'.regs[q] = vm.regs[q]
<1>1. IInv /\ [Next]_vars => IInv' /\ A
  BY NextKeeps DEF OneRegister
<1>2. BankIsolation <=> [][A]_vars
  BY DEF BankIsolation
<1> QED
  BY Initial, <1>1, <1>2, PTL DEF Spec

(***************************************************************************)
(* PatchXorsImage and RewrittenCodeRuns, which virtual_silicon.md promises, *)
(* are violated.  What follows says how far: no program at all can do more  *)
(* with patched code than go on or stop.  It is no promise of the code; a   *)
(* correction that lets patched instructions have their operands ends it.   *)
(***************************************************************************)
(* An instruction that starts behind the bytecode is a NOP or ends the run. *)
(* The one exception is the highest address, M - 1: the operands of an      *)
(* instruction there are the first bytes of the program, and for those      *)
(* there is room.                                                           *)
RewriteInert ==
  [][on /\ vm.pc \in Len(code) .. M - 2 =>
       vm' = [vm EXCEPT !.pc = vm'.pc, !.cycle = vm'.cycle]]_vars

(* An instruction that starts behind the bytecode changes nothing but the  *)
(* program counter and the cycle count.                                    *)
LEMMA BehindTheCode ==
  ASSUME IInv, [Next]_vars, on, vm.pc \in Len(code) .. M - 2
  PROVE  vm' = [vm EXCEPT !.pc = vm'.pc, !.cycle = vm'.cycle]
<1>1. vm \in VM /\ code \in Seq(Byte) /\ vm.pc \in Nat
  BY ByteNat DEF IInv, MachineIInv, Fits, VM
<1>2. After(0) = vm.pc + 1
  <2>1. vm.pc + 1 \in 0 .. M - 1
    BY <1>1, Width
  <2>2. \A a \in 0 .. M - 1 : a % M = a
    BY Width
  <2> QED
    BY <1>1, <2>1, <2>2 DEF After
<1>3. \A k \in Nat \ {0} : ~Room(k)
  BY <1>1, <1>2, Width DEF Room
<1>4. \A op : ~Executes(op, 1) /\ ~Executes(op, 2) /\ ~Executes(op, 3)
  BY <1>3 DEF Executes
<1>5. CASE Nop
  BY <1>1, <1>5 DEF Nop, Counted, VM
<1>6. CASE Halt \/ OutOfRoom \/ OutOfCycles
  <2>1. PICK pc : vm' = [vm EXCEPT !.pc = pc]
    BY <1>6 DEF Halt, OutOfRoom, OutOfCycles, Stop
  <2> QED
    BY <1>1, <2>1 DEF VM
<1>7. CASE Returned \/ UNCHANGED vars
  BY <1>1, <1>7 DEF Returned, vars, VM
<1>8. ~(UserLoads \/ UserSwitches \/ UserRuns)
  BY DEF UserLoads, UserSwitches, UserRuns, Calls
<1>9. ~(Load \/ Store \/ XorImm \/ RolImm \/ SubImm \/ Sbox \/ Mix \/ DrawEntropy
        \/ HmacStep \/ Obf \/ SwitchBank \/ Patch)
  BY <1>4 DEF Load, Store, XorImm, RolImm, SubImm, Sbox, Mix, DrawEntropy, HmacStep,
              Obf, SwitchBank, Patch
<1> QED
  BY <1>5, <1>6, <1>7, <1>8, <1>9 DEF Next, MachineSteps, Step

(* The extent of the disagreement about PATCH: code that it wrote changes  *)
(* no register, no bank, no decoding state and no byte of the buffer, in   *)
(* any program of any length, where the document lets programs rewrite     *)
(* themselves.                                                             *)
THEOREM PatchedCodeInert == Spec => RewriteInert
<1> DEFINE A == on /\ vm.pc \in Len(code) .. M - 2 =>
                  vm' = [vm EXCEPT !.pc = vm'.pc, !.cycle = vm'.cycle]
<1>1. IInv /\ [Next]_vars => IInv' /\ A
  BY NextKeeps, BehindTheCode
<1>2. RewriteInert <=> [][A]_vars
  BY DEF RewriteInert
<1> QED
  BY Initial, <1>1, <1>2, PTL DEF Spec
=============================================================================
