----------------------------- MODULE VSProgram ------------------------------
(***************************************************************************)
(* A user of the machine: it is initialised, perhaps with a key, and then  *)
(* the user loads registers, switches banks, resets the machine or not,    *)
(* and runs it, on the same bytecode or on other, in any order.            *)
(* Everything but pc and cycle outlives a reset, the rewrite buffer too;   *)
(* without one, vs_run goes on where the last one stopped.                 *)
(***************************************************************************)
EXTENDS VirtualSilicon

CONSTANTS Programs,    \* the bytecode tried
          Later,       \* other bytecode that a vs_run on the machine may be given
          Maps,        \* the opcode maps that keys give: permutations
          Seeds,       \* what the user loads
          LoadRegs,    \* the register numbers it loads, bank-relative, and
          UserBanks,   \*   the bank numbers it switches to: any byte
          MaxCycles,   \* of one vs_run
          MaxRuns,     \* calls of vs_run
          MaxSets      \* calls of vs_load and vs_switch_bank before each

ASSUME ProgramAssumption ==
  /\ Identity \in Maps /\ Maps \subseteq [Byte -> Byte]
  /\ Seeds \subseteq Content
  /\ LoadRegs \subseteq Byte /\ UserBanks \subseteq Byte
  /\ MaxCycles \in Nat /\ MaxRuns \in Nat /\ MaxSets \in Nat
  /\ \A p \in Programs \cup Later : p \in Seq(Byte) /\ Len(p) < M * (M - 1)

(* Arithmetic of a width: xor, rotation, hash and checksum give bytes.     *)
ASSUME ArithmeticAssumption ==
  /\ M \in Nat /\ M >= 16
  /\ \A x, y \in Byte : XorByte(x, y) \in Byte /\ Rol(x, y) \in Byte
  /\ \A c \in Content : /\ XorAll(c) \in Byte
                        /\ \A d \in Content : Hmac(c, d) \in Content

VARIABLES runs, sets

vars == <<code, limit, on, vm, runs, sets>>

Init == /\ code \in Programs /\ limit = MaxCycles /\ on = FALSE
        /\ \E map \in Maps : vm = FreshVM(map)
        /\ runs = 0 /\ sets = 0

(* vs_load, vs_switch_bank and vs_run, called while the machine is at rest. *)
Calls(v) == /\ ~on /\ runs < MaxRuns /\ sets < MaxSets
            /\ vm' = v /\ sets' = sets + 1
            /\ UNCHANGED <<code, limit, on, runs>>

UserLoads    == \E r \in LoadRegs, c \in Seeds : Calls([vm EXCEPT !.regs = Set(r, c)])
UserSwitches == \E b \in UserBanks : Calls([vm EXCEPT !.bank = b % Banks])

UserRuns == /\ ~on /\ runs < MaxRuns
            /\ runs' = runs + 1 /\ sets' = 0 /\ on' = TRUE
            /\ vm' \in {vm, Reset(vm)} /\ code' \in {code} \cup Later
            /\ UNCHANGED limit

MachineSteps == Step /\ UNCHANGED <<runs, sets>>

Returned == ~on /\ runs = MaxRuns /\ UNCHANGED vars

Next == MachineSteps \/ UserLoads \/ UserSwitches \/ UserRuns \/ Returned

Spec == Init /\ [][Next]_vars

(* vs_run is a loop that nothing blocks: once called, it takes its steps.   *)
FairSpec == Spec /\ WF_vars(MachineSteps)
-----------------------------------------------------------------------------
(* MachineTypeOK, through every vs_run and every call between them.          *)
TypeOK == MachineTypeOK /\ runs \in 0 .. MaxRuns /\ sets \in 0 .. MaxSets

(* Bank switching isolates register spaces: however the opcodes decode, an  *)
(* instruction writes at most one register, and of the bank that was active *)
(* when it started; so does a vs_load by the user.                          *)
BankIsolation ==
  [][\E r \in BankSize * vm.bank .. BankSize * vm.bank + BankSize - 1 :
       \A q \in Register \ {r} : vm'.regs[q] = vm.regs[q]]_vars

(* A program can rewrite itself while it runs: an instruction that PATCH has *)
(* put into the execution image, with all of its operands, is executed and   *)
(* does not end the run.  The document and the comment at vs_fetch describe  *)
(* the rewrite buffer so; the code holds the operands against the bytecode.  *)
Extent == After(0) + Operands(Opcode) + (IF Opcode = LOAD THEN REG_SIZE ELSE 0)

RewrittenCodeRuns ==
  [][on /\ vm.cycle < limit /\ Raw # HALT
     /\ vm.pc \in Len(code) .. M - 2 /\ Extent <= Len(code) + Len(vm.rewrite) => on']_vars

(* Every vs_run returns.  The program counter wraps, and code with patched  *)
(* bytes behind it can fill its whole range without a HALT, so nothing but  *)
(* the cycles that each instruction, of any kind, has to count ends it.     *)
RunReturns == on ~> ~on
=============================================================================
