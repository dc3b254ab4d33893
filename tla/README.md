# Choicrypt: a TLA+ verification project

Choicrypt is a password-based file encryption tool in C built on a cipher of
its own, with an experimental bytecode machine and two obfuscation modules
beside it. This directory holds TLA+ models of its parts, TLC runs over small
instances, and machine-checked proofs (TLAPS) of the same properties for tables,
counters and buffers of any size and for any number of runs of the tools.

## 1. The system

| Component | State it keeps | Operations | Talks to |
|---|---|---|---|
| `choienc` (`choi_enc.c`) | plaintext, salt, nonce, payload, two `FILE`s | read file, encrypt-and-MAC, three `fwrite`s, `fclose` | cipher engine, HMAC, file system |
| `choidec` (`choi_dec.c`) | header, body deciphered in place, two `FILE`s | resolve name, read, decipher, open output, compare MAC, write / decoy / remove | cipher engine, HMAC, decoy, file system |
| cipher engine (`choi_common.h:261-653`) | process-wide `CHOI_SBOX`, `CHOI_INV_SBOX`, `CHOI_ROUND_KEYS`, `CHOI_ENGINE_READY` | `choi_derive_keys`, `choi_transform` | keyed tables, block cipher, PBKDF2, SHA-256 |
| block cipher (`choi_common.h:301-597`) | a 16-byte state, a round | `choi_encrypt_block`, `choi_decrypt_block`, `choi_expand_key`; two builds (SSSE3, scalar) | engine's tables |
| keyed tables | S-box and inverse, opcode map, P-box and inverse | `choi_generate_sbox`, `vs_build_opcode_map`, `generate_dynamic_pbox` | keys |
| SHA-256 (`choi_common.h:63-152`) | 64-byte buffer, fill level, bit count, chaining state | init, update, final | HMAC, engine |
| HMAC, PBKDF2 (`choi_common.h:154-215`) | none between calls | one call each | SHA-256 |
| decoy generator (`choi_common.h:658-679`) | none between calls | one call | HMAC |
| virtual silicon (`virtual_silicon.c`) | 16 registers in 4 banks, pc, bank, obfuscation state, cycle count, opcode map, rewrite buffer | `vs_vm_init(_keyed)`, `vs_vm_reset`, `vs_load`, `vs_store`, `vs_switch_bank`, `vs_run` | HMAC, `/dev/urandom` |
| its clients | one machine per call | `vs_rng_bytes`, `vs_obfuscate_block`, `vs_kdf` | machine, PBKDF2 |
| obfuscation pipeline (`obfuscated_pipeline.c`) | caller's round-key array | init, encrypt, decrypt | P-box, a two-operand interpreter |
| dynamic ASM (`dynamic_asm.c`) | none between calls | encrypt, decrypt | - |
| demo, tests, audit, scripts | none | - | everything above |

What is hard in it:

- *Files shared by processes.* Nothing is locked, nothing is renamed into
  place. Two tools, or two runs of one, truncate, read and write the same file
  at once; a length told by `ftell` is used by a later `fread`; stdio holds
  bytes back until a `fclose` whose result nobody looks at; a process may be
  killed anywhere. The only thing between a half-written file and its reader is
  the HMAC.
- *Order of effects in `choidec`.* The output is truncated before the MACs are
  compared, the ciphertext is gone before the decoy is made of it.
- *Process-wide tables.* Re-keying replaces them one at a time, with the ready
  flag of the old key still up.
- *In-place loops over tables.* A shuffle, a pass that removes fixed points by
  swaps that could make new ones, inverses that leave holes if it is not a
  permutation.
- *Boundaries.* Padding at 55/56/63/64 bytes, the last partial block, the carry
  of a 128-bit counter, an 8-bit program counter, 16-bit address differences.
- *Feedback.* Each round key of the pipeline is made of the block as the round
  left it, so decryption depends on an array that any other call may have
  touched, and one key too many is made in the last round.
- *Aliasing and silence.* PBKDF2 hashes a buffer into itself; it, the pipeline and
  `choi_transform` have early returns that tell their callers nothing.
- *Two builds of one cipher*, of which tests ever run one.
- *Code whose meaning is data.* The machine's opcodes are decoded with a state
  that depends on register contents.

`PROJECT.json` lists these hazards line by line with the properties that cover
them.

## 2. Modules

Each module names its code in its header; `PROJECT.json` maps each definition to
source lines.

**File tools.** `Crypto` gives the cryptography as the tools see it: a 16-byte
unit is a base value and the set of keystream pads xored over it, so that
enciphering twice takes the pad off; keys, MACs and decoys are free terms, equal
exactly when their arguments are. `FileSystem` (external: the operating system
and the C library) has paths, inodes and written streams that hold back what
they like; its history variable `hands` remembers for each inode which runs have
written to it since it was last empty, and no action reads it. `ChoiEnc` and
`ChoiDec` are the two `main`s, one action per I/O step, with the local computation
between two I/O steps in the action of the first;
`EncGiveUp` and `DecGiveUp` are the early returns that write nothing. A killed
process is one that takes no more steps, which a specification without fairness
allows everywhere. `ChoiTools` composes any number of runs of both and states
what they guarantee.

**Cipher engine.** `Keystream` is the abstract promise: one key, and `transform`
xors byte *o* with byte *o* mod 16 of the cipher of the number *nonce + o div
16*. `CipherEngine` has the four tables and flags of the code, derivation step
by step (S-box, round keys, flag) and `choi_transform` block by block with the
counter as separate bytes. `Implements` is the refinement; a derivation counts
from its first step, a transform when it returns.

**Block cipher.** `BlockLayers` has every layer over *any* kind of byte.
`BlockCipher` instantiates it twice: with bytes as sets of bits (xor is
symmetric difference, doubling a shift with reduction), which is the cipher bit
for bit, key schedule included; and with bytes as sets of input positions, which
follows which input bytes each byte depends on. `trail` keeps the intermediate
blocks of the encryption that the decryption has still to undo. `AesSBox` is the
table.

**Keyed tables.** `KeyedTables` has the three shuffles as one machine with
`kind` telling which routine runs. The generators draw any index in range.

**SHA-256.** `Sha256` is the streaming interface at its real size; the
compression function is replaced by the list of blocks it was given.

**Key stretching.** `KeyStretch` is what is built on the hash: `choi_hmac_sha256`
as a subroutine of two steps (inner hash, then the result into a buffer, which
may be the one the message is in), `choi_pbkdf2_hmac_sha256` and
`choi_generate_decoy` as its callers, over named buffers. A byte is the set of
atoms xored into it, and the bytes of hashes are free atoms. Of `vs_kdf` this is
all that reaches its caller.

**Dynamic ASM.** `DynamicAsm` is `dynamic_asm_encrypt` and `_decrypt`, round by
round, bit for bit; `gf_mul` and `gf_inv` are the loops of the code, as recursive
functions. The ghost `trail` keeps the states between the rounds of the call that
the present one is to take back. `ByteTables` has the S-boxes and the xor of
bytes as tables.

**Obfuscation pipeline.** `ObfPipeline` is the three public calls over one block
and one array of round keys, in any order, with any seed and round count. What
surrounds a round (`Layered`, `ObfEncryptRound`) and what makes the next key
(`NextKey`, `ObfInject`) are two steps, as the block is used before and after its
key is added. `ObfTables` makes the tent map and the P-boxes exactly as the code
does. The ghosts `made`, `used` and `path` remember the last encryption;
`follows` says that the block is one of its blocks and everything that decryption
needs is as that encryption left it.

**Virtual silicon.** `VirtualSilicon` is `vs_step`, one action per opcode, and
the loop of `vs_run`. All widths follow from `BITS`, 8 in the code.
`VSProgram` is a user of a machine at rest: it loads registers, switches banks,
resets or does not, and runs, with the same bytecode or other, in any order. What
`read` of `/dev/urandom` gives is any number of bytes, none included.
`VSClients` are `vs_obfuscate_block`, applied twice, and `vs_rng_bytes`, with
their bytecode, at full size.

The `MC*` modules give the constants their values and the `.cfg` files name what
is checked.

## 3. Runs

| Run | Module | Checks | Instance |
|---|---|---|---|
| `keyed_tables` | `MCKeyedTables` | `TypeOK`, `Permutation`, `InverseUndoes`, `FallbackNeverTaken`, `Derangement`; `AsmTypeOK`, `AsmRetraced`; `ObfTypeOK`, `ObfRetraced` | tables of 5 entries, all three routines, every sequence of draws; dynamic ASM at full size, two key arrays, two blocks, three calls; the pipeline at full width, two seeds, all 256 P-boxes, two blocks, 17 rounds, four calls |
| `choi_tools` | `MCChoiTools` | `TypeOK`, `AcceptsExactly`, `CompleteImage`, `RecoversPlaintext`, `NoKeystreamReuse` | two `choienc` (of the plaintext under either of two passwords, or of an image) and one `choidec` at once; an input of no or one unit; outputs that are elsewhere, the plaintext or the image itself |
| `choi_common` | `MCChoiCommon` | `BlockTypeOK`, `Retraced`, `EarlyDiffusion` | full size, both builds, two S-boxes, two keys, 33 blocks |
| | | `EngineTypeOK`, `TablesOfOneKey`, `Implements` | two keys, two-digit counters base 3, a buffer of two blocks and a half, all sequences of five calls |
| | | `TypeOK`, `HashesPaddedMessage` | real block size, lengths 0 to 190, three kinds of garbage |
| | | `StretchTypeOK`, `OutputAsSpecified`, `NoBlockTwice` | hashes of 3 bytes, HMAC blocks of 6, passwords of 0, 1, 6 and 7 bytes, counts 0 to 3, outputs of 0 to 9 bytes |
| `vs_program` | `MCVSProgram` | `TypeOK`, `BankIsolation`, `RunReturns` | 4-bit machine, programs of two instructions with every pair of opcodes and a few operands, plain and shuffled opcode map, at most one load or bank switch before each of two runs of twelve cycles, each run of that program, of a PATCH alone or of no bytecode at all |
| `rejection` | `MCChoiTools` | `RejectionWritesNothing` (violated) | a wrong password, an existing output file |
| `decoy` | `MCChoiTools` | `DecoyIndependentOfKey` (violated) | two wrong passwords with `--decoy` |
| `long_name` | `MCChoiTools` | `CreatesNamedFile` (violated) | a path that fills the name buffer |
| `lost` | `MCChoiTools` | `ZeroMeansWritten` (violated) | as `choi_tools`; the last flush fails |
| `rewrite` | `MCVSProgram` | `RewrittenCodeRuns` (violated) | as `vs_program` |
| `scalar_build` | `MCBlockCipher` | `Diffusion` (violated) | the scalar build only |
| `obfuscate` | `MCVSClients` | `SelfInverse` (violated) | full size, 256 blocks |
| `rng` | `MCVSClients` | `RngDeterministic` (violated) | full size, 256 seeds |

`keyed_tables` and `choi_common` each check several modules that share no variable:
`MCInit` starts all of them and `MCNext` goes on with the one that begins, so a
behaviour is of one of them and the states add up instead of multiplying.

What they show:

- **Tools.** `AcceptsExactly`: over all interleavings, short writes, failures
  and kills, `choidec` accepts a file exactly when the bytes it read are those of
  one complete image made under its password. `CompleteImage` and
  `RecoversPlaintext`: what exit status 0 means, *provided the unchecked
  `fclose` went through* (`lost`; what becomes of it otherwise is disagreement 4) and nobody else wrote to the file since this run opened it
  (`SoleWriter`, by `hands`; a file that an earlier run made, or the run's own
  input, is no exception). `CompleteImage` says further that an image is of as
  many units as `ftell` counted, whatever was done to the input before the `fread`,
  and that it is of the input's content if no run ever wrote to the input. Of an
  input that grows or is written again between `ftell` and `fread`, the image may be
  of a prefix or a mixture that was never its content; the code does not promise
  otherwise. `TypeOK` has the numbers that must not pass below zero: what `choidec`
  deciphers holds a nonce, a salt and a MAC.
  `NoKeystreamReuse`: units on disk that are under a common keystream pad hide the
  same unit, so no xor of two of them tells anything, which rests on the fresh salt
  of each run.
- **Engine.** No block is ever enciphered with mixed tables, and loop, carry and
  last block together compute what `Keystream` says.
- **Block cipher.** Decryption meets the encryption's intermediate blocks in
  reverse, in both builds. In the SSSE3 build everything depends on everything
  after two rounds.
- **Machine.** An instruction writes at most one register, of the bank that was
  active, and every `vs_run` returns, though patched code can fill the whole
  range of the program counter and keep it going round. The self-modification that
  the document describes does not happen (disagreement 5).
- **SHA-256.** The blocks compressed are the padded message at every length; the
  number in the length field is read back as a number (`FieldNumber`), not made by
  the code's own shifts.
- **Key stretching.** For every length of key, message and output, HMAC, PBKDF2
  and the decoy are byte for byte what the standards define, with the iterated
  hash going into the buffer it reads; when malloc fails, the output is what the
  caller had in it (which `choi_derive_keys` then uses as keys). No byte of an
  output is another one again, across a carry of either counter too.
- **Dynamic ASM and pipeline.** Every call that undoes the one before takes the
  block back through each of its intermediate states. The pipeline never writes
  behind its key array, and its encryption depends on block, seed and round count
  alone: repeating it gives the same path and the same keys whatever the array
  held. `made`, `used` and `follows` exclude what the header excludes: another
  seed, another count, other keys.

Outside TLC, the tent map, the P-boxes, a pipeline of 17 rounds and dynamic ASM in
both directions were worked out by these definitions and by the compiled C: the
bytes were the same.

Each property of a passing run has been tried against a mutant of the code, an
operator next to the one it alters and marked "mutant of" there (a lost carry,
a swap without its temporary, a missing bank, an off-by-one in the padding...);
TLC finds the property violated by it. `PROJECT.json` lists the pairs.

### Disagreements between code and documentation

1. *"write nothing" on HMAC mismatch* (`choi_dec.c:7`, `README.md:100-102`): the
   output path is opened with `"wb"` before the comparison and removed after it,
   so an existing file there is destroyed (`rejection`).
2. *"every wrong key produces the same decoy"* (`choi_common.h:660-662`): the
   buffer handed to the generator was deciphered with the guessed key (`decoy`).
3. *"creates secret.txt.choi"* (`README.md:144-145`): a path of 507 characters or
   more is cut short, one of 511 is overwritten itself (`long_name`).
4. *"Failed to write output file"*, *"Failed to write plaintext."* and 1 when not
   everything is written (`choi_enc.c:116-123`, `choi_dec.c:144-149`): the last
   bytes are written by an `fclose` that neither tool checks, so 0 may be returned
   over a cut or empty file (`lost`).
5. *"This lets a program rewrite itself while it runs"*
   (`virtual_silicon.md:73-74`, `README.md:120`): what was patched in behind the
   bytecode is fetched, but an instruction there that has an operand ends the
   run, since room for operands is checked against the bytecode's length
   (`rewrite`). How far this goes is proved for every program:
   `PatchedCodeInert`, section 4.
6. *Diffusion across the whole block* (`README.md:177-178`) and *"the same
   algorithm"* without SSSE3 (`block_rounds.md:100-102`): the scalar ShiftRows
   turns the four bytes that MixColumns mixes, so the scalar build is another,
   weaker cipher, and files of one build do not decrypt with the other
   (`scalar_build`).
7. *Self-inverse obfuscation* (`virtual_silicon.c:387-388`,
   `tests/test_virtual_silicon.c:33`): holds for the tested block and not for
   all; the opcodes after the first depend on the block (`obfuscate`).
8. *Deterministic generator* (`virtual_silicon.md:80`): for some seeds an opcode
   decodes as ENTROPY (`rng`).

Three more that the models show, each in one step, and that have no run:
PATCH *"XORs count bytes of the execution image"* (`virtual_silicon.md:68-71`), but
drops every byte inside the bytecode (`Patched`); ENTROPY is *"Read 16 bytes from
/dev/urandom"* (`virtual_silicon.md:35`), but a device that does not open or a short
`read` goes unnoticed (`Drawn`); and *"Remove the empty/incorrect output file"*
(`choi_dec.c:174`) is of a path, so it may remove what another run wrote there
(`DecReject`).

### Bounds and why they are enough

- `choi_tools`: two writers and one reader already give every pairwise race;
  one data unit and the two MAC units make a payload of three units that can be
  cut anywhere; the empty file is the other boundary, and an image encrypted once
  more the longest input, whose units come under two pads. `NameMax` is 9 (never
  reached) or, in `long_name`, the length of the path. Encryption runs are
  interchangeable, hence the symmetry; the properties quantify over all runs.
- Engine in `choi_common`: `MaxCalls` = 5 lets a key be derived twice and used under
  each; base 3 with two digits has a carry, a double carry and a wrap;
  `Length` = 5 ends in a partial block.
- `vs_program`: with four bits every byte is an opcode under some twist, and the
  rewrite buffer, the program counter's wrap and the operand checks are reached
  by programs of five bytes. `MaxCycles` = 12 is enough for the counter to leave
  the program and the buffer; `MaxRuns` = 2 for a run with and without a
  reset, and for a second run that finds behind other bytecode what the first one
  patched (`Later`).
- `keyed_tables`: 5 entries suffice for chains of fixed points and the wrap; the
  proofs cover all sizes. Dynamic ASM has its own 32 rounds, and keys that select
  each of the four operations; `MaxAsmCalls` = 3 gives encrypt-decrypt-encrypt and
  decrypt-encrypt-decrypt. The Galois inverse is checked for every odd constant
  and every byte (`GaloisAssumption`, which TLC evaluates). `OBF_MAX_ROUNDS` is 17
  instead of 64: round indices are taken modulo 16, so 17 rounds go round once,
  and `RoundCounts` has the highest count, 0 and one too many; `MaxObfCalls` = 4
  lets an encryption be followed by another call on the array or the block and
  then be repeated or decrypted.
- Hashing in `choi_common`: 190 bytes reach each way of padding after 0, 1 and 2 blocks. In this
  run the bit count wraps at 2^30 (TLC's integers), in the proof at any width.
  Key stretching is scaled: `HASH` = 3 and outputs to 9 bytes give each way to end
  in a whole or a cut block, `HMAC_BLOCK` = 6 keys up to a block and over it, and
  bytes of two values (`BASE`) a carry at the second block.
- Block cipher in `choi_common`: nothing is scaled; inputs, keys and S-boxes are samples,
  which the proofs of section 4 are not limited to.

### Fairness and deadlock

One liveness property is claimed, `RunReturns`: once called, `vs_run` returns. It
assumes weak fairness of `MachineSteps` (`FairSpec` of `VSProgram`), which the
code justifies: `vs_run` is a loop of one thread that waits for nothing, so
whenever it can take its next step it does. The user's calls have no fairness, and
the property would be false without the count of cycles in *every* step
(`Counted`, and its mutant).

All other specifications are safety specifications without fairness: a process
may stop, which is how a crash is modelled. Deadlock is checked in every run; the
states in which everything has returned have an explicit stuttering action
(`Done`, `BlockDone`, `Finished`, `Exited`, `Returned`, `StretchReturned`, `Resting`), so any other stop
would be reported.

## 4. Proofs

| Module | Theorem | Says |
|---|---|---|
| `KeyedTables_proofs` | `TypeCorrect`, `AlwaysPermutation`, `InverseCorrect`, `FallbackDead`, `PBoxDeranged` | the five properties of `KeyedTables` for tables of any size |
| `CipherEngine_proofs` | `TypeCorrect`, `OneKeyPerBlock`, `EngineImplements` | `EngineTypeOK`, `TablesOfOneKey` and the refinement `Implements` for any keys, block size, base, buffer and number of calls |
| `Hashing_proofs` | `TypeCorrect`, `PaddingCorrect` | `TypeOK` and `HashesPaddedMessage` for any message and counter width |
| `Hashing_proofs` | `OutputIsSpecified`, `BlocksDiffer`, `StretchTypeCorrect` | `OutputAsSpecified`, `NoBlockTwice` and `StretchTypeOK` of key stretching for any passwords, salts, iterations and lengths, and any size of hash, block and index |
| `VSProgram_proofs` | `TypeCorrect`, `BanksIsolated`, `PatchedCodeInert` | `TypeOK` and `BankIsolation` for any program, width, opcode map and sequence of calls; the extent of disagreement 5 (`RewriteInert`), as widely |
| `DynamicAsm_proofs` | `AsmTypeCorrect`, `AsmUndone` | `AsmTypeOK` and `AsmRetraced` for any keys, S-box, block size, rounds and number of calls |
| `ObfPipeline_proofs` | `ObfTypeCorrect`, `ObfUndone` | `ObfTypeOK` and `ObfRetraced` for any key map, S-box, P-boxes, array size and number of calls |
| `ChoiTools_proofs` | `AcceptsExactlyImages`, `PlaintextIsRecovered`, `ImageIsComplete`, `PadsAreNotReused`, `ToolsTypeCorrect` | `AcceptsExactly`, `RecoversPlaintext`, `CompleteImage`, `NoKeystreamReuse` and `TypeOK` of the tools for any number of runs, any arguments and starting files, in every interleaving |
| `BlockCipher_proofs` | `BlockTypeCorrect`, `BlockUndone`, `Diffused` | `BlockTypeOK`, `Retraced` and `EarlyDiffusion` for any byte width, field polynomial, number of rounds, bijective S-box, key and block, in both builds |

*Assumptions.* Only the named assumptions of the modules, each of which TLC
evaluates on the run of its module: `TablesAssumption` (the two AES tables undo
each other), `ToolsAssumption` (a run is of `choienc` or of `choidec`, its arguments
are paths, and the files at the start are sequences of user data), `EngineAssumption` (sizes are positive, the absent key is no key),
`MessageAssumption` and `WidthAssumption` (the message is a sequence of bytes, the bit
count has at most eight), `StretchAssumption` (a hash
is no longer than a block, of the lengths asked for the block index and the decoy's count
fit into their bytes, and what callers pass is made of their own bytes), `MachineAssumption`,
`ProgramAssumption` and `ArithmeticAssumption` (the width is at least 16; xor,
rotation, checksum and hash of bytes give bytes), `AsmAssumption` and
`ObfAssumption` (the S-box and the P-boxes have their inverses), `GaloisAssumption`
(a product with an odd constant is a byte, and the product with the inverse that
`gf_inv` computes undoes it) and `BlockAssumption` (an S-box is injective, there are
at least two rounds).
`GaloisAssumption`, and `ArithmeticAssumption` in part, are facts about recursive
functions or folds over at most 256 values, which TLC works out in full and no
backend of the prover can.

*File tools.* None of the five properties is inductive, and the invariant
(`ToolsIInv`) is about where things come from. `Known` says it of every unit, on disk
or in a buffer: a MAC under a run's key, or a salt, is there only because a run of
`choienc` got as far as making it, and a pad only because a run put it over its own
unit of that place. So when the MACs compare equal (`AcceptedIsImage`), the key that
`choidec` derived, from whatever header it read, is that of some run with that run's
salt and nonce; the pads that come off are those which that run put on; and the equal
MACs leave only its own plaintext. `DecRead` keeps the verdict true while `choidec`
goes on and others overwrite the file. `NoKeystreamReuse` is then two uses of `Known`:
equal pads are of one run and one place. For what exit status 0 means, `Sent` follows
the output stream: as long as nobody else writes to the file (`SoleWriter`), what is
on disk and what stdio still holds back are together what was written so far. A second
writer may come at any moment, which only makes that hypothesis false (`SentKept`):
what a step `Touches` has the stepping run among its writers afterwards, and
`HandsStay` is that an untouched file stays untouched. That an image is of the input is
`EncSource`: while no run has ever written to the input, the length that `ftell` told
is its length, and what the `fread` took is its content; and that is as long as told in
any case.

*Keyed tables.* `Permutation` is kept because swapping is (`SwapPermutes`), but
`InverseUndoes` and `FallbackNeverTaken` need that the loop inverts a
permutation (`InvertedUndoes`): then each entry is stored exactly once and the
zeros and leftovers show nowhere, so the verification cannot fail.
`Derangement` is not inductive: the invariant adds that the pass has left no
fixed point *behind* it (`DerangeAdvances`). A swap at *i* writes *i* into the
next entry, which the pass has not reached. At the wrap, *N-1* is written into
entry 0, and entry 0's value, which is not *N-1* since the last entry was its own
value, lands at the end.

*Cipher engine.* `TablesOfOneKey` speaks of the block loop only. `Derivation` adds
that after the first step of a derivation the S-box is of its key, and that
whenever the flag is up and no derivation is under way the round keys are of the
S-box's key, expanded with that S-box. Re-entry with the old flag still up is
covered: no transform can start in the middle of a derivation, for the code is
single-threaded.

`EngineImplements` is the refinement of `Keystream`, step by step: a derivation is seen
at its first step (`DeriveRefines`), a transform at its last (`EndRefines`), and nothing
in between (`Stutters`). Its invariant, `Ciphered`, adds that the bytes xored so far
are keystream of their own place, made with tables of one key (`OwnPads`), and that at
every block the counter stands for the nonce and the number of blocks done (`Counted`).
What carries it is arithmetic on a counter of any length: the carry loop adds one to
the number its bytes stand for and wraps at the highest (`NumberIncremented`), and no
two counters stand for one number (`NumberInjective`), so that naming keystream bytes by
numbers confuses none. `Value` and `Power`, which define these numbers, are recursive
functions; `NatInductive` is induction over the numbers as a statement about sets,
obtained from the least counterexample, and `Iterates` that such functions exist.

*SHA-256.* While bytes come in, the compressed blocks and the filled part of the
buffer are the message so far, and the bit count is that of the compressed
blocks; between padding and length field, all but the last block are those of
the padded message. The case split is on `Fits`; `BlockCount` is where the
boundary at 56 bytes enters, `WrappedSum` lets the counter wrap before or after
an addition.

*Key stretching.* `StretchIInv` says how much of the output is there (`Made`), that block
index and decoy counter stand for the block that comes next (`Counted`), and for each step
what is in every buffer that will still be read (`AtStep`): the link of the chain in `u`,
the xor of the links so far in `f`, and of a call of `choi_hmac_sha256` which of the four
callers made it (`Hashing`). The two hashes then are those of RFC 2104 (`KeyPadded`), and
the message is not lost where it shares the buffer with the result. That a xor is the
union of what went into it needs that no link of a chain comes twice (`LinksApart`): equal
hashes have equal messages, so a meeting point goes back, link by link, to the first
message, which ends in a byte of a block index and is no hash (`FirstApart`). `NoBlockTwice`
rests on that and on `BytesInjective`, that numbers that fit differ in their bytes;
`CarryCounts` is that the carry loop of the decoy goes from the bytes of one number to those
of the next. Chains and quotients are recursive functions, whose existence is proved
(`Chained`, `ShiftedSteps`) with `NatInductive`.

*Virtual silicon.* `MachineIInv` takes the machine as one record (`Fits`). Both
action properties follow from one fact about a step, `MachineKept`: the record
fits again and at most one register of the active bank is new
(`Instructions` for the opcodes whose effect is on registers, `PatchKeeps` for the
one on code). `PatchedCodeInert` is no promise of the code but the measure of
disagreement 5. It rests on `BehindTheCode`: the check for room compares with the
length of the bytecode, so behind it no instruction with operands executes. The
one exception, found by TLC, is the highest address: the operands of an
instruction there come round from address 0.

*Dynamic ASM.* That a round is undone byte by byte is `RoundUndone`, over the four
operations. `AsmRetraced` is not inductive: that the state before the round is the
one on the trail needs to know how the trail was made. `OnTrail` says that between
two of its points each state is a round of encryption after the one before,
*whichever call wrote it*; so the same invariant serves both directions.

*Pipeline.* The layers are undone one by one (`RolBack`, `PBoxBack`,
`InterpretedUndone`, `KeyInjection`) and together (`RoundUndone`). The invariant
(`ObfIInv`) then has to say where path and keys come from: after a finished
encryption, `Traced` and `Chained` hold of `path` and the ghost `used`, that is, the
first key is of the seed, each block follows from the one before with the key of
its round, and each key from the block and the key before. While an encryption
runs they hold of `rows`, as far as it has come. If it repeats the last one, equal
blocks and equal keys up to this round make the next block and the next key equal:
this is why the array's old contents never matter.

*Block cipher.* `Retraced` compares a state with the trail and so is not inductive
by itself. `Laid` says that each entry of the trail is the layer of its place
applied to the one before, whichever S-box and key wrote it, and `Standing` ties
phase, round and step to a place on it. What is left is that each layer is undone
by its inverse: `ShiftBack` for the two ways of shifting rows (the scalar build and
the SIMD shuffles), the S-box by its inverse table, the round key by xor, and
`ColumnBack` for the mixing of columns. That one holds for *every* polynomial and
width: the product of the two matrices is the identity already before the
reduction, so only that doubling is linear (`DoubleLinear`) is needed. `Diffused`
adds `Spread`, which follows the sets of input bytes that a byte depends on through
the first two rounds (`FirstMix`, `SecondMix`). That the key schedule fills every
round key, with bytes, is proved too (`ScheduleTyped`, `RoundKeyTyped`): `Rcon` and
`ExpandKey` are recursive functions, which exist because a step that stays in a set can
be repeated (`Repeats`), and `NatInductive` follows the words one by one.

`ToolsIInv`, `Ciphered`, `StretchIInv`, `ObfIInv`, `AsmIInv` and `BlockIInv` were checked by TLC as invariants before they
were proved.

*Only model-checked.* The two clients of the machine and what the violation runs show. Out of the
prover's reach and left to TLC: liveness under fairness (`RunReturns`), `ENABLED`, and
what an exponentiation in a Galois field computes.

## 5. Not modelled, and assumptions

- SHA-256's compression function; collisions of hashes, MACs, salts and
  keystreams. They are free terms: equal only for equal arguments.
- What becomes of a file when the malloc of `choi_pbkdf2_hmac_sha256`
  (`choi_common.h:193`) fails, after which the keys are uninitialised memory:
  `KeyStretch` has the failure, the tools' model assumes it does not happen.
- Sizes beyond any buffer: block indices over 2^32 and offsets over `size_t`
  (`StretchAssumption` excludes them).
- Reads of a file are one step each (header, body); a read that is itself torn
  between two writes is not.
- File data in units of 16 bytes, MACs of two units; a file whose length is not a
  multiple of 16 differs only in the last block of the keystream, which
  `CipherEngine` covers byte by byte.
- The machine that `vs_kdf` runs, whose result is unused. The decoding of the
  pipeline's bytecode: its layout is fixed, so `Interpreted` is its three
  instructions in order. The demo, the tests, the audit script and the build.
- `vs_program` assumes bytecode shorter than 2^16 - 2^8 bytes, which keeps PATCH
  offsets of bytes before the end out of the rewrite buffer.

## 6. Plan

Done, in this order: keyed tables (with proofs), file tools, block cipher, cipher
engine (with proofs), virtual machine and clients, SHA-256 (with proofs), key
stretching, dynamic ASM and obfuscation pipeline (with proofs), termination of
`vs_run`, proofs of the virtual machine, of the block cipher, of the file tools, of
the refinement of `Keystream`, of key stretching and of the key schedule.

Next: the free keys of `Crypto` tied to `KeyStretch`, that is the halves of one output that
`choi_derive_keys` takes, and outputs for different salts.
