----------------------------- MODULE KeyStretch -----------------------------
(***************************************************************************)
(* The routines that stretch a hash into as many bytes as asked for:       *)
(* choi_hmac_sha256 and, on top of it, choi_pbkdf2_hmac_sha256, which      *)
(* choi_derive_keys and vs_kdf call, and choi_generate_decoy.  One call of *)
(* one of the last two, buffer by buffer.                                  *)
(*                                                                         *)
(* A byte is the set of atoms xored into it, and hashes are free: byte j   *)
(* of the hash of a message is an atom that nothing else is.               *)
(***************************************************************************)
EXTENDS Integers, Sequences, FiniteSetsExt

CONSTANTS HMAC_BLOCK, HASH,  \* bytes of a block and of a hash: 64 and 32
          INDEX, BASE,  \* bytes of a block index, and values of a byte: 4, 256
          Passwords, StretchSalts, Ciphertexts,   \* sequences of bytes
          Iters, OutLens

Old          == {<<"old", <<>>, 0>>}      \* a byte that nobody has written
Number(d)    == IF d = 0 THEN {} ELSE {<<"number", <<>>, d>>}
Shifted(k, len) ==
  LET s[n \in 0 .. len] == IF n = 0 THEN k ELSE s[n - 1] \div BASE IN s
BigEndian(k, len) == [j \in 1 .. len |-> Shifted(k, len)[len - j] % BASE]
Bytes(ds)    == [j \in DOMAIN ds |-> Number(ds[j])]
Zeros(len)   == [j \in 1 .. len |-> {}]
XorAll(s, t) == [j \in DOMAIN s |-> SymDiff(s[j], t[j])]
Sha(msg)     == [j \in 1 .. HASH |-> {<<"sha", msg, j>>}]

(* What callers' bytes are made of.  Of the lengths asked for, every block  *)
(* index and every count of the decoy fits into its bytes.                  *)
Given == {"pw", "salt", "ct"} \X {<<>>} \X Nat

ASSUME StretchAssumption ==
  /\ {HMAC_BLOCK, HASH, INDEX, BASE} \subseteq Nat \ {0}
  /\ HASH <= HMAC_BLOCK
  /\ Iters \subseteq Nat /\ OutLens \subseteq Nat
  /\ \A len \in OutLens : LET blocks == (len + HASH - 1) \div HASH
                          IN  /\ Shifted(blocks, INDEX)[INDEX] = 0
                              /\ blocks > 0 => Shifted(blocks - 1, HASH)[HASH] = 0
  /\ Passwords \cup StretchSalts \cup Ciphertexts \subseteq Seq(SUBSET Given)

VARIABLES step,
          call, pw, salt, ct, iter, outlen,  \* the routine and its arguments,
          mem,            \*   its buffers, out among them, by name,
          i, c, made,     \*   and its counters: block, iteration, bytes made
          counter,        \* the decoy's counter, byte by byte
          hmac, inner,    \* the call of choi_hmac_sha256 under way
          failed          \* ghost: malloc returned NULL

args        == <<call, pw, salt, ct, iter, outlen>>
counters    == <<i, c, made, counter>>
stretchVars == <<step, args, mem, counters, hmac, inner, failed>>

StretchInit ==
  /\ call = "none" /\ pw = <<>> /\ salt = <<>> /\ ct = <<>> /\ iter = 0 /\ outlen = 0
  /\ mem = [out |-> <<>>] /\ step = "idle"
  /\ i = 1 /\ c = 0 /\ made = 0 /\ counter = BigEndian(0, HASH)
  /\ hmac = <<>> /\ inner = <<>> /\ failed = FALSE

Buffers(input, len) ==
  [b \in {"salt_i", "u", "f", "seed", "ct", "counter", "block", "out"} |->
     CASE b = "ct" -> input [] b = "out" -> [j \in 1 .. len |-> Old] [] OTHER -> <<>>]
-----------------------------------------------------------------------------
(***************************************************************************)
(* choi_hmac_sha256(key, msg, dst), and on to `then`.  k_ipad and k_opad   *)
(* are made first; msg is read for the inner hash, dst written with the    *)
(* outer one, and they may be one buffer.                                  *)
(***************************************************************************)
Hmac(key, msg, dst, then) ==
  /\ hmac' = [key |-> key, msg |-> msg, dst |-> dst, then |-> then]
  /\ step' = "inner"

PaddedKey(p) ==
  LET k == IF Len(hmac.key) > HMAC_BLOCK THEN Sha(hmac.key) ELSE hmac.key
  IN  XorAll(k \o Zeros(HMAC_BLOCK - Len(k)), [j \in 1 .. HMAC_BLOCK |-> {<<p, <<>>, 0>>}])

AbsorbedLate ==                          \* mutant of Absorbed: dst is cleared first
  IF hmac.msg = hmac.dst THEN Zeros(HASH) ELSE mem[hmac.msg]

Absorbed == mem[hmac.msg]

HmacInner ==
  /\ step = "inner" /\ step' = "outer"
  /\ inner' = Sha(PaddedKey("ipad") \o Absorbed)
  /\ UNCHANGED <<args, mem, counters, hmac, failed>>

HmacOuter ==
  /\ step = "outer" /\ step' = hmac.then
  /\ mem' = [mem EXCEPT ![hmac.dst] = Sha(PaddedKey("opad") \o inner)]
  /\ UNCHANGED <<args, counters, hmac, inner, failed>>

(* memcpy of a block, or of as much of it as is still asked for. *)
Emitted(from) ==
  [j \in 1 .. outlen |-> IF j \in made + 1 .. made + HASH THEN mem[from][j - made]
                         ELSE mem.out[j]]

WholeBlock == made + HASH                               \* mutant of MadeNext

MadeNext == IF outlen - made < HASH THEN outlen ELSE made + HASH
-----------------------------------------------------------------------------
(* choi_pbkdf2_hmac_sha256: malloc first, then a block for each index. *)
Pbkdf2Call ==
  /\ step = "idle" /\ call' = "pbkdf2"
  /\ pw' \in Passwords /\ salt' \in StretchSalts /\ iter' \in Iters /\ outlen' \in OutLens
  /\ mem' = Buffers(<<>>, outlen')
  /\ \/ step' = "block" /\ UNCHANGED failed
     \/ step' = "returned" /\ failed' = TRUE
  /\ UNCHANGED <<ct, counters, hmac, inner>>

NextBlock ==
  /\ step = "block" /\ made < outlen
  /\ mem' = [mem EXCEPT !["salt_i"] = salt \o Bytes(BigEndian(i, INDEX))]
  /\ Hmac(pw, "salt_i", "u", "first")
  /\ UNCHANGED <<args, counters, inner, failed>>

FirstU ==
  /\ step = "first" /\ step' = "iterate"
  /\ mem' = [mem EXCEPT !["f"] = mem["u"]] /\ c' = 1
  /\ UNCHANGED <<args, i, made, counter, hmac, inner, failed>>

Iterate ==
  /\ step = "iterate" /\ c < iter
  /\ Hmac(pw, "u", "u", "xor")
  /\ UNCHANGED <<args, mem, counters, inner, failed>>

XorU ==
  /\ step = "xor" /\ step' = "iterate"
  /\ mem' = [mem EXCEPT !["f"] = XorAll(@, mem["u"])] /\ c' = c + 1
  /\ UNCHANGED <<args, i, made, counter, hmac, inner, failed>>

EmitBlock ==
  /\ step = "iterate" /\ c >= iter /\ step' = "block"
  /\ mem' = [mem EXCEPT !["out"] = Emitted("f")]
  /\ made' = MadeNext /\ i' = i + 1
  /\ UNCHANGED <<args, c, counter, hmac, inner, failed>>

(* choi_generate_decoy: a seed of the ciphertext, a block for each count. *)
DecoyCall ==
  /\ step = "idle" /\ call' = "decoy"
  /\ ct' \in Ciphertexts /\ outlen' \in OutLens
  /\ mem' = Buffers(ct', outlen')
  /\ Hmac(Zeros(HASH), "ct", "seed", "expand")             \* zero_key
  /\ UNCHANGED <<pw, salt, iter, counters, inner, failed>>

DecoyBlock ==
  /\ step = "expand" /\ made < outlen
  /\ mem' = [mem EXCEPT !["counter"] = Bytes(counter)]
  /\ Hmac(mem["seed"], "counter", "block", "emit")
  /\ UNCHANGED <<args, counters, inner, failed>>

IncrementedNoCarry == [counter EXCEPT ![HASH] = (@ + 1) % BASE]  \* mutant of Incremented

Incremented ==
  [j \in 1 .. HASH |-> IF \A l \in j + 1 .. HASH : counter[l] = BASE - 1
                       THEN (counter[j] + 1) % BASE ELSE counter[j]]

DecoyEmit ==
  /\ step = "emit" /\ step' = "expand"
  /\ mem' = [mem EXCEPT !["out"] = Emitted("block")]
  /\ made' = MadeNext /\ counter' = Incremented
  /\ UNCHANGED <<args, i, c, hmac, inner, failed>>

StretchReturn ==
  /\ step \in {"block", "expand"} /\ made >= outlen /\ step' = "returned"
  /\ UNCHANGED <<args, mem, counters, hmac, inner, failed>>

StretchReturned == step = "returned" /\ UNCHANGED stretchVars

StretchNext == \/ HmacInner \/ HmacOuter \/ StretchReturn \/ StretchReturned
        \/ Pbkdf2Call \/ NextBlock \/ FirstU \/ Iterate \/ XorU \/ EmitBlock
        \/ DecoyCall \/ DecoyBlock \/ DecoyEmit

StretchSpec == StretchInit /\ [][StretchNext]_stretchVars
-----------------------------------------------------------------------------
(* No more bytes are made than asked for, and those not made yet are as    *)
(* the caller left them.                                                   *)
StretchTypeOK ==
  /\ call \in {"none", "pbkdf2", "decoy"} /\ made \in 0 .. outlen
  /\ DOMAIN mem["out"] = 1 .. outlen
  /\ \A j \in 1 .. outlen : (mem["out"][j] = Old) <=> j > made
  /\ counter \in [1 .. HASH -> 0 .. BASE - 1]

(***************************************************************************)
(* The standards: HMAC of RFC 2104, and byte j of what PBKDF2 of RFC 8018  *)
(* derives with it, the xor of a chain of hashes that all differ (of one,  *)
(* if the count is 0).  A decoy is HMAC in counter mode.                   *)
(***************************************************************************)
Prf(key, msg) ==
  LET k == IF Len(key) > HMAC_BLOCK THEN Sha(key) ELSE key
      padded(p) == [j \in 1 .. HMAC_BLOCK |->
                      {<<p, <<>>, 0>>} \cup (IF j > Len(k) THEN {} ELSE k[j])]
  IN  Sha(padded("opad") \o Sha(padded("ipad") \o msg))

Chain(k) ==
  LET U[n \in 1 .. iter + 1] == IF n = 1 THEN Prf(pw, salt \o Bytes(BigEndian(k, INDEX)))
                                ELSE Prf(pw, U[n - 1])
  IN  U

DerivedByte(j) ==
  UNION {Chain((j - 1) \div HASH + 1)[n][((j - 1) % HASH) + 1] : n \in {1} \cup 1 .. iter}

DecoyByte(j) ==
  Prf(Prf(Zeros(HASH), ct), Bytes(BigEndian((j - 1) \div HASH, HASH)))[((j - 1) % HASH) + 1]

(* What is returned is what the standards say, byte for byte and for every *)
(* length, with the message of every iteration in the buffer that its hash *)
(* goes to; or, when there was no memory, nothing at all.                  *)
OutputAsSpecified ==
  step = "returned" =>
    mem["out"] = [j \in 1 .. outlen |-> IF failed THEN Old
                                        ELSE IF call = "decoy" THEN DecoyByte(j)
                                        ELSE DerivedByte(j)]

(* No two bytes returned are one byte of one hash: the encryption and the  *)
(* MAC key, the halves of one output, share nothing, and a decoy does not  *)
(* repeat itself.                                                          *)
NoBlockTwice ==
  step = "returned" /\ ~failed =>
    \A j, k \in 1 .. outlen : j # k => mem["out"][j] # mem["out"][k]
=============================================================================
