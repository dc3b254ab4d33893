------------------------------- MODULE Crypto -------------------------------
(***************************************************************************)
(* The cryptography as the two file tools see it, over 16-byte units.      *)
(*                                                                         *)
(* A unit is a base value and the set of keystream pads xored over it.     *)
(* Key derivation, HMAC and the keystream are free terms: equal exactly    *)
(* when their arguments are.  That is the assumption under which the tools *)
(* are checked; what the code computes inside them is the matter of the    *)
(* other modules.                                                          *)
(***************************************************************************)
EXTENDS Naturals, Sequences, FiniteSetsExt

Unit(base) == [base |-> base, pads |-> {}]

Data(x)    == Unit(<<"data", x>>)      \* 16 bytes of somebody's plaintext
Salt(run)  == Unit(<<"salt", run>>)    \* 16 bytes of /dev/urandom, fresh
Nonce(run) == Unit(<<"nonce", run>>)   \*   in every run
Zero       == Unit(<<"zero", 0>>)      \* a hole in a file

(***************************************************************************)
(* choi_derive_keys.  The encryption and the MAC key are two halves of one *)
(* PBKDF2 output, so one term stands for both.                             *)
(***************************************************************************)
Key(pw, salt) == <<pw, salt>>

(***************************************************************************)
(* choi_transform: unit k is xored with the cipher of nonce + k - 1.       *)
(* Xoring the same pad again takes it off.                                 *)
(***************************************************************************)
TransformFixedCounter(units, key, nonce) ==       \* mutant of Transform
  [k \in DOMAIN units |->
     [units[k] EXCEPT !.pads = SymDiff(@, {<<key, nonce, 1>>})]]

Transform(units, key, nonce) ==
  [k \in DOMAIN units |->
     [units[k] EXCEPT !.pads = SymDiff(@, {<<key, nonce, k>>})]]

(***************************************************************************)
(* choi_hmac_sha256 under the MAC key: 32 bytes, two units.                *)
(***************************************************************************)
Mac(key, msg) == [k \in 1 .. 2 |-> Unit(<<"mac", k, key, msg>>)]

(***************************************************************************)
(* choi_generate_decoy: out_len bytes expanded from an all-zero-key HMAC   *)
(* of the buffer it is given.                                              *)
(***************************************************************************)
Decoy(buf, len) == [k \in 1 .. len |-> Unit(<<"decoy", k, buf>>)]
=============================================================================
