-------------------------- MODULE ChoiTools_proofs --------------------------
(***************************************************************************)
(* For every set of runs of choienc and choidec, every set of files they   *)
(* are given, and every interleaving of their steps: the five invariants   *)
(* of ChoiTools.                                                           *)
(*                                                                         *)
(* None of them is inductive.  That MACs compare equal only for an image   *)
(* rests on where each unit on disk comes from (Known): a MAC under the    *)
(* run's key, or a salt, is there only when a run of choienc made it, and  *)
(* a pad only when a run put it over its own unit of that place.  That a   *)
(* file is complete rests on what its stream has sent and still holds      *)
(* (Sent), which is so for as long as nobody else writes to the file; and  *)
(* that it is of the whole input, on what was read staying the input for   *)
(* as long as nobody writes to that (EncSource).                           *)
(***************************************************************************)
EXTENDS ChoiTools, SequenceTheorems, FiniteSetTheorems, TLAPS

(* What choienc encrypts: the plaintext and its MAC.                       *)
Signed(e) == enc[e].plain \o Mac(EncKey(e), enc[e].plain)

(***************************************************************************)
(* Where a unit comes from.  Whatever pads it is under were put there by   *)
(* runs of choienc, over the very unit that the run met at that place; and *)
(* only a run that has got as far as its output makes a MAC or a salt.     *)
(***************************************************************************)
Known(u) ==
  /\ u = [base |-> u.base, pads |-> u.pads]
  /\ \A p \in u.pads : \E e \in Encs :
       /\ Made(e)
       /\ \E k \in 1 .. Len(enc[e].plain) + 2 :
            p = <<EncKey(e), Nonce(e), k>> /\ u.base = Signed(e)[k].base
  /\ u.base[1] = "mac" =>
       \E e \in Encs : /\ Made(e)
                       /\ \E k \in 1 .. 2 : u.base = <<"mac", k, EncKey(e), enc[e].plain>>
  /\ u.base[1] = "salt" => \E e \in Encs : Made(e) /\ u.base = <<"salt", e>>

IsSeq(s)    == s \in Seq(Range(s))
AllKnown(s) == IsSeq(s) /\ \A k \in DOMAIN s : Known(s[k])

FilesOK == /\ dir \in [Paths -> 0 .. Len(data)]
           /\ IsSeq(data) /\ \A n \in DOMAIN data : AllKnown(data[n])
           /\ IsSeq(hands) /\ Len(hands) = Len(data)
           /\ \A n \in DOMAIN data : hands[n] \subseteq Encs \cup Decs

StreamFields == {"inode", "off", "buf"}

(* If nobody else writes to the stream's file, it and what the stream      *)
(* holds back are together the units s.                                    *)
Sent(run, st, s) ==
  SoleWriter(run, st.inode) =>
    st.off = Len(data[st.inode]) /\ data[st.inode] \o st.buf = s

-----------------------------------------------------------------------------
(* A run of choienc: its types, and how far its output has got.            *)
EncTyped(e) ==
  /\ DOMAIN enc[e] = {"in", "pw", "pc", "fd", "len", "plain", "todo", "out", "lost"}
  /\ DOMAIN enc[e].out = StreamFields
  /\ enc[e].in \in Names /\ OutName(enc[e].in) \in Paths
  /\ enc[e].pc \in {"open", "read", "create", "write", "exit0", "exit1"}
  /\ enc[e].fd \in 0 .. Len(data) /\ enc[e].len \in Nat /\ StreamOK(enc[e].out)
  /\ AllKnown(enc[e].plain) /\ AllKnown(enc[e].out.buf)
  /\ enc[e].pc \in {"open", "read", "create"} => ~Made(e)
  /\ enc[e].pc \in {"write", "exit0"} => Made(e)
  /\ Made(e) => hands[enc[e].out.inode] # {}

(* What it has read, and the input for as long as nobody writes to that.   *)
EncSource(e) ==
  /\ enc[e].pc \in {"read", "create", "write", "exit0"} => enc[e].fd # Absent
  /\ enc[e].pc = "read" => (hands[enc[e].fd] = {} => enc[e].len = Len(data[enc[e].fd]))
  /\ enc[e].pc \in {"create", "write", "exit0"} =>
       /\ Len(enc[e].plain) = enc[e].len
       /\ hands[enc[e].fd] = {} => enc[e].plain = data[enc[e].fd]

EncProgress(e) ==
  LET out  == enc[e].out
      todo == enc[e].todo
      load == Payload(e, enc[e].plain)
  IN  /\ enc[e].pc = "write" =>
           \/ todo = Pieces(e, enc[e].plain)  /\ Sent(e, out, <<>>)
           \/ todo = <<<<Nonce(e)>>, load>>   /\ Sent(e, out, <<Salt(e)>>)
           \/ todo = <<load>>                 /\ Sent(e, out, <<Salt(e), Nonce(e)>>)
           \/ todo = <<>>                     /\ Sent(e, out, Image(e, enc[e].plain))
      /\ enc[e].pc = "exit0" => /\ Sent(e, out, Image(e, enc[e].plain))
                                /\ enc[e].lost \/ out.buf = <<>>

-----------------------------------------------------------------------------
(* A run of choidec: its types, what it has read, and how far its output   *)
(* has got.                                                                *)
DecTyped(d) ==
  /\ DOMAIN dec[d] = {"in", "out", "pw", "decoy", "pc", "path", "fd", "len",
                      "head", "ct", "verdict", "st", "lost"}
  /\ DOMAIN dec[d].st = StreamFields
  /\ dec[d].in \in Names /\ dec[d].out \in Paths /\ dec[d].path \in Paths
  /\ dec[d].pc \in {"resolve", "open", "header", "body", "create",
                    "verify", "close", "exit0", "exit1", "rejected"}
  /\ dec[d].fd \in 0 .. Len(data) /\ StreamOK(dec[d].st)
  /\ AllKnown(dec[d].head) /\ AllKnown(dec[d].ct) /\ AllKnown(dec[d].st.buf)
  /\ dec[d].st.inode # Absent => hands[dec[d].st.inode] # {}

Judged(d) == dec[d].verdict # "none"

DecRead(d) ==
  /\ dec[d].pc \in {"header", "body"} => /\ dec[d].fd # Absent
                                         /\ dec[d].len \in Nat /\ dec[d].len >= 4
  /\ dec[d].pc \in {"body", "create"} \/ Judged(d) => Len(dec[d].head) = 2
  /\ dec[d].pc = "create" \/ Judged(d) => Len(dec[d].ct) >= 2
  /\ dec[d].verdict \in {"none", "match", "mismatch"}
  /\ Judged(d) <=> dec[d].st.inode # Absent
  /\ dec[d].pc \in {"resolve", "open", "header", "body", "create"} => ~Judged(d)
  /\ dec[d].pc \in {"verify", "close", "exit0", "rejected"} => Judged(d)
  /\ Judged(d) => (dec[d].verdict = "match" <=> \E e \in Encs : Reads(d, e))

DecProgress(d) ==
  /\ dec[d].pc = "verify" => /\ dec[d].st.off = 0
                             /\ Sent(d, dec[d].st, <<>>)
  /\ dec[d].pc \in {"close", "exit0"} => Sent(d, dec[d].st, Written(d))
  /\ dec[d].pc = "exit0" => dec[d].lost \/ dec[d].st.buf = <<>>

ToolsIInv ==
  /\ FilesOK
  /\ DOMAIN enc = Encs /\ \A e \in Encs : EncTyped(e) /\ EncSource(e) /\ EncProgress(e)
  /\ DOMAIN dec = Decs /\ \A d \in Decs : DecTyped(d) /\ DecRead(d) /\ DecProgress(d)
-----------------------------------------------------------------------------
(* Sequences whose elements are of no set that could be named.             *)

(* A sequence is a function on its positions, and its range has its        *)
(* elements.                                                               *)
LEMMA SeqShape ==
  ASSUME NEW s, IsSeq(s)
  PROVE  /\ Len(s) \in Nat /\ DOMAIN s = 1 .. Len(s)
         /\ s = [k \in 1 .. Len(s) |-> s[k]]
         /\ \A k \in 1 .. Len(s) : s[k] \in Range(s)
  BY LenProperties DEF IsSeq, Range

(* What is over a set is a sequence.                                       *)
LEMMA SeqOver ==
  ASSUME NEW S, NEW s \in Seq(S) PROVE IsSeq(s)
<1>1. Len(s) \in Nat /\ DOMAIN s = 1 .. Len(s) /\ s \in [1 .. Len(s) -> S]
  BY LenProperties
<1>2. s \in [1 .. Len(s) -> Range(s)]
  BY <1>1 DEF Range
<1> QED
  BY <1>1, <1>2 DEF IsSeq

(* A function on the first numbers is a sequence.                          *)
LEMMA FunctionSeq ==
  ASSUME NEW n \in Nat, NEW s, s = [k \in 1 .. n |-> s[k]]
  PROVE  IsSeq(s) /\ Len(s) = n
<1>1. DOMAIN s = 1 .. n /\ s \in [1 .. n -> Range(s)]
  BY DEF Range
<1>2. s \in Seq(Range(s))
  BY <1>1
<1> QED
  BY <1>1, <1>2, LenProperties DEF IsSeq

(* Two sequences with the same elements at the same places are the same.   *)
LEMMA SameSeq ==
  ASSUME NEW s, NEW t, IsSeq(s), IsSeq(t), Len(s) = Len(t),
         \A k \in 1 .. Len(s) : s[k] = t[k]
  PROVE  s = t
  BY SeqShape

(* One after the other.                                                    *)
LEMMA ConcatSeq ==
  ASSUME NEW s, NEW t, IsSeq(s), IsSeq(t)
  PROVE  /\ IsSeq(s \o t) /\ Len(s \o t) = Len(s) + Len(t)
         /\ \A k \in 1 .. Len(s) : (s \o t)[k] = s[k]
         /\ \A k \in 1 .. Len(t) : (s \o t)[Len(s) + k] = t[k]
<1> DEFINE S == Range(s) \cup Range(t)
<1>1. Len(s) \in Nat /\ Len(t) \in Nat /\ s \in Seq(S) /\ t \in Seq(S)
  BY SeqShape, SeqMonotonic DEF IsSeq
<1>2. /\ s \o t \in Seq(S) /\ Len(s \o t) = Len(s) + Len(t)
      /\ \A k \in 1 .. Len(s) + Len(t) :
           (s \o t)[k] = IF k <= Len(s) THEN s[k] ELSE t[k - Len(s)]
  BY <1>1, ConcatProperties
<1> HIDE DEF S
<1>3. IsSeq(s \o t)
  BY <1>2, SeqOver
<1> QED
  BY <1>1, <1>2, <1>3

(* Part of a sequence.                                                     *)
LEMMA SubSeqSeq ==
  ASSUME NEW s, IsSeq(s), NEW m \in Nat \ {0}, NEW n \in 0 .. Len(s), m <= n + 1
  PROVE  /\ IsSeq(SubSeq(s, m, n)) /\ Len(SubSeq(s, m, n)) = n - m + 1
         /\ \A k \in 1 .. n - m + 1 : SubSeq(s, m, n)[k] = s[m + k - 1]
<1>1. Len(s) \in Nat /\ m \in Int /\ n \in Int /\ \A k \in m .. n : s[k] \in Range(s)
  BY SeqShape
<1>2. /\ SubSeq(s, m, n) \in Seq(Range(s))
      /\ Len(SubSeq(s, m, n)) = IF m <= n THEN n - m + 1 ELSE 0
      /\ \A k \in 1 .. n - m + 1 : SubSeq(s, m, n)[k] = s[m + k - 1]
  BY <1>1, SubSeqProperties
<1>3. IsSeq(SubSeq(s, m, n))
  BY <1>2, SeqOver
<1> QED
  BY <1>1, <1>2, <1>3

(* Short sequences.                                                        *)
LEMMA ShortSeq ==
  /\ IsSeq(<<>>) /\ Len(<<>>) = 0
  /\ \A x : IsSeq(<<x>>) /\ Len(<<x>>) = 1 /\ <<x>>[1] = x
  /\ \A x, y : IsSeq(<<x, y>>) /\ Len(<<x, y>>) = 2 /\ <<x, y>>[1] = x /\ <<x, y>>[2] = y
<1>1. <<>> \in Seq({})
  OBVIOUS
<1>2. \A x : <<x>> \in Seq({x})
  OBVIOUS
<1>3. \A x, y : <<x, y>> \in Seq({x, y})
  OBVIOUS
<1> QED
  BY <1>1, <1>2, <1>3, SeqOver

(* Nothing before or after.                                                *)
LEMMA EmptyConcat ==
  ASSUME NEW s, IsSeq(s) PROVE s \o <<>> = s /\ <<>> \o s = s
  BY ConcatEmptySeq DEF IsSeq

(* Brackets do not matter.                                                 *)
LEMMA ConcatAssoc ==
  ASSUME NEW s, NEW t, NEW u, IsSeq(s), IsSeq(t), IsSeq(u)
  PROVE  (s \o t) \o u = s \o (t \o u)
<1> DEFINE S == Range(s) \cup Range(t) \cup Range(u)
<1>1. s \in Seq(S) /\ t \in Seq(S) /\ u \in Seq(S)
  BY SeqMonotonic DEF IsSeq
<1> HIDE DEF S
<1> QED
  BY <1>1, ConcatAssociative

(* The greater of two numbers.                                             *)
LEMMA GreaterOfTwo ==
  ASSUME NEW a \in Nat, NEW b \in Nat
  PROVE  Max({a, b}) = IF a >= b THEN a ELSE b
<1> DEFINE m == IF a >= b THEN a ELSE b
<1>1. m \in {a, b} /\ \A y \in {a, b} : m >= y
  OBVIOUS
<1>2. \A x \in {a, b} : (\A y \in {a, b} : x >= y) => x = m
  OBVIOUS
<1> QED
  BY <1>1, <1>2 DEF Max

(* An appended element.                                                    *)
LEMMA AppendSeq ==
  ASSUME NEW s, NEW x, IsSeq(s)
  PROVE  /\ IsSeq(Append(s, x)) /\ Len(Append(s, x)) = Len(s) + 1
         /\ \A k \in 1 .. Len(s) : Append(s, x)[k] = s[k]
         /\ Append(s, x)[Len(s) + 1] = x
<1> DEFINE S == Range(s) \cup {x}
<1>1. s \in Seq(S) /\ x \in S
  BY SeqMonotonic DEF IsSeq
<1>2. /\ Append(s, x) \in Seq(S) /\ Len(Append(s, x)) = Len(s) + 1
      /\ \A k \in 1 .. Len(s) : Append(s, x)[k] = s[k]
      /\ Append(s, x)[Len(s) + 1] = x
  BY <1>1
<1> HIDE DEF S
<1> QED
  BY <1>2, SeqOver

(* One element replaced.                                                   *)
LEMMA ReplacedSeq ==
  ASSUME NEW s, NEW x, IsSeq(s), NEW n \in 1 .. Len(s)
  PROVE  LET t == [s EXCEPT ![n] = x]
         IN  /\ IsSeq(t) /\ Len(t) = Len(s) /\ t[n] = x
             /\ \A k \in 1 .. Len(s) : k # n => t[k] = s[k]
<1> DEFINE t == [s EXCEPT ![n] = x]
<1>1. Len(s) \in Nat /\ DOMAIN s = 1 .. Len(s)
  BY SeqShape
<1>2. /\ t = [k \in 1 .. Len(s) |-> t[k]] /\ t[n] = x
      /\ \A k \in 1 .. Len(s) : k # n => t[k] = s[k]
  BY <1>1
<1> HIDE DEF t
<1>3. IsSeq(t) /\ Len(t) = Len(s)
  BY <1>1, <1>2, FunctionSeq
<1> QED
  BY <1>2, <1>3 DEF t
-----------------------------------------------------------------------------
(* Units whose origin is known.                                            *)

(* Sequences of them may be put together and taken apart.                  *)
LEMMA KnownConcat == \A s, t : AllKnown(s) /\ AllKnown(t) => AllKnown(s \o t)
<1> SUFFICES ASSUME NEW s, NEW t, AllKnown(s), AllKnown(t) PROVE AllKnown(s \o t)
  OBVIOUS
<1>1. IsSeq(s) /\ IsSeq(t)
  BY DEF AllKnown
<1>2. /\ Len(s) \in Nat /\ DOMAIN s = 1 .. Len(s)
      /\ Len(t) \in Nat /\ DOMAIN t = 1 .. Len(t)
  BY <1>1, SeqShape
<1>3. /\ IsSeq(s \o t) /\ Len(s \o t) = Len(s) + Len(t)
      /\ \A k \in 1 .. Len(s) : (s \o t)[k] = s[k]
      /\ \A k \in 1 .. Len(t) : (s \o t)[Len(s) + k] = t[k]
  BY <1>1, ConcatSeq
<1>4. DOMAIN (s \o t) = 1 .. Len(s) + Len(t)
  BY <1>3, SeqShape
<1>5. ASSUME NEW k \in 1 .. Len(s) + Len(t) PROVE Known((s \o t)[k])
  <2>1. CASE k <= Len(s)
    BY <2>1, <1>2, <1>3 DEF AllKnown
  <2>2. CASE k > Len(s)
    <3>1. k - Len(s) \in 1 .. Len(t) /\ k = Len(s) + (k - Len(s))
      BY <2>2, <1>2
    <3> QED
      BY <3>1, <1>2, <1>3 DEF AllKnown
  <2> QED
    BY <2>1, <2>2, <1>2
<1> QED
  BY <1>3, <1>4, <1>5 DEF AllKnown

(* So are the parts of a sequence.                                         *)
LEMMA KnownPart ==
  \A s : AllKnown(s) =>
    \A m \in Nat \ {0}, n \in 0 .. Len(s) : m <= n + 1 => AllKnown(SubSeq(s, m, n))
<1> SUFFICES ASSUME NEW s, AllKnown(s), NEW m \in Nat \ {0}, NEW n \in 0 .. Len(s), m <= n + 1
             PROVE  AllKnown(SubSeq(s, m, n))
  OBVIOUS
<1>1. IsSeq(s) /\ Len(s) \in Nat /\ DOMAIN s = 1 .. Len(s)
  BY SeqShape DEF AllKnown
<1>2. /\ IsSeq(SubSeq(s, m, n)) /\ Len(SubSeq(s, m, n)) = n - m + 1
      /\ \A k \in 1 .. n - m + 1 : SubSeq(s, m, n)[k] = s[m + k - 1]
  BY <1>1, SubSeqSeq
<1>3. DOMAIN SubSeq(s, m, n) = 1 .. n - m + 1
  BY <1>2, SeqShape
<1>4. \A k \in 1 .. n - m + 1 : m + k - 1 \in 1 .. Len(s)
  BY <1>1
<1> QED
  BY <1>1, <1>2, <1>3, <1>4 DEF AllKnown

(* And sequences of no unit or one.                                        *)
LEMMA KnownShort == AllKnown(<<>>) /\ \A u : Known(u) => AllKnown(<<u>>)
<1>1. \A u : DOMAIN <<u>> = {1} /\ <<u>>[1] = u
  OBVIOUS
<1>2. DOMAIN <<>> = {}
  OBVIOUS
<1> QED
  BY <1>1, <1>2, ShortSeq DEF AllKnown

(* Units that are neither salt nor MAC, and under no pad, need no origin.  *)
LEMMA KnownBare == \A b : b[1] \notin {"mac", "salt"} => Known(Unit(b))
  BY DEF Known, Unit

(* Zeros, nonces, user data and decoys are such units.                     *)
LEMMA KnownPlain ==
  /\ Known(Zero)
  /\ \A e : Known(Nonce(e))
  /\ \A x : Known(Data(x))
  /\ \A k, buf : Known(Unit(<<"decoy", k, buf>>))
<1>1. <<"zero", 0>>[1] \notin {"mac", "salt"}
  OBVIOUS
<1>2. \A e : <<"nonce", e>>[1] \notin {"mac", "salt"}
  OBVIOUS
<1>3. \A x : <<"data", x>>[1] \notin {"mac", "salt"}
  OBVIOUS
<1>4. \A k, buf : <<"decoy", k, buf>>[1] \notin {"mac", "salt"}
  OBVIOUS
<1> QED
  BY <1>1, <1>2, <1>3, <1>4, KnownBare DEF Zero, Nonce, Data

(* A salt and a MAC are known once their run has got as far as its output. *)
LEMMA KnownTerms ==
  \A e \in Encs : Made(e) =>
    /\ Known(Salt(e))
    /\ \A k \in 1 .. 2 : Known(Mac(EncKey(e), enc[e].plain)[k])
<1> SUFFICES ASSUME NEW e \in Encs, Made(e)
             PROVE  /\ Known(Salt(e))
                    /\ \A k \in 1 .. 2 : Known(Mac(EncKey(e), enc[e].plain)[k])
  OBVIOUS
<1>1. /\ Salt(e).base = <<"salt", e>> /\ Salt(e).pads = {} /\ Salt(e).base[1] = "salt"
      /\ Salt(e) = [base |-> Salt(e).base, pads |-> Salt(e).pads]
  BY DEF Salt, Unit
<1>2. Known(Salt(e))
  BY <1>1 DEF Known
<1>3. ASSUME NEW k \in 1 .. 2 PROVE Known(Mac(EncKey(e), enc[e].plain)[k])
  <2> DEFINE u == Mac(EncKey(e), enc[e].plain)[k]
  <2>1. /\ u.base = <<"mac", k, EncKey(e), enc[e].plain>> /\ u.pads = {}
        /\ u = [base |-> u.base, pads |-> u.pads]
    BY DEF Mac, Unit
  <2>2. u.base[1] = "mac"
    BY <2>1
  <2> HIDE DEF u
  <2>3. Known(u)
    BY <2>1, <2>2 DEF Known
  <2> QED
    BY <2>3 DEF u
<1> QED
  BY <1>2, <1>3

(* A MAC is two units.                                                     *)
LEMMA MacSeq == \A key, msg : IsSeq(Mac(key, msg)) /\ Len(Mac(key, msg)) = 2
                              /\ DOMAIN Mac(key, msg) = 1 .. 2
<1> SUFFICES ASSUME NEW key, NEW msg
             PROVE  /\ IsSeq(Mac(key, msg)) /\ Len(Mac(key, msg)) = 2
                    /\ DOMAIN Mac(key, msg) = 1 .. 2
  OBVIOUS
<1>1. Mac(key, msg) = [k \in 1 .. 2 |-> Mac(key, msg)[k]] /\ DOMAIN Mac(key, msg) = 1 .. 2
  BY DEF Mac
<1> QED
  BY <1>1, FunctionSeq

(* Plaintext and MAC are of known origin, and what their length is.        *)
LEMMA KnownSigned ==
  \A e \in Encs : Made(e) /\ AllKnown(enc[e].plain) =>
    AllKnown(Signed(e)) /\ Len(Signed(e)) = Len(enc[e].plain) + 2
<1> SUFFICES ASSUME NEW e \in Encs, Made(e), AllKnown(enc[e].plain)
             PROVE  AllKnown(Signed(e)) /\ Len(Signed(e)) = Len(enc[e].plain) + 2
  OBVIOUS
<1>1. AllKnown(Mac(EncKey(e), enc[e].plain))
  BY MacSeq, KnownTerms DEF AllKnown
<1>2. IsSeq(enc[e].plain) /\ IsSeq(Mac(EncKey(e), enc[e].plain))
  BY <1>1 DEF AllKnown
<1>3. AllKnown(Signed(e))
  BY <1>1, KnownConcat DEF Signed
<1>4. Len(Signed(e)) = Len(enc[e].plain) + Len(Mac(EncKey(e), enc[e].plain))
  BY <1>2, ConcatSeq DEF Signed
<1> QED
  BY <1>3, <1>4, MacSeq

(* A unit under one pad more, or without it if it was under it.            *)
Padded(u, p) == [u EXCEPT !.pads = SymDiff(@, {p})]

(* What a padded unit is made of.                                          *)
LEMMA PaddedParts ==
  ASSUME NEW u, u = [base |-> u.base, pads |-> u.pads], NEW p
  PROVE  /\ Padded(u, p) = [base |-> Padded(u, p).base, pads |-> Padded(u, p).pads]
         /\ Padded(u, p).base = u.base
         /\ Padded(u, p).pads = (u.pads \ {p}) \cup ({p} \ u.pads)
  BY DEF Padded, SymDiff

(* The keystream pads each unit of a sequence in its place.                *)
LEMMA TransformSeq ==
  ASSUME NEW s, NEW key, NEW nonce, IsSeq(s)
  PROVE  LET t == Transform(s, key, nonce)
         IN  /\ IsSeq(t) /\ Len(t) = Len(s) /\ DOMAIN t = 1 .. Len(s)
             /\ \A k \in 1 .. Len(s) : t[k] = Padded(s[k], <<key, nonce, k>>)
<1> DEFINE t == Transform(s, key, nonce)
<1>1. Len(s) \in Nat /\ DOMAIN s = 1 .. Len(s)
  BY SeqShape
<1>2. /\ t = [k \in 1 .. Len(s) |-> t[k]] /\ DOMAIN t = 1 .. Len(s)
      /\ \A k \in 1 .. Len(s) : t[k] = Padded(s[k], <<key, nonce, k>>)
  BY <1>1 DEF Transform, Padded
<1> HIDE DEF t
<1>3. IsSeq(t) /\ Len(t) = Len(s)
  BY <1>1, <1>2, FunctionSeq
<1> QED
  BY <1>2, <1>3 DEF t

(* The image a run makes of units of known origin consists of such units.  *)
LEMMA KnownPayload ==
  \A e \in Encs : Made(e) /\ AllKnown(enc[e].plain) => AllKnown(Payload(e, enc[e].plain))
<1> SUFFICES ASSUME NEW e \in Encs, Made(e), AllKnown(enc[e].plain)
             PROVE  AllKnown(Payload(e, enc[e].plain))
  OBVIOUS
<1> DEFINE s == Signed(e)
           t == Payload(e, enc[e].plain)
           pad(k) == <<EncKey(e), Nonce(e), k>>
<1>1. AllKnown(s) /\ Len(s) = Len(enc[e].plain) + 2 /\ IsSeq(s)
  BY KnownSigned DEF AllKnown
<1>2. t = Transform(s, EncKey(e), Nonce(e))
  BY DEF Payload, Signed
<1> HIDE DEF s, t
<1>3. /\ IsSeq(t) /\ DOMAIN t = 1 .. Len(s)
      /\ \A k \in 1 .. Len(s) : t[k] = Padded(s[k], pad(k))
  BY <1>1, <1>2, TransformSeq
<1>4. DOMAIN s = 1 .. Len(s)
  BY <1>1, SeqShape
<1>5. ASSUME NEW k \in 1 .. Len(s) PROVE Known(t[k])
  <2>1. Known(s[k])
    BY <1>1, <1>4 DEF AllKnown
  <2>2. s[k] = [base |-> s[k].base, pads |-> s[k].pads]
    BY <2>1 DEF Known
  <2>3. /\ t[k].base = s[k].base
        /\ t[k].pads = (s[k].pads \ {pad(k)}) \cup ({pad(k)} \ s[k].pads)
        /\ t[k] = [base |-> t[k].base, pads |-> t[k].pads]
    <3> DEFINE q == pad(k)
    <3>1. t[k] = Padded(s[k], q)
      BY <1>3
    <3> HIDE DEF q
    <3>2. /\ t[k].base = s[k].base
          /\ t[k].pads = (s[k].pads \ {q}) \cup ({q} \ s[k].pads)
          /\ t[k] = [base |-> t[k].base, pads |-> t[k].pads]
      BY <3>1, <2>2, PaddedParts
    <3> QED
      BY <3>2 DEF q
  <2>4. \A p \in t[k].pads : p \in s[k].pads \/ p = pad(k)
    BY <2>3
  <2>5. ASSUME NEW p \in t[k].pads
        PROVE  \E f \in Encs :
                 /\ Made(f)
                 /\ \E l \in 1 .. Len(enc[f].plain) + 2 :
                      p = <<EncKey(f), Nonce(f), l>> /\ t[k].base = Signed(f)[l].base
    <3>1. CASE p \in s[k].pads
      BY <3>1, <2>1, <2>3 DEF Known
    <3>2. CASE p = pad(k)
      BY <3>2, <1>1, <2>3 DEF s
    <3> QED
      BY <2>4, <3>1, <3>2
  <2>6. /\ t[k].base[1] = "mac" =>
             \E f \in Encs : /\ Made(f)
                             /\ \E l \in 1 .. 2 :
                                  t[k].base = <<"mac", l, EncKey(f), enc[f].plain>>
        /\ t[k].base[1] = "salt" => \E f \in Encs : Made(f) /\ t[k].base = <<"salt", f>>
    BY <2>1, <2>3 DEF Known
  <2> QED
    BY <2>3, <2>5, <2>6 DEF Known
<1> QED
  BY <1>3, <1>5 DEF AllKnown, t

(* What a run still has to write is of known origin.                       *)
LEMMA KnownImage ==
  \A e \in Encs : Made(e) /\ AllKnown(enc[e].plain) =>
    /\ AllKnown(<<Salt(e)>>) /\ AllKnown(<<Nonce(e)>>)
    /\ AllKnown(Payload(e, enc[e].plain))
  BY KnownPayload, KnownShort, KnownTerms, KnownPlain

(***************************************************************************)
(* A step that leaves alone the plaintext and the password of every run    *)
(* that has got as far as its output.                                      *)
(***************************************************************************)
Settled == \A e \in Encs : Made(e) => /\ enc'[e].out.inode # Absent
                                      /\ enc'[e].plain = enc[e].plain
                                      /\ enc'[e].pw = enc[e].pw

(* After it, what was known is known.                                      *)
LEMMA KnownKept == Settled => \A u : Known(u) => Known(u)'
<1> SUFFICES ASSUME Settled, NEW u, Known(u) PROVE Known(u)'
  OBVIOUS
<1>1. \A e \in Encs : Made(e) => /\ Made(e)' /\ enc'[e].plain = enc[e].plain
                                 /\ EncKey(e)' = EncKey(e) /\ Signed(e)' = Signed(e)
  BY DEF Settled, Made, EncKey, Signed
<1>2. \A p \in u.pads : \E e \in Encs :
        /\ Made(e)'
        /\ \E k \in 1 .. Len(enc'[e].plain) + 2 :
             p = <<EncKey(e)', Nonce(e), k>> /\ u.base = (Signed(e)')[k].base
  <2> SUFFICES ASSUME NEW p \in u.pads
               PROVE  \E e \in Encs :
                        /\ Made(e)'
                        /\ \E k \in 1 .. Len(enc'[e].plain) + 2 :
                             p = <<EncKey(e)', Nonce(e), k>> /\ u.base = (Signed(e)')[k].base
    OBVIOUS
  <2>1. PICK e \in Encs :
          /\ Made(e)
          /\ \E k \in 1 .. Len(enc[e].plain) + 2 :
               p = <<EncKey(e), Nonce(e), k>> /\ u.base = Signed(e)[k].base
    BY DEF Known
  <2>2. PICK k \in 1 .. Len(enc[e].plain) + 2 :
               p = <<EncKey(e), Nonce(e), k>> /\ u.base = Signed(e)[k].base
    BY <2>1
  <2> QED
    BY <1>1, <2>1, <2>2
<1>3. u.base[1] = "mac" =>
        \E e \in Encs : /\ Made(e)'
                        /\ \E k \in 1 .. 2 : u.base = <<"mac", k, EncKey(e)', enc'[e].plain>>
  <2> SUFFICES ASSUME u.base[1] = "mac"
               PROVE  \E e \in Encs :
                        /\ Made(e)'
                        /\ \E k \in 1 .. 2 : u.base = <<"mac", k, EncKey(e)', enc'[e].plain>>
    OBVIOUS
  <2>1. PICK e \in Encs :
          Made(e) /\ \E k \in 1 .. 2 : u.base = <<"mac", k, EncKey(e), enc[e].plain>>
    BY DEF Known
  <2> QED
    BY <1>1, <2>1
<1>4. u.base[1] = "salt" => \E e \in Encs : Made(e)' /\ u.base = <<"salt", e>>
  BY <1>1 DEF Known
<1>5. u = [base |-> u.base, pads |-> u.pads]
  BY DEF Known
<1> QED
  BY <1>2, <1>3, <1>4, <1>5 DEF Known

(* So is what a whole sequence is known to be.                             *)
LEMMA AllKnownKept == Settled => \A s : AllKnown(s) => AllKnown(s)'
  BY KnownKept DEF AllKnown, IsSeq, Range
-----------------------------------------------------------------------------
(* What a step does to the files.                                          *)

(* A file after units of known origin were written to it, wherever.        *)
LEMMA KnownOverwritten ==
  ASSUME NEW file, NEW off \in Nat, NEW units, AllKnown(file), AllKnown(units)
  PROVE  AllKnown(Overwritten(file, off, units))
<1> DEFINE r == Overwritten(file, off, units)
           n == Max({Len(file), off + Len(units)})
<1>1. /\ IsSeq(file) /\ Len(file) \in Nat /\ DOMAIN file = 1 .. Len(file)
      /\ IsSeq(units) /\ Len(units) \in Nat /\ DOMAIN units = 1 .. Len(units)
  BY SeqShape DEF AllKnown
<1>2. n \in Nat
  BY <1>1, GreaterOfTwo
<1>3. r = [k \in 1 .. n |-> r[k]] /\ DOMAIN r = 1 .. n
  BY DEF Overwritten
<1>4. ASSUME NEW k \in 1 .. n PROVE Known(r[k])
  <2>1. r[k] = IF k \in off + 1 .. off + Len(units) THEN units[k - off]
               ELSE IF k <= Len(file) THEN file[k] ELSE Zero
    BY DEF Overwritten
  <2>2. k \in off + 1 .. off + Len(units) => k - off \in 1 .. Len(units)
    BY <1>1
  <2>3. k <= Len(file) => k \in 1 .. Len(file)
    BY <1>1, <1>2
  <2> QED
    BY <1>1, <2>1, <2>2, <2>3, KnownPlain DEF AllKnown
<1> HIDE DEF r, n
<1>5. IsSeq(r)
  BY <1>2, <1>3, FunctionSeq
<1>6. AllKnown(r)
  BY <1>3, <1>4, <1>5 DEF AllKnown
<1> QED
  BY <1>6 DEF r

(* Written to at its end, a file grows by what is written.                 *)
LEMMA OverwrittenAtEnd ==
  ASSUME NEW file, NEW units, IsSeq(file), IsSeq(units)
  PROVE  Overwritten(file, Len(file), units) = file \o units
<1> DEFINE r == Overwritten(file, Len(file), units)
           n == Max({Len(file), Len(file) + Len(units)})
<1>1. /\ Len(file) \in Nat /\ DOMAIN file = 1 .. Len(file)
      /\ Len(units) \in Nat /\ DOMAIN units = 1 .. Len(units)
  BY SeqShape
<1>2. n = Len(file) + Len(units)
  BY <1>1, GreaterOfTwo
<1>3. /\ r = [k \in 1 .. n |-> r[k]]
      /\ \A k \in 1 .. n :
           r[k] = IF k \in Len(file) + 1 .. Len(file) + Len(units) THEN units[k - Len(file)]
                  ELSE IF k <= Len(file) THEN file[k] ELSE Zero
  BY DEF Overwritten
<1> HIDE DEF r, n
<1>4. IsSeq(r) /\ Len(r) = n
  BY <1>1, <1>2, <1>3, FunctionSeq
<1>5. /\ IsSeq(file \o units) /\ Len(file \o units) = n
      /\ \A k \in 1 .. Len(file) : (file \o units)[k] = file[k]
      /\ \A k \in 1 .. Len(units) : (file \o units)[Len(file) + k] = units[k]
  BY <1>2, ConcatSeq
<1>6. ASSUME NEW k \in 1 .. n PROVE r[k] = (file \o units)[k]
  <2>1. CASE k <= Len(file)
    BY <2>1, <1>1, <1>2, <1>3, <1>5
  <2>2. CASE k > Len(file)
    <3>1. k - Len(file) \in 1 .. Len(units) /\ k = Len(file) + (k - Len(file))
      BY <2>2, <1>1, <1>2
    <3> QED
      BY <2>2, <3>1, <1>1, <1>2, <1>3, <1>5
  <2> QED
    BY <2>1, <2>2, <1>1, <1>2
<1>7. r = file \o units
  BY <1>4, <1>5, <1>6, SameSeq
<1> QED
  BY <1>7 DEF r

(* Units that move from the buffer to the end of the file.                 *)
LEMMA MovedToEnd ==
  ASSUME NEW file, NEW buf, IsSeq(file), IsSeq(buf), NEW n \in 0 .. Len(buf)
  PROVE  LET head == SubSeq(buf, 1, n)
             rest == SubSeq(buf, n + 1, Len(buf))
         IN  /\ Len(Overwritten(file, Len(file), head)) = Len(file) + n
             /\ Overwritten(file, Len(file), head) \o rest = file \o buf
<1> DEFINE head == SubSeq(buf, 1, n)
           rest == SubSeq(buf, n + 1, Len(buf))
<1>1. /\ 1 \in Nat \ {0} /\ n \in 0 .. Len(buf) /\ 1 <= n + 1
      /\ n + 1 \in Nat \ {0} /\ Len(buf) \in 0 .. Len(buf) /\ n + 1 <= Len(buf) + 1
  BY SeqShape
<1>2. IsSeq(head) /\ IsSeq(rest) /\ Len(head) = n
  BY <1>1, SubSeqSeq
<1>3. head \o rest = buf
  <2>1. /\ buf \in Seq(Range(buf)) /\ 1 \in 1 .. Len(buf) + 1 /\ n \in 1 - 1 .. Len(buf)
        /\ Len(buf) \in n .. Len(buf)
    BY <1>1 DEF IsSeq
  <2>2. SubSeq(buf, 1, n) \o SubSeq(buf, n + 1, Len(buf)) = SubSeq(buf, 1, Len(buf))
    BY <2>1, ConcatAdjacentSubSeq
  <2>3. SubSeq(buf, 1, Len(buf)) = buf
    BY <2>1, SubSeqFull
  <2> QED
    BY <2>2, <2>3
<1> HIDE DEF head, rest
<1>4. Overwritten(file, Len(file), head) = file \o head
  BY <1>2, OverwrittenAtEnd
<1>5. Len(file \o head) = Len(file) + n
  BY <1>2, ConcatSeq
<1>6. (file \o head) \o rest = file \o (head \o rest)
  BY <1>2, ConcatAssoc
<1> QED
  BY <1>3, <1>4, <1>5, <1>6 DEF head, rest

(* No file goes, and one that changes has the run among its hands.         *)
Touches(run) ==
  /\ dir' \in [Paths -> 0 .. Len(data')]
  /\ IsSeq(data') /\ Len(data) <= Len(data')
  /\ IsSeq(hands') /\ Len(hands') = Len(data')
  /\ \A n \in 1 .. Len(data) :
       (data'[n] = data[n] /\ hands'[n] = hands[n]) \/ run \in hands'[n]
  /\ \A n \in 1 .. Len(data') : AllKnown(data'[n])
  /\ \A n \in 1 .. Len(data') : hands'[n] \subseteq Encs \cup Decs

(* What the other lemmas use of the files.                                 *)
LEMMA FilesFacts ==
  ASSUME FilesOK
  PROVE  /\ IsSeq(data) /\ Len(data) \in Nat /\ DOMAIN data = 1 .. Len(data)
         /\ \A n \in 1 .. Len(data) : AllKnown(data[n])
         /\ IsSeq(hands) /\ Len(hands) = Len(data) /\ DOMAIN hands = 1 .. Len(data)
         /\ \A n \in 1 .. Len(data) : hands[n] \subseteq Encs \cup Decs
  BY SeqShape DEF FilesOK

(* A step that writes nothing.                                             *)
LEMMA NothingTouched ==
  ASSUME FilesOK, UNCHANGED <<data, hands>>, dir' \in [Paths -> 0 .. Len(data)], NEW run
  PROVE  Touches(run)
  BY FilesFacts DEF Touches, FilesOK

(* fopen for writing: one file, old or new, is empty now.                  *)
LEMMA CreateTouches ==
  ASSUME FilesOK, NEW run \in Encs \cup Decs, NEW p \in Paths, OpenForWriting(run, p)
  PROVE  /\ Touches(run)
         /\ OpenedInode(p) \in 1 .. Len(data')
         /\ data'[OpenedInode(p)] = <<>> /\ hands'[OpenedInode(p)] = {run}
<1>1. /\ IsSeq(data) /\ Len(data) \in Nat /\ DOMAIN data = 1 .. Len(data)
      /\ \A n \in 1 .. Len(data) : AllKnown(data[n])
      /\ dir \in [Paths -> 0 .. Len(data)]
  BY FilesFacts DEF FilesOK
<1>4. /\ IsSeq(hands) /\ Len(hands) = Len(data)
      /\ \A n \in 1 .. Len(data) : hands[n] \subseteq Encs \cup Decs
  BY FilesFacts
<1>2. CASE dir[p] = Absent
  <2>1. /\ data' = Append(data, <<>>) /\ hands' = Append(hands, {run})
        /\ dir' = [dir EXCEPT ![p] = Len(data) + 1]
    BY <1>2 DEF OpenForWriting
  <2>2. OpenedInode(p) = Len(data) + 1
    BY <1>2 DEF OpenedInode
  <2>3. /\ IsSeq(data') /\ Len(data') = Len(data) + 1
        /\ \A k \in 1 .. Len(data) : data'[k] = data[k]
        /\ data'[Len(data) + 1] = <<>>
    BY <1>1, <2>1, AppendSeq
  <2>6. /\ IsSeq(hands') /\ Len(hands') = Len(data) + 1
        /\ \A k \in 1 .. Len(data) : hands'[k] = hands[k]
        /\ hands'[Len(data) + 1] = {run}
    <3>1. /\ IsSeq(hands') /\ Len(hands') = Len(hands) + 1
          /\ \A k \in 1 .. Len(hands) : hands'[k] = hands[k]
          /\ hands'[Len(hands) + 1] = {run}
      BY <1>4, <2>1, AppendSeq
    <3> QED
      BY <1>4, <3>1
  <2>4. dir' \in [Paths -> 0 .. Len(data')]
    BY <1>1, <2>1, <2>3
  <2>5. \A n \in 1 .. Len(data') : AllKnown(data'[n])
    BY <1>1, <2>3, KnownShort
  <2>7. \A n \in 1 .. Len(data') : hands'[n] \subseteq Encs \cup Decs
    BY <1>1, <1>4, <2>3, <2>6
  <2> QED
    BY <1>1, <2>2, <2>3, <2>4, <2>5, <2>6, <2>7 DEF Touches
<1>3. CASE dir[p] # Absent
  <2>1. /\ data' = [data EXCEPT ![dir[p]] = <<>>] /\ hands' = [hands EXCEPT ![dir[p]] = {run}]
        /\ dir' = dir
    BY <1>3 DEF OpenForWriting
  <2>2. OpenedInode(p) = dir[p] /\ dir[p] \in 1 .. Len(data)
    BY <1>1, <1>3 DEF OpenedInode, Absent
  <2>3. /\ IsSeq(data') /\ Len(data') = Len(data) /\ data'[dir[p]] = <<>>
        /\ \A k \in 1 .. Len(data) : k # dir[p] => data'[k] = data[k]
    BY <1>1, <2>1, <2>2, ReplacedSeq
  <2>5. /\ IsSeq(hands') /\ Len(hands') = Len(data) /\ hands'[dir[p]] = {run}
        /\ \A k \in 1 .. Len(data) : k # dir[p] => hands'[k] = hands[k]
    <3>1. /\ dir[p] \in 1 .. Len(hands) /\ IsSeq(hands)
          /\ Len(hands) \in Nat /\ DOMAIN hands = 1 .. Len(hands)
      BY <1>4, <2>2, SeqShape
    <3>2. PICK x : x = {run}
      OBVIOUS
    <3>3. hands' = [hands EXCEPT ![dir[p]] = x]
      BY <2>1, <3>2
    <3>4. /\ IsSeq(hands') /\ Len(hands') = Len(hands) /\ hands'[dir[p]] = x
          /\ \A k \in 1 .. Len(hands) : k # dir[p] => hands'[k] = hands[k]
      BY <3>1, <3>3, ReplacedSeq
    <3> QED
      BY <1>4, <3>2, <3>4
  <2>4. \A n \in 1 .. Len(data') : AllKnown(data'[n])
    BY <1>1, <2>3, KnownShort
  <2>6. \A n \in 1 .. Len(data') : hands'[n] \subseteq Encs \cup Decs
    BY <1>1, <1>4, <2>3, <2>5
  <2>7. \A n \in 1 .. Len(data) :
          (data'[n] = data[n] /\ hands'[n] = hands[n]) \/ run \in hands'[n]
    BY <2>3, <2>5
  <2> QED
    BY <1>1, <2>1, <2>2, <2>3, <2>4, <2>5, <2>6, <2>7 DEF Touches
<1> QED
  BY <1>2, <1>3

(* A stream puts some of its buffer into its file.  If the stream's        *)
(* offset is the end of the file, file and buffer together stay the same.  *)
LEMMA FlushTouches ==
  ASSUME FilesOK, UNCHANGED dir, NEW run \in Encs \cup Decs,
         NEW st, st.inode \in 1 .. Len(data), st.off \in Nat, AllKnown(st.buf),
         DOMAIN st = StreamFields,
         NEW n \in 0 .. Len(st.buf), FlushData(run, st, n)
  PROVE  /\ Touches(run) /\ Len(data') = Len(data)
         /\ hands'[st.inode] = hands[st.inode] \/ hands'[st.inode] = hands[st.inode] \cup {run}
         /\ DOMAIN Flushed(st, n) = StreamFields
         /\ Flushed(st, n).inode = st.inode /\ Flushed(st, n).off \in Nat
         /\ AllKnown(Flushed(st, n).buf)
         /\ n = Len(st.buf) => Flushed(st, n).buf = <<>>
         /\ st.off = Len(data[st.inode]) =>
              /\ Flushed(st, n).off = Len(data'[st.inode])
              /\ data'[st.inode] \o Flushed(st, n).buf = data[st.inode] \o st.buf
<1> DEFINE i    == st.inode
           buf  == st.buf
           head == SubSeq(buf, 1, n)
           rest == SubSeq(buf, n + 1, Len(buf))
<1>1. /\ IsSeq(data) /\ Len(data) \in Nat /\ DOMAIN data = 1 .. Len(data)
      /\ \A k \in 1 .. Len(data) : AllKnown(data[k])
      /\ dir \in [Paths -> 0 .. Len(data)]
  BY FilesFacts DEF FilesOK
<1>2. IsSeq(buf) /\ Len(buf) \in Nat /\ IsSeq(data[i]) /\ Len(data[i]) \in Nat
  BY <1>1, SeqShape DEF AllKnown
<1>3. /\ DOMAIN Flushed(st, n) = StreamFields
      /\ Flushed(st, n).inode = i /\ Flushed(st, n).off = st.off + n
      /\ Flushed(st, n).buf = rest
  BY DEF Flushed, StreamFields
<1>4. /\ IsSeq(head) /\ Len(head) = n /\ AllKnown(head)
      /\ IsSeq(rest) /\ AllKnown(rest) /\ Len(rest) = Len(buf) - n
  <2>1. /\ 1 \in Nat \ {0} /\ n \in 0 .. Len(buf) /\ 1 <= n + 1
        /\ n + 1 \in Nat \ {0} /\ Len(buf) \in 0 .. Len(buf) /\ n + 1 <= Len(buf) + 1
    BY <1>2
  <2> HIDE DEF buf
  <2>2. AllKnown(buf)
    BY DEF buf
  <2> QED
    BY <1>2, <2>1, <2>2, SubSeqSeq, KnownPart
<1>5. n = Len(buf) => rest = <<>>
  BY <1>2, <1>4, ShortSeq, SameSeq
<1>6. st.off = Len(data[i]) =>
        /\ Len(Overwritten(data[i], st.off, head)) = Len(data[i]) + n
        /\ Overwritten(data[i], st.off, head) \o rest = data[i] \o buf
  BY <1>2, MovedToEnd
<1>7. CASE n = 0
  <2>1. data' = data /\ hands' = hands
    BY <1>7 DEF FlushData
  <2>2. rest = buf
    BY <1>2, <1>7, SubSeqFull DEF IsSeq
  <2>3. Touches(run)
    BY <1>1, <2>1, NothingTouched
  <2>4. st.off + n \in Nat /\ st.off + n = st.off
    BY <1>7
  <2>5. st.off = Len(data[i]) => /\ Flushed(st, n).off = Len(data'[i])
                                 /\ data'[i] \o Flushed(st, n).buf = data[i] \o buf
    BY <1>3, <2>1, <2>2, <2>4
  <2> QED
    BY <1>3, <1>4, <1>5, <2>1, <2>3, <2>4, <2>5
<1>8. CASE n # 0
  <2> DEFINE file == Overwritten(data[i], st.off, head)
  <2>1. data' = [data EXCEPT ![i] = file] /\ hands' = [hands EXCEPT ![i] = @ \cup {run}]
    BY <1>8 DEF FlushData
  <2>2. AllKnown(file)
    BY <1>1, <1>4, KnownOverwritten
  <2> HIDE DEF head, rest, file
  <2>3. /\ IsSeq(data') /\ Len(data') = Len(data) /\ data'[i] = file
        /\ \A k \in 1 .. Len(data) : k # i => data'[k] = data[k]
    BY <1>1, <2>1, ReplacedSeq
  <2>8. /\ IsSeq(hands') /\ Len(hands') = Len(data) /\ hands'[i] = hands[i] \cup {run}
        /\ \A k \in 1 .. Len(data) : k # i => hands'[k] = hands[k]
        /\ \A k \in 1 .. Len(data) : hands'[k] \subseteq Encs \cup Decs
    <3>1. /\ IsSeq(hands) /\ Len(hands) = Len(data) /\ i \in 1 .. Len(hands)
          /\ Len(hands) \in Nat /\ DOMAIN hands = 1 .. Len(hands)
          /\ \A k \in 1 .. Len(data) : hands[k] \subseteq Encs \cup Decs
      BY FilesFacts
    <3>2. PICK x : x = hands[i] \cup {run}
      OBVIOUS
    <3>3. hands' = [hands EXCEPT ![i] = x]
      BY <2>1, <3>2
    <3>4. /\ IsSeq(hands') /\ Len(hands') = Len(hands) /\ hands'[i] = x
          /\ \A k \in 1 .. Len(hands) : k # i => hands'[k] = hands[k]
      BY <3>1, <3>3, ReplacedSeq
    <3> QED
      BY <3>1, <3>2, <3>4
  <2>4. Touches(run)
    <3>1. \A k \in 1 .. Len(data) :
            (data'[k] = data[k] /\ hands'[k] = hands[k]) \/ run \in hands'[k]
      BY <2>3, <2>8
    <3> QED
      BY <1>1, <2>2, <2>3, <2>8, <3>1 DEF Touches
  <2>5. st.off = Len(data[i]) => st.off + n = Len(file) /\ file \o rest = data[i] \o buf
    BY <1>6 DEF file
  <2>6. st.off + n \in Nat
    OBVIOUS
  <2>7. st.off = Len(data[i]) => /\ Flushed(st, n).off = Len(data'[i])
                                 /\ data'[i] \o Flushed(st, n).buf = data[i] \o buf
    BY <1>3, <2>3, <2>5
  <2> QED
    BY <1>3, <1>4, <1>5, <2>3, <2>4, <2>6, <2>7, <2>8
<1> QED
  BY <1>7, <1>8
-----------------------------------------------------------------------------
(* What a step of one run leaves as it was.                                *)

(* A run of choienc moves, and has a hand in every file that changes.      *)
EncMoves(e) ==
  /\ DOMAIN enc' = Encs /\ \A x \in Encs \ {e} : enc'[x] = enc[x]
  /\ UNCHANGED dec
  /\ Touches(e)
  /\ enc[e].out.inode \in {Absent, enc'[e].out.inode}
  /\ enc'[e].pw = enc[e].pw /\ (Made(e) => enc'[e].plain = enc[e].plain)

(* The same of a run of choidec.                                           *)
DecMoves(d) ==
  /\ DOMAIN dec' = Decs /\ \A x \in Decs \ {d} : dec'[x] = dec[x]
  /\ UNCHANGED enc
  /\ Touches(d)
  /\ dec[d].st.inode \in {Absent, dec'[d].st.inode}

(* Neither changes what a run that has an output encrypts.                 *)
LEMMA MovesSettled ==
  /\ \A e \in Encs : EncMoves(e) => Settled
  /\ \A d \in Decs : DecMoves(d) => Settled
<1>1. ASSUME NEW e \in Encs, EncMoves(e) PROVE Settled
  <2> SUFFICES ASSUME NEW f \in Encs, Made(f)
               PROVE  /\ enc'[f].out.inode # Absent
                      /\ enc'[f].plain = enc[f].plain /\ enc'[f].pw = enc[f].pw
    BY DEF Settled
  <2>1. CASE f = e
    BY <1>1, <2>1 DEF EncMoves, Made
  <2>2. CASE f # e
    BY <1>1, <2>2 DEF EncMoves, Made
  <2> QED
    BY <2>1, <2>2
<1>2. ASSUME NEW d \in Decs, DecMoves(d) PROVE Settled
  BY <1>2 DEF DecMoves, Settled, Made
<1> QED
  BY <1>1, <1>2

(* The files stay in order.                                                *)
LEMMA FilesAfter ==
  ASSUME NEW run, Touches(run), Settled PROVE FilesOK'
<1>1. DOMAIN data' = 1 .. Len(data')
  BY SeqShape DEF Touches
<1>2. (\A n \in 1 .. Len(data) : AllKnown(data[n]))'
  BY AllKnownKept DEF Touches
<1>3. /\ dir' \in [Paths -> 0 .. Len(data')] /\ IsSeq(data')
      /\ IsSeq(hands') /\ Len(hands') = Len(data')
      /\ \A n \in 1 .. Len(data') : hands'[n] \subseteq Encs \cup Decs
  BY DEF Touches
<1> QED
  BY <1>1, <1>2, <1>3 DEF FilesOK, IsSeq

(* A file that was written to stays one, and one that is not has not       *)
(* changed.                                                                *)
LEMMA HandsStay ==
  ASSUME NEW run, Touches(run), NEW n \in 1 .. Len(data)
  PROVE  /\ hands[n] # {} => hands'[n] # {}
         /\ hands'[n] = {} => hands[n] = {} /\ data'[n] = data[n]
  BY DEF Touches

(* Who is the only writer of a file after another run moved has been so    *)
(* before, and the file has not changed.                                   *)
Aside(run) ==
  \A n \in 1 .. Len(data) : SoleWriter(run, n)' => SoleWriter(run, n) /\ data'[n] = data[n]

(* That is so when any other run moved.                                    *)
LEMMA OthersAside ==
  ASSUME NEW run, Touches(run), NEW r, r # run PROVE Aside(r)
  BY DEF Touches, Aside, SoleWriter

(* What such a run has sent stays sent.                                    *)
LEMMA SentKept ==
  ASSUME NEW r, Aside(r), NEW st, st.inode \in 1 .. Len(data), NEW s, Sent(r, st, s)
  PROVE  Sent(r, st, s)'
<1> SUFFICES ASSUME SoleWriter(r, st.inode)'
             PROVE  st.off = Len(data'[st.inode]) /\ data'[st.inode] \o st.buf = s
  BY DEF Sent
<1>1. SoleWriter(r, st.inode) /\ data'[st.inode] = data[st.inode]
  BY DEF Aside
<1> QED
  BY <1>1 DEF Sent

(* A run of choienc that does not move is as it was.                       *)
LEMMA EncUnmoved ==
  ASSUME FilesOK, NEW x \in Encs, EncTyped(x), EncProgress(x), enc'[x] = enc[x],
         Settled, NEW run, Touches(run), Aside(x)
  PROVE  EncTyped(x)' /\ EncProgress(x)'
<1>1. Len(data) \in Nat /\ Len(data') \in Nat /\ Len(data) <= Len(data')
  BY FilesFacts, SeqShape DEF Touches
<1>2. EncTyped(x)'
  <2>1. StreamOK(enc[x].out)'
    BY <1>1 DEF EncTyped, StreamOK
  <2>2. AllKnown(enc[x].plain)' /\ AllKnown(enc[x].out.buf)'
    BY AllKnownKept DEF EncTyped
  <2>3. Made(x)' <=> Made(x)
    BY DEF Made
  <2>4. enc'[x].fd \in 0 .. Len(data')
    BY <1>1 DEF EncTyped
  <2>5. Made(x) => hands'[enc[x].out.inode] # {}
    BY <1>1, HandsStay DEF EncTyped, StreamOK, Made, Absent
  <2> QED
    BY <2>1, <2>2, <2>3, <2>4, <2>5 DEF EncTyped
<1>3. EncProgress(x)'
  <2>1. /\ Payload(x, enc[x].plain)' = Payload(x, enc[x].plain)
        /\ Image(x, enc[x].plain)' = Image(x, enc[x].plain)
        /\ Pieces(x, enc[x].plain)' = Pieces(x, enc[x].plain)
    BY DEF Payload, Image, Pieces, EncKey
  <2>2. ASSUME NEW s, Made(x), Sent(x, enc[x].out, s) PROVE (Sent(x, enc[x].out, s))'
    <3>1. enc[x].out.inode \in 1 .. Len(data)
      BY <1>1, <2>2 DEF EncTyped, StreamOK, Made, Absent
    <3>2. \A st : st = enc[x].out => Sent(x, st, s)'
      BY <2>2, <3>1, SentKept
    <3> QED
      BY <3>2
  <2>3. enc[x].pc \in {"write", "exit0"} => Made(x)
    BY DEF EncTyped
  <2>4. CASE enc[x].pc = "write"
    BY <2>1, <2>2, <2>3, <2>4 DEF EncProgress
  <2>5. CASE enc[x].pc = "exit0"
    BY <2>1, <2>2, <2>3, <2>5 DEF EncProgress
  <2> QED
    BY <2>4, <2>5 DEF EncProgress
<1> QED
  BY <1>2, <1>3

(* No image that a run has read comes to be: its salt was on the disk only *)
(* after the run that made it.                                             *)
LEMMA ReadsKept ==
  ASSUME NEW x \in Decs, DecTyped(x), Len(dec[x].head) = 2, dec'[x] = dec[x], Settled
  PROVE  (\E e \in Encs : Reads(x, e)) <=> (\E e \in Encs : Reads(x, e)')
<1>1. BytesRead(x)' = BytesRead(x)
  BY DEF BytesRead
<1>2. ASSUME NEW e \in Encs, Made(e)
      PROVE  /\ Made(e)' /\ enc'[e].pw = enc[e].pw
             /\ Image(e, enc[e].plain)' = Image(e, enc[e].plain)
  BY <1>2 DEF Settled, Made, Image, Payload, EncKey
<1>3. ASSUME NEW e \in Encs, Reads(x, e) PROVE Reads(x, e)'
  BY <1>1, <1>2, <1>3 DEF Reads
<1>4. ASSUME NEW e \in Encs, Reads(x, e)' PROVE Made(e)
  <2>1. IsSeq(dec[x].head) /\ IsSeq(dec[x].ct) /\ DOMAIN dec[x].head = 1 .. 2
    BY SeqShape DEF DecTyped, AllKnown
  <2>2. BytesRead(x)[1] = dec[x].head[1]
    <3> DEFINE h == dec[x].head
               c == dec[x].ct
    <3>1. IsSeq(h) /\ IsSeq(c) /\ 1 \in 1 .. Len(h)
      BY <2>1
    <3> HIDE DEF h, c
    <3>2. (h \o c)[1] = h[1]
      BY <3>1, ConcatSeq
    <3> QED
      BY <3>2 DEF BytesRead, h, c
  <2>5. Known(dec[x].head[1])
    BY <2>1 DEF DecTyped, AllKnown
  <2>3. BytesRead(x) = Image(e, enc[e].plain)'
    BY <1>1, <1>4 DEF Reads
  <2>4. Image(e, enc[e].plain)'[1] = Salt(e)
    BY ShortSeq, ConcatSeq DEF Image
  <2> QED
    BY <2>2, <2>3, <2>4, <2>5 DEF Known, Salt, Unit
<1>5. ASSUME NEW e \in Encs, Reads(x, e)' PROVE Reads(x, e)
  BY <1>1, <1>2, <1>4, <1>5 DEF Reads
<1> QED
  BY <1>3, <1>5

(* A run of choidec that does not move is as it was.                       *)
LEMMA DecUnmoved ==
  ASSUME FilesOK, NEW x \in Decs, DecTyped(x), DecRead(x), DecProgress(x), dec'[x] = dec[x],
         Settled, NEW run, Touches(run), Aside(x)
  PROVE  DecTyped(x)' /\ DecRead(x)' /\ DecProgress(x)'
<1>1. Len(data) \in Nat /\ Len(data') \in Nat /\ Len(data) <= Len(data')
  BY FilesFacts, SeqShape DEF Touches
<1>2. DecTyped(x)'
  <2>1. StreamOK(dec[x].st)'
    BY <1>1 DEF DecTyped, StreamOK
  <2>2. AllKnown(dec[x].head)' /\ AllKnown(dec[x].ct)' /\ AllKnown(dec[x].st.buf)'
    BY AllKnownKept DEF DecTyped
  <2>3. dec'[x].fd \in 0 .. Len(data')
    BY <1>1 DEF DecTyped
  <2>4. dec[x].st.inode # Absent => hands'[dec[x].st.inode] # {}
    BY <1>1, HandsStay DEF DecTyped, StreamOK, Absent
  <2> QED
    BY <2>1, <2>2, <2>3, <2>4 DEF DecTyped, Paths
<1>3. DecRead(x)'
  <2>1. Judged(x)' <=> Judged(x)
    BY DEF Judged
  <2>2. Judged(x) => ((\E e \in Encs : Reads(x, e)) <=> (\E e \in Encs : Reads(x, e)'))
    BY ReadsKept DEF DecRead
  <2> QED
    BY <2>1, <2>2 DEF DecRead
<1>4. DecProgress(x)'
  <2>1. Written(x)' = Written(x)
    BY DEF Written, PlainPart, PlainLen, Buffer, DecKey
  <2>2. ASSUME NEW s, Judged(x), Sent(x, dec[x].st, s) PROVE (Sent(x, dec[x].st, s))'
    <3>1. dec[x].st.inode \in 1 .. Len(data)
      BY <1>1, <2>2 DEF DecTyped, DecRead, StreamOK, Absent
    <3>2. \A st : st = dec[x].st => Sent(x, st, s)'
      BY <2>2, <3>1, SentKept
    <3> QED
      BY <3>2
  <2>3. dec[x].pc \in {"verify", "close", "exit0"} => Judged(x)
    BY DEF DecRead
  <2> QED
    BY <2>1, <2>2, <2>3 DEF DecProgress
<1> QED
  BY <1>2, <1>3, <1>4
-----------------------------------------------------------------------------
(* What choidec accepts.                                                   *)

(* Two sequences one after the other, taken apart again.                   *)
LEMMA ConcatApart ==
  ASSUME NEW s, NEW t, IsSeq(s), IsSeq(t)
  PROVE  /\ SubSeq(s \o t, 1, Len(s)) = s
         /\ SubSeq(s \o t, Len(s) + 1, Len(s) + Len(t)) = t
<1> DEFINE c == s \o t
<1>1. /\ Len(s) \in Nat /\ Len(t) \in Nat /\ IsSeq(c) /\ Len(c) = Len(s) + Len(t)
      /\ \A k \in 1 .. Len(s) : c[k] = s[k]
      /\ \A k \in 1 .. Len(t) : c[Len(s) + k] = t[k]
  BY SeqShape, ConcatSeq
<1> HIDE DEF c
<1>2. /\ 1 \in Nat \ {0} /\ Len(s) \in 0 .. Len(c) /\ 1 <= Len(s) + 1
      /\ Len(s) + 1 \in Nat \ {0} /\ Len(c) \in 0 .. Len(c) /\ Len(s) + 1 <= Len(c) + 1
  BY <1>1
<1>3. /\ IsSeq(SubSeq(c, 1, Len(s))) /\ Len(SubSeq(c, 1, Len(s))) = Len(s)
      /\ \A k \in 1 .. Len(s) : SubSeq(c, 1, Len(s))[k] = s[k]
  BY <1>1, <1>2, SubSeqSeq
<1>4. /\ IsSeq(SubSeq(c, Len(s) + 1, Len(c))) /\ Len(SubSeq(c, Len(s) + 1, Len(c))) = Len(t)
      /\ \A k \in 1 .. Len(t) : SubSeq(c, Len(s) + 1, Len(c))[k] = t[k]
  <2>1. /\ IsSeq(SubSeq(c, Len(s) + 1, Len(c)))
        /\ Len(SubSeq(c, Len(s) + 1, Len(c))) = Len(c) - (Len(s) + 1) + 1
        /\ \A k \in 1 .. Len(c) - (Len(s) + 1) + 1 :
             SubSeq(c, Len(s) + 1, Len(c))[k] = c[Len(s) + 1 + k - 1]
    BY <1>1, <1>2, SubSeqSeq
  <2>2. Len(c) - (Len(s) + 1) + 1 = Len(t) /\ \A k \in Nat : Len(s) + 1 + k - 1 = Len(s) + k
    BY <1>1
  <2>3. ASSUME NEW k \in 1 .. Len(t) PROVE SubSeq(c, Len(s) + 1, Len(c))[k] = t[k]
    <3>1. /\ SubSeq(c, Len(s) + 1, Len(c))[k] = c[Len(s) + 1 + k - 1]
          /\ Len(s) + 1 + k - 1 = Len(s) + k
      BY <2>1, <2>2
    <3> QED
      BY <1>1, <3>1
  <2> QED
    BY <2>1, <2>2, <2>3
<1>5. SubSeq(c, 1, Len(s)) = s /\ SubSeq(c, Len(s) + 1, Len(c)) = t
  BY <1>3, <1>4, SameSeq
<1> QED
  BY <1>1, <1>5 DEF c

(* Equal when put together, with first parts of one length.                *)
LEMMA ConcatSame ==
  ASSUME NEW s, NEW t, NEW u, NEW v, IsSeq(s), IsSeq(t), IsSeq(u), IsSeq(v),
         Len(s) = Len(u), s \o t = u \o v
  PROVE  s = u /\ t = v
<1>1. Len(s \o t) = Len(s) + Len(t) /\ Len(u \o v) = Len(u) + Len(v)
  BY ConcatSeq
<1>2. Len(s) \in Nat /\ Len(t) \in Nat /\ Len(u) \in Nat /\ Len(v) \in Nat
  BY SeqShape
<1>3. Len(t) = Len(v)
  BY <1>1, <1>2
<1>4. /\ SubSeq(s \o t, 1, Len(s)) = s
      /\ SubSeq(s \o t, Len(s) + 1, Len(s) + Len(t)) = t
  BY ConcatApart
<1>5. /\ SubSeq(u \o v, 1, Len(u)) = u
      /\ SubSeq(u \o v, Len(u) + 1, Len(u) + Len(v)) = v
  BY ConcatApart
<1> QED
  BY <1>3, <1>4, <1>5

(* The keystream, xored twice, is gone.                                    *)
LEMMA TransformBack ==
  ASSUME NEW s, AllKnown(s), NEW key, NEW nonce
  PROVE  Transform(Transform(s, key, nonce), key, nonce) = s
<1> DEFINE t == Transform(s, key, nonce)
           r == Transform(t, key, nonce)
<1>1. IsSeq(s) /\ DOMAIN s = 1 .. Len(s)
  BY SeqShape DEF AllKnown
<1>2. /\ IsSeq(t) /\ Len(t) = Len(s)
      /\ \A k \in 1 .. Len(s) : t[k] = Padded(s[k], <<key, nonce, k>>)
  BY <1>1, TransformSeq
<1> HIDE DEF t
<1>3. /\ IsSeq(r) /\ Len(r) = Len(s)
      /\ \A k \in 1 .. Len(s) : r[k] = Padded(t[k], <<key, nonce, k>>)
  BY <1>2, TransformSeq
<1> HIDE DEF r
<1>4. ASSUME NEW u, u = [base |-> u.base, pads |-> u.pads], NEW p
      PROVE  Padded(Padded(u, p), p) = u
  <2> DEFINE v == Padded(u, p)
  <2>1. /\ v = [base |-> v.base, pads |-> v.pads] /\ v.base = u.base
        /\ v.pads = (u.pads \ {p}) \cup ({p} \ u.pads)
    BY <1>4, PaddedParts
  <2> HIDE DEF v
  <2>2. /\ Padded(v, p) = [base |-> Padded(v, p).base, pads |-> Padded(v, p).pads]
        /\ Padded(v, p).base = u.base
        /\ Padded(v, p).pads = (v.pads \ {p}) \cup ({p} \ v.pads)
    BY <2>1, PaddedParts
  <2>3. (v.pads \ {p}) \cup ({p} \ v.pads) = u.pads
    BY <2>1
  <2>4. Padded(v, p) = [base |-> u.base, pads |-> u.pads]
    BY <2>2, <2>3
  <2> QED
    BY <1>4, <2>4 DEF v
<1>5. \A k \in 1 .. Len(s) : s[k] = [base |-> s[k].base, pads |-> s[k].pads]
  BY <1>1 DEF AllKnown, Known
<1>6. ASSUME NEW k \in 1 .. Len(s) PROVE r[k] = s[k]
  <2> DEFINE p == <<key, nonce, k>>
  <2>1. r[k] = Padded(t[k], p) /\ t[k] = Padded(s[k], p)
    BY <1>2, <1>3
  <2> HIDE DEF p
  <2> QED
    BY <1>4, <1>5, <2>1
<1>7. r = s
  BY <1>1, <1>3, <1>6, SameSeq
<1> QED
  BY <1>7 DEF r, t

(* The buffer falls into plaintext and MAC.                                *)
LEMMA BufferParts ==
  ASSUME NEW d \in Decs, DecTyped(d), Len(dec[d].ct) >= 2
  PROVE  /\ IsSeq(Buffer(d)) /\ Len(Buffer(d)) = Len(dec[d].ct)
         /\ PlainLen(d) \in Nat /\ Len(dec[d].ct) = PlainLen(d) + 2
         /\ \A k \in 1 .. Len(dec[d].ct) :
              Buffer(d)[k] = Padded(dec[d].ct[k], <<DecKey(d), dec[d].head[2], k>>)
         /\ IsSeq(PlainPart(d)) /\ Len(PlainPart(d)) = PlainLen(d)
         /\ IsSeq(MacPart(d)) /\ Len(MacPart(d)) = 2
         /\ \A k \in 1 .. 2 : MacPart(d)[k] = Buffer(d)[PlainLen(d) + k]
         /\ PlainPart(d) \o MacPart(d) = Buffer(d)
<1> DEFINE b  == Buffer(d)
           l  == Len(dec[d].ct)
           pl == PlainLen(d)
<1>1. IsSeq(dec[d].ct) /\ l \in Nat
  BY SeqShape DEF DecTyped, AllKnown
<1>2. pl \in Nat /\ l = pl + 2
  BY <1>1 DEF PlainLen
<1>3. /\ IsSeq(b) /\ Len(b) = l
      /\ \A k \in 1 .. l : b[k] = Padded(dec[d].ct[k], <<DecKey(d), dec[d].head[2], k>>)
  BY <1>1, TransformSeq DEF Buffer
<1>4. PlainPart(d) = SubSeq(b, 1, pl) /\ MacPart(d) = SubSeq(b, pl + 1, l)
  BY DEF PlainPart, MacPart
<1> HIDE DEF b, l, pl
<1>5. /\ 1 \in Nat \ {0} /\ pl \in 0 .. Len(b) /\ 1 <= pl + 1
      /\ pl + 1 \in Nat \ {0} /\ l \in 0 .. Len(b) /\ pl + 1 <= l + 1
      /\ pl - 1 + 1 = pl /\ l - (pl + 1) + 1 = 2
  BY <1>2, <1>3
<1>6. IsSeq(SubSeq(b, 1, pl)) /\ Len(SubSeq(b, 1, pl)) = pl
  BY <1>3, <1>5, SubSeqSeq
<1>7. /\ IsSeq(SubSeq(b, pl + 1, l)) /\ Len(SubSeq(b, pl + 1, l)) = 2
      /\ \A k \in 1 .. 2 : SubSeq(b, pl + 1, l)[k] = b[pl + 1 + k - 1]
  BY <1>3, <1>5, SubSeqSeq
<1>8. \A k \in 1 .. 2 : pl + 1 + k - 1 = pl + k
  BY <1>2
<1>9. SubSeq(b, 1, pl) \o SubSeq(b, pl + 1, l) = b
  <2>1. /\ b \in Seq(Range(b)) /\ 1 \in 1 .. Len(b) + 1 /\ pl \in 1 - 1 .. Len(b)
        /\ l \in pl .. Len(b) /\ l = Len(b)
    BY <1>2, <1>3 DEF IsSeq
  <2>2. SubSeq(b, 1, pl) \o SubSeq(b, pl + 1, l) = SubSeq(b, 1, l)
    BY <2>1, ConcatAdjacentSubSeq
  <2>3. SubSeq(b, 1, l) = b
    BY <2>1, SubSeqFull
  <2> QED
    BY <2>2, <2>3
<1>10. /\ IsSeq(b) /\ Len(b) = Len(dec[d].ct)
       /\ pl \in Nat /\ Len(dec[d].ct) = pl + 2
       /\ \A k \in 1 .. Len(dec[d].ct) :
            b[k] = Padded(dec[d].ct[k], <<DecKey(d), dec[d].head[2], k>>)
  BY <1>2, <1>3 DEF l
<1>11. \A k \in 1 .. 2 : MacPart(d)[k] = b[pl + k]
  BY <1>4, <1>7, <1>8
<1> QED
  BY <1>4, <1>6, <1>7, <1>9, <1>10, <1>11 DEF b, pl

(* Bytes that pass are an image: the MAC in them was made by one run, the  *)
(* pad on it by one run, and both under the key of this one.               *)
LEMMA AcceptedIsImage ==
  ASSUME \A e \in Encs : EncTyped(e), NEW d \in Decs, DecTyped(d),
         Len(dec[d].head) = 2, Len(dec[d].ct) >= 2, HmacOk(d)
  PROVE  \E e \in Encs : Reads(d, e)
<1> DEFINE key   == DecKey(d)
           nonce == dec[d].head[2]
           pl    == PlainLen(d)
           q     == <<key, nonce, pl + 1>>
           u     == dec[d].ct[pl + 1]
<1>1. /\ pl \in Nat /\ Len(dec[d].ct) = pl + 2 /\ pl + 1 \in 1 .. Len(dec[d].ct)
      /\ Buffer(d)[pl + 1] = Padded(u, q)
      /\ MacPart(d)[1] = Buffer(d)[pl + 1]
  BY BufferParts
<1>2. MacPart(d)[1] = Unit(<<"mac", 1, key, PlainPart(d)>>)
  BY DEF HmacOk, Mac
<1>3. Known(u) /\ u = [base |-> u.base, pads |-> u.pads]
  <2>1. DOMAIN dec[d].ct = 1 .. Len(dec[d].ct)
    BY SeqShape DEF DecTyped, AllKnown
  <2>2. Known(u)
    BY <1>1, <2>1 DEF DecTyped, AllKnown
  <2> QED
    BY <2>2 DEF Known
<1> HIDE DEF u, q
<1>4. u.base = <<"mac", 1, key, PlainPart(d)>> /\ u.pads = {q}
  <2>1. Padded(u, q) = Unit(<<"mac", 1, key, PlainPart(d)>>)
    BY <1>1, <1>2
  <2>2. /\ Padded(u, q).base = u.base
        /\ Padded(u, q).pads = (u.pads \ {q}) \cup ({q} \ u.pads)
    BY <1>3, PaddedParts
  <2>3. (u.pads \ {q}) \cup ({q} \ u.pads) = {}
    BY <2>1, <2>2 DEF Unit
  <2>4. u.pads = {q}
    BY <2>3
  <2> QED
    BY <2>1, <2>2, <2>4 DEF Unit
<1>5. PICK e \in Encs : Made(e) /\ key = EncKey(e) /\ nonce = Nonce(e)
  <2>1. PICK e \in Encs : Made(e) /\ \E k \in 1 .. Len(enc[e].plain) + 2 :
                                       q = <<EncKey(e), Nonce(e), k>>
    BY <1>3, <1>4 DEF Known
  <2> QED
    BY <2>1 DEF q
<1>6. PICK f \in Encs : Made(f) /\ key = EncKey(f) /\ PlainPart(d) = enc[f].plain
  <2>1. u.base[1] = "mac"
    BY <1>4
  <2>2. PICK f \in Encs : Made(f) /\ \E k \in 1 .. 2 :
                                       u.base = <<"mac", k, EncKey(f), enc[f].plain>>
    BY <1>3, <2>1 DEF Known
  <2> QED
    BY <1>4, <2>2
<1>7. e = f /\ dec[d].head[1] = Salt(e) /\ dec[d].pw = enc[e].pw
  BY <1>5, <1>6 DEF key, EncKey, DecKey, Key, Salt, Unit
<1>8. dec[d].head = <<Salt(e), Nonce(e)>>
  <2>1. IsSeq(dec[d].head)
    BY DEF DecTyped, AllKnown
  <2>2. dec[d].head[1] = Salt(e) /\ dec[d].head[2] = Nonce(e)
    BY <1>5, <1>7
  <2> DEFINE g == <<Salt(e), Nonce(e)>>
  <2>3. IsSeq(g) /\ Len(g) = 2 /\ g[1] = Salt(e) /\ g[2] = Nonce(e)
    BY ShortSeq
  <2> HIDE DEF g
  <2>4. \A k \in 1 .. 2 : dec[d].head[k] = g[k]
    BY <2>2, <2>3
  <2>5. dec[d].head = g
    BY <2>1, <2>3, <2>4, SameSeq
  <2> QED
    BY <2>5 DEF g
<1>9. Buffer(d) = Signed(e)
  <2>1. PlainPart(d) \o MacPart(d) = Buffer(d)
    BY BufferParts
  <2> QED
    BY <1>5, <1>6, <1>7, <2>1 DEF HmacOk, Signed
<1>10. dec[d].ct = Payload(e, enc[e].plain)
  <2>1. AllKnown(dec[d].ct)
    BY DEF DecTyped
  <2>2. Transform(Buffer(d), key, nonce) = dec[d].ct
    BY <2>1, TransformBack DEF Buffer
  <2> QED
    BY <1>5, <1>9, <2>2 DEF Payload, Signed
<1>11. BytesRead(d) = Image(e, enc[e].plain)
  BY <1>8, <1>10 DEF BytesRead, Image
<1> QED
  BY <1>5, <1>7, <1>11 DEF Reads

(* An image passes under its password, and what was encrypted comes out.   *)
LEMMA ImageIsAccepted ==
  ASSUME \A e \in Encs : EncTyped(e), NEW d \in Decs, DecTyped(d),
         Len(dec[d].head) = 2, Len(dec[d].ct) >= 2, NEW e \in Encs, Reads(d, e)
  PROVE  HmacOk(d) /\ PlainPart(d) = enc[e].plain
<1> DEFINE load == Payload(e, enc[e].plain)
           m    == Mac(EncKey(e), enc[e].plain)
<1>1. Made(e) /\ BytesRead(d) = Image(e, enc[e].plain) /\ dec[d].pw = enc[e].pw
  BY DEF Reads
<1>2. AllKnown(enc[e].plain) /\ AllKnown(Signed(e)) /\ Len(Signed(e)) = Len(enc[e].plain) + 2
  BY <1>1, KnownSigned DEF EncTyped
<1>3. IsSeq(enc[e].plain) /\ IsSeq(Signed(e)) /\ IsSeq(m) /\ Len(m) = 2
  BY <1>2, MacSeq DEF AllKnown
<1>4. load = Transform(Signed(e), EncKey(e), Nonce(e))
  BY DEF Payload, Signed
<1>5. IsSeq(load) /\ Len(load) = Len(Signed(e))
  BY <1>3, <1>4, TransformSeq
<1>6. dec[d].head = <<Salt(e), Nonce(e)>> /\ dec[d].ct = load
  <2> HIDE DEF load
  <2> DEFINE h == dec[d].head
             c == dec[d].ct
             g == <<Salt(e), Nonce(e)>>
  <2>1. IsSeq(h) /\ IsSeq(c) /\ IsSeq(g) /\ Len(h) = Len(g)
    BY ShortSeq DEF DecTyped, AllKnown
  <2>2. h \o c = g \o load
    BY <1>1 DEF BytesRead, Image, load
  <2> HIDE DEF h, c, g
  <2>3. h = g /\ c = load
    BY <1>5, <2>1, <2>2, ConcatSame
  <2> QED
    BY <2>3 DEF h, c, g
<1>7. DecKey(d) = EncKey(e) /\ dec[d].head[2] = Nonce(e)
  BY <1>1, <1>6, ShortSeq DEF DecKey, EncKey
<1>8. Buffer(d) = Signed(e)
  BY <1>2, <1>4, <1>6, <1>7, TransformBack DEF Buffer
<1>9. PlainLen(d) = Len(enc[e].plain) /\ Len(dec[d].ct) = Len(enc[e].plain) + 2
  <2>1. Len(enc[e].plain) \in Nat
    BY <1>3, SeqShape
  <2> QED
    BY <1>2, <1>5, <1>6, <2>1 DEF PlainLen
<1>10. /\ SubSeq(Signed(e), 1, Len(enc[e].plain)) = enc[e].plain
       /\ SubSeq(Signed(e), Len(enc[e].plain) + 1, Len(enc[e].plain) + 2) = m
  <2>1. /\ SubSeq(enc[e].plain \o m, 1, Len(enc[e].plain)) = enc[e].plain
        /\ SubSeq(enc[e].plain \o m, Len(enc[e].plain) + 1, Len(enc[e].plain) + Len(m)) = m
    BY <1>3, ConcatApart
  <2> QED
    BY <1>3, <2>1 DEF Signed
<1>11. PlainPart(d) = enc[e].plain /\ MacPart(d) = m
  BY <1>8, <1>9, <1>10 DEF PlainPart, MacPart
<1> QED
  BY <1>7, <1>11 DEF HmacOk
-----------------------------------------------------------------------------
(* The steps of a run of choienc.                                          *)

(* Only the run itself is new.                                             *)
EncAlone(e) == /\ DOMAIN enc' = Encs /\ \A x \in Encs \ {e} : enc'[x] = enc[x]
               /\ UNCHANGED dec
               /\ DOMAIN enc'[e] = DOMAIN enc[e]
               /\ enc'[e].in = enc[e].in /\ enc'[e].pw = enc[e].pw

(* A step before the output is opened, which writes nowhere.               *)
LEMMA EncBefore ==
  ASSUME FilesOK, NEW e \in Encs, EncTyped(e), ~Made(e), UNCHANGED fs, EncAlone(e),
         enc'[e].out = enc[e].out, enc'[e].pc \in {"read", "create", "exit1"},
         enc'[e].fd \in 0 .. Len(data), enc'[e].len \in Nat, AllKnown(enc'[e].plain)
  PROVE  EncMoves(e) /\ EncTyped(e)' /\ EncProgress(e)'
<1>1. Touches(e)
  BY NothingTouched DEF fs, FilesOK
<1>2. EncMoves(e) /\ Settled
  <2>1. EncMoves(e)
    BY <1>1 DEF EncAlone, EncMoves
  <2> QED
    BY <2>1, MovesSettled
<1>3. (AllKnown(enc[e].plain) /\ AllKnown(enc[e].out.buf) /\ StreamOK(enc[e].out))'
  BY <1>2, AllKnownKept DEF EncTyped, fs, StreamOK
<1>4. ~Made(e)'
  BY DEF Made
<1>5. EncTyped(e)'
  BY <1>3, <1>4 DEF EncTyped, EncAlone, fs, OutName, Paths
<1>6. EncProgress(e)'
  BY DEF EncProgress
<1> QED
  BY <1>2, <1>5, <1>6

(* fopen and ftell of the input.                                           *)
LEMMA EncOpenStep ==
  ASSUME ToolsIInv, NEW e \in Encs, EncOpen(e), UNCHANGED dec
  PROVE  EncMoves(e) /\ EncTyped(e)' /\ EncProgress(e)'
<1>1. FilesOK /\ EncTyped(e) /\ DOMAIN enc = Encs /\ ~Made(e)
  BY DEF ToolsIInv, EncOpen, EncTyped
<1>2. /\ EncAlone(e) /\ enc'[e].out = enc[e].out /\ enc'[e].plain = enc[e].plain
      /\ enc'[e].pc = "read" /\ enc'[e].fd = dir[enc[e].in]
      /\ enc'[e].len = Len(Content(enc[e].in))
  BY <1>1 DEF EncOpen, EncAlone, EncTyped
<1>3. dir[enc[e].in] \in 1 .. Len(data)
  <2>1. enc[e].in \in Paths
    BY <1>1 DEF EncTyped, Paths
  <2>2. Len(data) \in Nat /\ dir \in [Paths -> 0 .. Len(data)] /\ dir[enc[e].in] # 0
    BY <1>1, FilesFacts DEF FilesOK, EncOpen, Absent
  <2> QED
    BY <2>1, <2>2
<1>4. Len(Content(enc[e].in)) \in Nat
  BY <1>1, <1>3, FilesFacts, SeqShape DEF Content, AllKnown
<1>5. /\ enc'[e].fd \in 0 .. Len(data) /\ enc'[e].fd # Absent /\ enc'[e].len \in Nat
      /\ AllKnown(enc'[e].plain)
  BY <1>1, <1>2, <1>3, <1>4 DEF EncTyped, Absent
<1> QED
  BY <1>1, <1>2, <1>5, EncBefore DEF EncOpen

(* fread of the input, in full or not at all.                              *)
LEMMA EncReadStep ==
  ASSUME ToolsIInv, NEW e \in Encs, EncRead(e), UNCHANGED dec
  PROVE  EncMoves(e) /\ EncTyped(e)' /\ EncProgress(e)'
<1>1. FilesOK /\ EncTyped(e) /\ DOMAIN enc = Encs /\ ~Made(e) /\ enc[e].fd # Absent
  BY DEF ToolsIInv, EncRead, EncTyped, EncSource
<1> DEFINE file == data[enc[e].fd]
<1>2. AllKnown(file)
  BY <1>1, FilesFacts DEF EncTyped, Absent
<1>3. CASE Len(file) < enc[e].len
  <2>1. /\ EncAlone(e) /\ enc'[e].out = enc[e].out /\ enc'[e].plain = enc[e].plain
        /\ enc'[e].pc = "exit1" /\ enc'[e].fd = enc[e].fd /\ enc'[e].len = enc[e].len
    BY <1>1, <1>3 DEF EncRead, Exit, EncAlone, EncTyped
  <2> QED
    BY <1>1, <2>1, EncBefore DEF EncRead, EncTyped
<1>4. CASE ~(Len(file) < enc[e].len)
  <2>1. /\ EncAlone(e) /\ enc'[e].out = enc[e].out
        /\ enc'[e].plain = SubSeq(file, 1, enc[e].len)
        /\ enc'[e].pc = "create" /\ enc'[e].fd = enc[e].fd /\ enc'[e].len = enc[e].len
    BY <1>1, <1>4 DEF EncRead, EncAlone, EncTyped
  <2>2. 1 \in Nat \ {0} /\ enc[e].len \in 0 .. Len(file) /\ 1 <= enc[e].len + 1
    BY <1>1, <1>2, <1>4, SeqShape DEF EncTyped, AllKnown
  <2>3. AllKnown(SubSeq(file, 1, enc[e].len))
    BY <1>2, <2>2, KnownPart
  <2> QED
    BY <1>1, <2>1, <2>3, EncBefore DEF EncRead, EncTyped
<1> QED
  BY <1>3, <1>4

(* An early return.                                                        *)
LEMMA EncGiveUpStep ==
  ASSUME ToolsIInv, NEW e \in Encs, EncGiveUp(e), UNCHANGED dec
  PROVE  EncMoves(e) /\ EncTyped(e)' /\ EncProgress(e)'
<1>1. FilesOK /\ EncTyped(e) /\ DOMAIN enc = Encs /\ ~Made(e)
  BY DEF ToolsIInv, EncGiveUp, EncTyped
<1>2. /\ EncAlone(e) /\ enc'[e].out = enc[e].out /\ enc'[e].plain = enc[e].plain
      /\ enc'[e].pc = "exit1" /\ enc'[e].fd = enc[e].fd /\ enc'[e].len = enc[e].len
  BY <1>1 DEF EncGiveUp, Exit, EncAlone, EncTyped
<1> QED
  BY <1>1, <1>2, EncBefore DEF EncGiveUp, EncTyped

(* The output is opened: the first bytes of the image are known from here. *)
LEMMA EncCreateStep ==
  ASSUME ToolsIInv, NEW e \in Encs, EncCreate(e), UNCHANGED dec
  PROVE  EncMoves(e) /\ EncTyped(e)' /\ EncProgress(e)'
<1> DEFINE name == OutName(enc[e].in)
           i    == OpenedInode(name)
<1>1. FilesOK /\ EncTyped(e) /\ DOMAIN enc = Encs /\ ~Made(e) /\ name \in Paths
  BY DEF ToolsIInv, EncCreate, EncTyped
<1>2. OpenForWriting(e, name)
  BY DEF EncCreate
<1> HIDE DEF name
<1>3. Touches(e) /\ i \in 1 .. Len(data') /\ data'[i] = <<>> /\ hands'[i] = {e}
  BY <1>1, <1>2, CreateTouches
<1>4. /\ EncAlone(e) /\ enc'[e].plain = enc[e].plain /\ enc'[e].fd = enc[e].fd
      /\ enc'[e].len = enc[e].len /\ enc'[e].pc = "write"
      /\ enc'[e].out = Stream(i) /\ enc'[e].todo = Pieces(e, enc[e].plain)
  BY <1>1 DEF EncCreate, EncAlone, EncTyped, name
<1>5. /\ DOMAIN Stream(i) = StreamFields
      /\ Stream(i).inode = i /\ Stream(i).off = 0 /\ Stream(i).buf = <<>>
  BY DEF Stream, StreamFields
<1> HIDE DEF i
<1>6. enc[e].out.inode = Absent
  BY <1>1 DEF Made
<1>7. EncMoves(e) /\ Settled
  <2>1. EncMoves(e)
    BY <1>1, <1>3, <1>4, <1>5, <1>6 DEF EncAlone, EncMoves
  <2> QED
    BY <2>1, MovesSettled
<1>8. Made(e)'
  BY <1>3, <1>4, <1>5 DEF Made, Absent
<1>9. (AllKnown(enc[e].plain) /\ AllKnown(enc[e].out.buf))'
  BY <1>1, <1>4, <1>5, <1>7, AllKnownKept, KnownShort DEF EncTyped
<1>10. (StreamOK(enc[e].out))' /\ enc[e].fd \in 0 .. Len(data')
  BY <1>1, <1>3, <1>4, <1>5, FilesFacts, SeqShape DEF StreamOK, Touches, EncTyped
<1>11. EncTyped(e)'
  BY <1>1, <1>3, <1>4, <1>5, <1>8, <1>9, <1>10 DEF EncTyped, EncAlone, OutName, Paths
<1>12. Pieces(e, enc[e].plain)' = Pieces(e, enc[e].plain)
  BY <1>4 DEF EncAlone, Pieces, Payload, EncKey
<1>13. (Sent(e, enc[e].out, <<>>))'
  BY <1>3, <1>4, <1>5, ShortSeq, EmptyConcat DEF Sent
<1>14. EncProgress(e)'
  BY <1>4, <1>12, <1>13 DEF EncProgress
<1> QED
  BY <1>7, <1>11, <1>14
(* What a stream takes comes after what it has.                            *)
Taken(s, units) == s \o units

(* What a stream takes comes after what its file and its buffer hold.      *)
LEMMA TakenLast ==
  ASSUME NEW file, NEW buf, NEW units, IsSeq(file), IsSeq(buf), IsSeq(units), NEW full,
         full = Taken(buf, units)
  PROVE  Taken(file, full) = Taken(Taken(file, buf), units)
  BY ConcatAssoc DEF Taken

(* A buffer of known origin stays one.                                     *)
LEMMA KnownTaken == \A s, t : AllKnown(s) /\ AllKnown(t) => AllKnown(Taken(s, t))
  BY KnownConcat DEF Taken

(* One unit after another.                                                 *)
LEMMA TwoUnits == ASSUME NEW x, NEW y PROVE <<x>> \o <<y>> = <<x, y>>
<1> DEFINE S == {x, y}
<1>1. <<x>> \in Seq(S) /\ y \in S
  OBVIOUS
<1>2. <<x, y>> = Append(<<x>>, y)
  OBVIOUS
<1> HIDE DEF S
<1> QED
  BY <1>1, <1>2, AppendIsConcat

(* The stream full is the stream st after it took units.                   *)
Fuller(st, full, units) ==
  /\ DOMAIN st = StreamFields /\ DOMAIN full = StreamFields
  /\ full.inode = st.inode /\ full.off = st.off /\ full.buf = Taken(st.buf, units)

(* After a step that wrote, now is the stream that st was: it took units.  *)
Wrote(run, st, now, units) ==
  /\ Touches(run) /\ Len(data') = Len(data)
  /\ hands'[st.inode] = hands[st.inode] \/ hands'[st.inode] = hands[st.inode] \cup {run}
  /\ DOMAIN now = StreamFields /\ now.inode = st.inode /\ now.off \in Nat
  /\ AllKnown(now.buf)
  /\ \A s : st.off = Len(data[st.inode]) /\ data[st.inode] \o st.buf = s =>
       now.off = Len(data'[st.inode]) /\ data'[st.inode] \o now.buf = Taken(s, units)

(* A stream takes more units and puts some of what it has into its file.   *)
LEMMA MoreFlushed ==
  ASSUME FilesOK, UNCHANGED dir, NEW run \in Encs \cup Decs,
         NEW st, st.inode \in 1 .. Len(data), st.off \in Nat, AllKnown(st.buf),
         NEW units, AllKnown(units), NEW full, Fuller(st, full, units),
         NEW n \in 0 .. Len(full.buf), FlushData(run, full, n)
  PROVE  Wrote(run, st, Flushed(full, n), units)
<1>1. /\ DOMAIN st = StreamFields /\ DOMAIN full = StreamFields
      /\ full.inode = st.inode /\ full.off = st.off /\ full.buf = Taken(st.buf, units)
  BY DEF Fuller
<1>2. AllKnown(full.buf)
  BY <1>1, KnownTaken
<1>3. /\ Touches(run) /\ Len(data') = Len(data)
      /\ \/ hands'[full.inode] = hands[full.inode]
         \/ hands'[full.inode] = hands[full.inode] \cup {run}
      /\ DOMAIN Flushed(full, n) = StreamFields
      /\ Flushed(full, n).inode = full.inode /\ Flushed(full, n).off \in Nat
      /\ AllKnown(Flushed(full, n).buf)
      /\ full.off = Len(data[full.inode]) =>
           /\ Flushed(full, n).off = Len(data'[full.inode])
           /\ data'[full.inode] \o Flushed(full, n).buf = data[full.inode] \o full.buf
  <2>1. FlushData(run, full, n) /\ UNCHANGED dir /\ FilesOK
    OBVIOUS
  <2>2. /\ full.inode \in 1 .. Len(data) /\ full.off \in Nat
        /\ AllKnown(full.buf) /\ DOMAIN full = StreamFields
    BY <1>1, <1>2
  <2> QED
    BY <2>1, <2>2, FlushTouches, Zenon
<1>4. Taken(data[st.inode], full.buf) = Taken(Taken(data[st.inode], st.buf), units)
  <2>1. IsSeq(data[st.inode]) /\ IsSeq(st.buf) /\ IsSeq(units)
    BY FilesFacts DEF AllKnown
  <2> QED
    BY <1>1, <2>1, TakenLast
<1>5. data[st.inode] \o full.buf = Taken(data[st.inode] \o st.buf, units)
  BY <1>4 DEF Taken
<1> QED
  BY <1>1, <1>3, <1>5 DEF Wrote

(* What is still to be written after the units s.                          *)
Due(e, todo, s) ==
  LET load == Payload(e, enc[e].plain)
  IN  \/ todo = Pieces(e, enc[e].plain)  /\ s = <<>>
      \/ todo = <<<<Nonce(e)>>, load>>   /\ s = <<Salt(e)>>
      \/ todo = <<load>>                 /\ s = <<Salt(e), Nonce(e)>>
      \/ todo = <<>>                     /\ s = Image(e, enc[e].plain)

(* While choienc writes, its progress is that something is due.            *)
LEMMA ProgressDue ==
  \A x \in Encs : enc[x].pc = "write" =>
    (EncProgress(x) <=> \E r : Due(x, enc[x].todo, r) /\ Sent(x, enc[x].out, r))
  BY DEF EncProgress, Due

(* The same after a step.                                                  *)
LEMMA ProgressDueNext ==
  (\A x \in Encs : enc[x].pc = "write" =>
     (EncProgress(x) <=> \E r : Due(x, enc[x].todo, r) /\ Sent(x, enc[x].out, r)))'
  BY ProgressDue, PTL

(* With the next piece written, the pieces after it are due.               *)
LEMMA NextDue ==
  ASSUME NEW e \in Encs, Made(e), AllKnown(enc[e].plain), NEW todo, NEW s,
         Due(e, todo, s), todo # <<>>
  PROVE  AllKnown(Head(todo)) /\ Due(e, Tail(todo), Taken(s, Head(todo)))
<1> DEFINE load == Payload(e, enc[e].plain)
<1>1. AllKnown(<<Salt(e)>>) /\ AllKnown(<<Nonce(e)>>) /\ AllKnown(load)
  BY KnownImage
<1>2. /\ Pieces(e, enc[e].plain) = <<<<Salt(e)>>, <<Nonce(e)>>, load>>
      /\ Image(e, enc[e].plain) = <<Salt(e), Nonce(e)>> \o load
  BY DEF Pieces, Image
<1> HIDE DEF load
<1>3. CASE todo = Pieces(e, enc[e].plain) /\ s = <<>>
  <2>1. Head(todo) = <<Salt(e)>> /\ Tail(todo) = <<<<Nonce(e)>>, load>>
    BY <1>2, <1>3
  <2>2. Taken(s, Head(todo)) = <<Salt(e)>>
    BY <1>3, <2>1, ShortSeq, EmptyConcat DEF Taken
  <2> QED
    BY <1>1, <2>1, <2>2 DEF Due, load
<1>4. CASE todo = <<<<Nonce(e)>>, load>> /\ s = <<Salt(e)>>
  <2>1. Head(todo) = <<Nonce(e)>> /\ Tail(todo) = <<load>>
    BY <1>4
  <2>2. Taken(s, Head(todo)) = <<Salt(e), Nonce(e)>>
    BY <1>4, <2>1, TwoUnits DEF Taken
  <2> QED
    BY <1>1, <2>1, <2>2 DEF Due, load
<1>5. CASE todo = <<load>> /\ s = <<Salt(e), Nonce(e)>>
  <2>1. Head(todo) = load /\ Tail(todo) = <<>>
    BY <1>5
  <2>2. Taken(s, Head(todo)) = Image(e, enc[e].plain)
    BY <1>2, <1>5, <2>1 DEF Taken
  <2> QED
    BY <1>1, <2>1, <2>2 DEF Due
<1> QED
  BY <1>3, <1>4, <1>5 DEF Due, load

(* A step that writes to the output: the types.                            *)
LEMMA EncAfter ==
  ASSUME FilesOK, NEW e \in Encs, EncTyped(e), Made(e), EncAlone(e),
         Touches(e), Len(data') = Len(data),
         enc'[e].pc \in {"write", "exit0", "exit1"},
         enc'[e].fd = enc[e].fd, enc'[e].len = enc[e].len, enc'[e].plain = enc[e].plain,
         DOMAIN enc'[e].out = StreamFields, enc'[e].out.inode = enc[e].out.inode,
         enc'[e].out.off \in Nat, AllKnown(enc'[e].out.buf)
  PROVE  EncMoves(e) /\ EncTyped(e)'
<1>1. EncMoves(e) /\ Settled
  <2>1. EncMoves(e)
    BY DEF EncAlone, EncMoves
  <2> QED
    BY <2>1, MovesSettled
<1>2. (AllKnown(enc[e].plain) /\ AllKnown(enc[e].out.buf) /\ StreamOK(enc[e].out))'
  BY <1>1, AllKnownKept DEF EncTyped, StreamOK
<1>3. Made(e)'
  BY DEF Made
<1>5. hands'[enc[e].out.inode] # {}
  BY FilesFacts, HandsStay DEF EncTyped, StreamOK, Made, Absent
<1>4. EncTyped(e)'
  BY <1>2, <1>3, <1>5 DEF EncTyped, EncAlone, OutName, Paths
<1> QED
  BY <1>1, <1>4

(* Nobody becomes the only writer of a file by writing to it again.        *)
LEMMA SoleKept ==
  ASSUME NEW run, NEW n, hands[n] # {},
         hands'[n] = hands[n] \/ hands'[n] = hands[n] \cup {run}
  PROVE  SoleWriter(run, n)' => SoleWriter(run, n)
  BY DEF SoleWriter

(* An fwrite, whatever part of it reaches the file.                        *)
LEMMA EncWriteStep ==
  ASSUME ToolsIInv, NEW e \in Encs, EncWrite(e), UNCHANGED dec
  PROVE  EncMoves(e) /\ EncTyped(e)' /\ EncProgress(e)'
<1>14. PICK piece : piece = Head(enc[e].todo)
  OBVIOUS
<1>1. /\ FilesOK /\ EncTyped(e) /\ EncProgress(e) /\ DOMAIN enc = Encs
      /\ enc[e].pc = "write" /\ enc[e].todo # <<>> /\ Made(e) /\ UNCHANGED dir
  BY DEF ToolsIInv, EncWrite, EncTyped
<1>13. PICK full : full = [enc[e].out EXCEPT !.buf = @ \o piece]
  OBVIOUS
<1>2. PICK n \in 0 .. Len(full.buf) :
        /\ FlushData(e, full, n)
        /\ \/ enc' = [enc EXCEPT ![e].out = Flushed(full, n), ![e].todo = Tail(@)]
           \/ enc' = [enc EXCEPT ![e].out = Flushed(full, n), ![e].pc = "exit1"]
  BY <1>13, <1>14 DEF EncWrite
<1>3. PICK s : Due(e, enc[e].todo, s) /\ Sent(e, enc[e].out, s)
  BY <1>1, ProgressDue
<1>4. AllKnown(piece) /\ Due(e, Tail(enc[e].todo), Taken(s, piece))
  BY <1>1, <1>3, <1>14, NextDue DEF EncTyped
<1>5. /\ EncAlone(e) /\ enc'[e].plain = enc[e].plain /\ enc'[e].fd = enc[e].fd
      /\ enc'[e].len = enc[e].len /\ enc'[e].out = Flushed(full, n)
      /\ \/ enc'[e].pc = "write" /\ enc'[e].todo = Tail(enc[e].todo)
         \/ enc'[e].pc = "exit1"
  BY <1>1, <1>2 DEF EncAlone, EncTyped
<1>6. PICK st : st = enc[e].out
  OBVIOUS
<1>7. /\ st.inode \in 1 .. Len(data) /\ st.off \in Nat /\ AllKnown(st.buf)
      /\ DOMAIN st = StreamFields /\ hands[st.inode] # {}
  BY <1>1, <1>6, FilesFacts DEF EncTyped, StreamOK, Made, Absent
<1>8. Fuller(st, full, piece)
  BY <1>6, <1>7, <1>13 DEF StreamFields, Taken, Fuller
<1>9. /\ Touches(e) /\ Len(data') = Len(data)
      /\ hands'[st.inode] = hands[st.inode] \/ hands'[st.inode] = hands[st.inode] \cup {e}
      /\ DOMAIN Flushed(full, n) = StreamFields
      /\ Flushed(full, n).inode = st.inode /\ Flushed(full, n).off \in Nat
      /\ AllKnown(Flushed(full, n).buf)
      /\ \A r : st.off = Len(data[st.inode]) /\ data[st.inode] \o st.buf = r =>
           /\ Flushed(full, n).off = Len(data'[st.inode])
           /\ data'[st.inode] \o Flushed(full, n).buf = Taken(r, piece)
  <2>1. FlushData(e, full, n) /\ e \in Encs \cup Decs
    BY <1>2
  <2>2. FilesOK /\ UNCHANGED dir /\ AllKnown(piece)
    BY <1>1, <1>4
  <2>3. st.inode \in 1 .. Len(data) /\ st.off \in Nat /\ AllKnown(st.buf)
    BY <1>7
  <2>4. n \in 0 .. Len(full.buf)
    OBVIOUS
  <2>5. Wrote(e, st, Flushed(full, n), piece)
    BY <1>8, <2>1, <2>2, <2>3, <2>4, MoreFlushed, Zenon
  <2> QED
    BY <2>5 DEF Wrote
<1>10. EncMoves(e) /\ EncTyped(e)'
  BY <1>1, <1>5, <1>6, <1>9, EncAfter
<1>11. ASSUME enc'[e].pc = "write" PROVE EncProgress(e)'
  <2>1. (Sent(e, enc[e].out, Taken(s, piece)))'
    <3>1. SoleWriter(e, st.inode)' => SoleWriter(e, st.inode)
      BY <1>7, <1>9, SoleKept
    <3>2. SoleWriter(e, st.inode)' =>
            /\ Flushed(full, n).off = Len(data'[st.inode])
            /\ data'[st.inode] \o Flushed(full, n).buf = Taken(s, piece)
      BY <1>3, <1>6, <1>9, <3>1 DEF Sent
    <3> QED
      BY <1>5, <1>9, <3>2 DEF Sent, SoleWriter
  <2>2. enc'[e].todo = Tail(enc[e].todo)
    BY <1>5, <1>11
  <2>3. /\ Payload(e, enc[e].plain)' = Payload(e, enc[e].plain)
        /\ Image(e, enc[e].plain)' = Image(e, enc[e].plain)
        /\ Pieces(e, enc[e].plain)' = Pieces(e, enc[e].plain)
    BY <1>5 DEF Pieces, Image, Payload, EncKey, EncAlone
  <2>4. \A r : Due(e, Tail(enc[e].todo), r) => (Due(e, enc[e].todo, r))'
    BY <2>2, <2>3 DEF Due
  <2> QED
    BY <1>4, <1>11, <2>1, <2>4, ProgressDueNext
<1>12. ASSUME enc'[e].pc = "exit1" PROVE EncProgress(e)'
  BY <1>12 DEF EncProgress
<1> QED
  BY <1>5, <1>10, <1>11, <1>12

(* The fclose.                                                             *)
LEMMA EncCloseStep ==
  ASSUME ToolsIInv, NEW e \in Encs, EncClose(e), UNCHANGED dec
  PROVE  EncMoves(e) /\ EncTyped(e)' /\ EncProgress(e)'
<1>1. /\ FilesOK /\ EncTyped(e) /\ EncProgress(e) /\ DOMAIN enc = Encs
      /\ enc[e].pc = "write" /\ enc[e].todo = <<>> /\ Made(e) /\ UNCHANGED dir
  BY DEF ToolsIInv, EncClose, EncTyped
<1>11. PICK st : st = enc[e].out
  OBVIOUS
<1>2. PICK n \in 0 .. Len(st.buf) :
        /\ FlushData(e, st, n)
        /\ enc' = [enc EXCEPT ![e].out = Flushed(st, n),
                              ![e].lost = n < Len(st.buf),
                              ![e].pc = "exit0"]
  BY <1>11 DEF EncClose
<1>3. Sent(e, st, Image(e, enc[e].plain))
  BY <1>1, <1>2, <1>11 DEF EncProgress, Pieces
<1>4. /\ EncAlone(e) /\ enc'[e].plain = enc[e].plain /\ enc'[e].fd = enc[e].fd
      /\ enc'[e].len = enc[e].len /\ enc'[e].out = Flushed(st, n)
      /\ enc'[e].pc = "exit0" /\ enc'[e].lost = (n < Len(st.buf))
  BY <1>1, <1>2, <1>11 DEF EncAlone, EncTyped
<1>5. /\ st.inode \in 1 .. Len(data) /\ st.off \in Nat /\ AllKnown(st.buf)
      /\ DOMAIN st = StreamFields /\ Len(st.buf) \in Nat /\ hands[st.inode] # {}
  BY <1>1, <1>2, <1>11, FilesFacts, SeqShape DEF EncTyped, StreamOK, Made, Absent, AllKnown
<1>6. /\ Touches(e) /\ Len(data') = Len(data)
      /\ hands'[st.inode] = hands[st.inode] \/ hands'[st.inode] = hands[st.inode] \cup {e}
      /\ DOMAIN Flushed(st, n) = StreamFields
      /\ Flushed(st, n).inode = st.inode /\ Flushed(st, n).off \in Nat
      /\ AllKnown(Flushed(st, n).buf)
      /\ n = Len(st.buf) => Flushed(st, n).buf = <<>>
      /\ st.off = Len(data[st.inode]) =>
           /\ Flushed(st, n).off = Len(data'[st.inode])
           /\ data'[st.inode] \o Flushed(st, n).buf = data[st.inode] \o st.buf
  <2>1. FlushData(e, st, n) /\ e \in Encs \cup Decs
    BY <1>2
  <2>2. FilesOK /\ UNCHANGED dir
    BY <1>1
  <2>3. st.inode \in 1 .. Len(data) /\ st.off \in Nat /\ AllKnown(st.buf)
        /\ DOMAIN st = StreamFields
    BY <1>5
  <2> QED
    BY <2>1, <2>2, <2>3, FlushTouches, Zenon
<1>7. EncMoves(e) /\ EncTyped(e)'
  BY <1>1, <1>2, <1>11, <1>4, <1>6, EncAfter
<1>8. (Sent(e, enc[e].out, Image(e, enc[e].plain)))'
  <2>1. Image(e, enc[e].plain)' = Image(e, enc[e].plain)
    BY <1>4 DEF EncAlone, Image, Payload, EncKey
  <2>2. SoleWriter(e, st.inode)' => SoleWriter(e, st.inode)
    BY <1>5, <1>6, SoleKept
  <2>3. SoleWriter(e, st.inode)' =>
          /\ Flushed(st, n).off = Len(data'[st.inode])
          /\ data'[st.inode] \o Flushed(st, n).buf = Image(e, enc[e].plain)
    BY <1>3, <1>6, <2>2 DEF Sent
  <2>4. \A i : i = st.inode => (SoleWriter(e, i)' <=> SoleWriter(e, st.inode)')
    OBVIOUS
  <2> QED
    BY <1>4, <1>6, <2>1, <2>3, <2>4 DEF Sent
<1>9. enc'[e].lost \/ enc'[e].out.buf = <<>>
  <2>1. CASE n = Len(st.buf)
    BY <2>1, <1>4, <1>6
  <2>2. CASE n < Len(st.buf)
    BY <2>2, <1>4
  <2> QED
    BY <1>5, <2>1, <2>2
<1>10. EncProgress(e)'
  BY <1>4, <1>8, <1>9 DEF EncProgress
<1> QED
  BY <1>7, <1>10

(* What a run has read stays the input, whoever moves, until somebody      *)
(* writes to that.                                                         *)
LEMMA SourceStays ==
  ASSUME FilesOK, NEW run, Touches(run), NEW x \in Encs, EncTyped(x), EncSource(x),
         enc'[x].fd = enc[x].fd, enc'[x].len = enc[x].len, enc'[x].plain = enc[x].plain,
         \/ enc'[x].pc = enc[x].pc
         \/ enc[x].pc \in {"create", "write"} /\ enc'[x].pc \in {"write", "exit0"}
         \/ enc'[x].pc = "exit1"
  PROVE  EncSource(x)'
<1>1. CASE enc'[x].pc \in {"read", "create", "write", "exit0"}
  <2>1. enc[x].fd \in 1 .. Len(data)
    BY <1>1, FilesFacts DEF EncTyped, EncSource, Absent
  <2>2. hands'[enc[x].fd] = {} =>
          hands[enc[x].fd] = {} /\ data'[enc[x].fd] = data[enc[x].fd]
    BY <2>1, HandsStay
  <2>3. CASE enc'[x].pc = "read"
    BY <2>1, <2>2, <2>3 DEF EncSource
  <2>4. CASE enc'[x].pc \in {"create", "write", "exit0"}
    BY <2>1, <2>2, <2>4 DEF EncSource
  <2> QED
    BY <1>1, <2>3, <2>4
<1>2. CASE enc'[x].pc \notin {"read", "create", "write", "exit0"}
  BY <1>2 DEF EncSource
<1> QED
  BY <1>1, <1>2

(* A run knows its input's length when it opens it, and reads that much.   *)
LEMMA EncSourceStep ==
  ASSUME ToolsIInv, NEW e \in Encs, EncStep(e), EncMoves(e) PROVE EncSource(e)'
<1>1. /\ FilesOK /\ EncTyped(e) /\ EncSource(e) /\ DOMAIN enc = Encs /\ Touches(e)
      /\ {"pc", "fd", "len", "plain"} \subseteq DOMAIN enc[e]
  BY DEF ToolsIInv, EncMoves, EncTyped
<1>2. CASE EncOpen(e)
  <2>1. /\ enc'[e].pc = "read" /\ enc'[e].fd = dir[enc[e].in] /\ dir[enc[e].in] # Absent
        /\ enc'[e].len = Len(data[dir[enc[e].in]]) /\ UNCHANGED <<data, hands>>
    BY <1>1, <1>2 DEF EncOpen, EncTyped, Content, fs
  <2> QED
    BY <2>1 DEF EncSource
<1>3. CASE EncRead(e)
  <2> DEFINE file == data[enc[e].fd]
  <2>1. /\ UNCHANGED <<data, hands>> /\ enc[e].pc = "read" /\ enc[e].fd # Absent
        /\ hands[enc[e].fd] = {} => enc[e].len = Len(file)
    BY <1>1, <1>3 DEF EncRead, EncSource, fs
  <2>2. IsSeq(file) /\ Len(file) \in Nat /\ enc[e].len \in Nat
    BY <1>1, <2>1, FilesFacts, SeqShape DEF EncTyped, Absent, AllKnown
  <2>3. CASE Len(file) < enc[e].len
    <3>1. enc'[e].pc = "exit1"
      BY <1>1, <1>3, <2>3 DEF EncRead, Exit
    <3> QED
      BY <3>1 DEF EncSource
  <2>4. CASE ~(Len(file) < enc[e].len)
    <3>1. /\ enc'[e].pc = "create" /\ enc'[e].plain = SubSeq(file, 1, enc[e].len)
          /\ enc'[e].fd = enc[e].fd /\ enc'[e].len = enc[e].len
      BY <1>1, <1>3, <2>4 DEF EncRead, EncTyped
    <3>2. 1 \in Nat \ {0} /\ enc[e].len \in 0 .. Len(file) /\ 1 <= enc[e].len + 1
      BY <2>2, <2>4
    <3>3. Len(SubSeq(file, 1, enc[e].len)) = enc[e].len
      <4>1. Len(SubSeq(file, 1, enc[e].len)) = enc[e].len - 1 + 1
        BY <2>2, <3>2, SubSeqSeq
      <4> QED
        BY <2>2, <4>1
    <3>4. SubSeq(file, 1, Len(file)) = file
      BY <2>2, SubSeqFull DEF IsSeq
    <3>5. hands[enc[e].fd] = {} => SubSeq(file, 1, enc[e].len) = file
      BY <2>1, <3>4
    <3> QED
      BY <2>1, <3>1, <3>3, <3>5 DEF EncSource
  <2> QED
    BY <2>3, <2>4
<1>4. CASE EncCreate(e) \/ EncWrite(e) \/ EncClose(e) \/ EncGiveUp(e)
  <2>1. /\ enc'[e].fd = enc[e].fd /\ enc'[e].len = enc[e].len
        /\ enc'[e].plain = enc[e].plain
        /\ \/ enc'[e].pc = enc[e].pc
           \/ enc[e].pc \in {"create", "write"} /\ enc'[e].pc \in {"write", "exit0"}
           \/ enc'[e].pc = "exit1"
    <3>1. CASE EncCreate(e)
      BY <1>1, <3>1 DEF EncCreate
    <3>2. CASE EncWrite(e)
      BY <1>1, <3>2 DEF EncWrite
    <3>3. CASE EncClose(e)
      BY <1>1, <3>3 DEF EncClose
    <3>4. CASE EncGiveUp(e)
      BY <1>1, <3>4 DEF EncGiveUp, Exit
    <3> QED
      BY <1>4, <3>1, <3>2, <3>3, <3>4
  <2> QED
    BY <1>1, <2>1, SourceStays
<1> QED
  BY <1>2, <1>3, <1>4 DEF EncStep
-----------------------------------------------------------------------------
(* The steps of a run of choidec.                                          *)

(* Only the run itself is new.                                             *)
DecAlone(d) == /\ DOMAIN dec' = Decs /\ \A x \in Decs \ {d} : dec'[x] = dec[x]
               /\ UNCHANGED enc
               /\ DOMAIN dec'[d] = DOMAIN dec[d]
               /\ dec'[d].in = dec[d].in /\ dec'[d].out = dec[d].out
               /\ dec'[d].pw = dec[d].pw

(* A step before the output is opened, which writes nowhere.               *)
LEMMA DecBefore ==
  ASSUME FilesOK, NEW d \in Decs, DecTyped(d), DecRead(d), ~Judged(d), UNCHANGED fs,
         DecAlone(d), dec'[d].st = dec[d].st, dec'[d].verdict = dec[d].verdict,
         dec'[d].pc \in {"open", "header", "body", "create", "exit1"},
         dec'[d].path \in Paths, dec'[d].fd \in 0 .. Len(data),
         AllKnown(dec'[d].head), AllKnown(dec'[d].ct),
         dec'[d].pc \in {"header", "body"} =>
           dec'[d].fd # Absent /\ dec'[d].len \in Nat /\ dec'[d].len >= 4,
         dec'[d].pc \in {"body", "create"} => Len(dec'[d].head) = 2,
         dec'[d].pc = "create" => Len(dec'[d].ct) >= 2
  PROVE  DecMoves(d) /\ DecTyped(d)' /\ DecRead(d)' /\ DecProgress(d)'
<1>1. Touches(d)
  BY NothingTouched DEF fs, FilesOK
<1>2. DecMoves(d) /\ Settled
  <2>1. DecMoves(d)
    BY <1>1 DEF DecAlone, DecMoves
  <2> QED
    BY <2>1, MovesSettled
<1>3. (AllKnown(dec[d].head) /\ AllKnown(dec[d].ct) /\ AllKnown(dec[d].st.buf)
       /\ StreamOK(dec[d].st))'
  BY <1>2, AllKnownKept DEF DecTyped, fs, StreamOK
<1>4. ~Judged(d)'
  BY DEF Judged
<1>5. DecTyped(d)'
  BY <1>3 DEF DecTyped, DecAlone, fs, Paths
<1>6. DecRead(d)'
  BY <1>4 DEF DecRead, Judged
<1>7. DecProgress(d)'
  BY DEF DecProgress
<1> QED
  BY <1>2, <1>5, <1>6, <1>7

(* The choice of the input path.                                           *)
LEMMA DecResolveStep ==
  ASSUME ToolsIInv, NEW d \in Decs, DecResolve(d), UNCHANGED enc
  PROVE  DecMoves(d) /\ DecTyped(d)' /\ DecRead(d)' /\ DecProgress(d)'
<1>1. /\ FilesOK /\ DecTyped(d) /\ DecRead(d) /\ DOMAIN dec = Decs /\ ~Judged(d)
      /\ UNCHANGED fs
  BY DEF ToolsIInv, DecResolve, DecRead
<1>2. PICK p \in {dec[d].in, dec[d].in \o Suffix} :
        dec' = [dec EXCEPT ![d].pc = "open", ![d].path = p]
  BY DEF DecResolve
<1>3. p \in Paths
  BY <1>1 DEF DecTyped, Paths
<1>4. /\ DecAlone(d) /\ dec'[d].st = dec[d].st /\ dec'[d].verdict = dec[d].verdict
      /\ dec'[d].pc = "open" /\ dec'[d].path = p /\ dec'[d].fd = dec[d].fd
      /\ dec'[d].head = dec[d].head /\ dec'[d].ct = dec[d].ct
  BY <1>1, <1>2 DEF DecAlone, DecTyped
<1> QED
  BY <1>1, <1>3, <1>4, DecBefore DEF DecTyped

(* fopen and ftell of the input.                                           *)
LEMMA DecOpenStep ==
  ASSUME ToolsIInv, NEW d \in Decs, DecOpen(d), UNCHANGED enc
  PROVE  DecMoves(d) /\ DecTyped(d)' /\ DecRead(d)' /\ DecProgress(d)'
<1> DEFINE p == dec[d].path
<1>1. /\ FilesOK /\ DecTyped(d) /\ DecRead(d) /\ DOMAIN dec = Decs /\ ~Judged(d)
      /\ UNCHANGED fs /\ p \in Paths
  BY DEF ToolsIInv, DecOpen, DecRead, DecTyped
<1>2. dir[p] \in 1 .. Len(data)
  BY <1>1, FilesFacts DEF FilesOK, DecOpen, Absent
<1>3. Len(Content(p)) \in Nat
  BY <1>1, <1>2, FilesFacts, SeqShape DEF Content, AllKnown
<1>4. CASE Len(Content(p)) < 4
  <2>1. /\ DecAlone(d) /\ dec'[d].st = dec[d].st /\ dec'[d].verdict = dec[d].verdict
        /\ dec'[d].pc = "exit1" /\ dec'[d].path = p /\ dec'[d].fd = dec[d].fd
        /\ dec'[d].head = dec[d].head /\ dec'[d].ct = dec[d].ct
    BY <1>1, <1>4 DEF DecOpen, Quit, DecAlone, DecTyped
  <2> QED
    BY <1>1, <2>1, DecBefore DEF DecTyped
<1>5. CASE ~(Len(Content(p)) < 4)
  <2>1. /\ DecAlone(d) /\ dec'[d].st = dec[d].st /\ dec'[d].verdict = dec[d].verdict
        /\ dec'[d].pc = "header" /\ dec'[d].path = p /\ dec'[d].fd = dir[p]
        /\ dec'[d].len = Len(Content(p))
        /\ dec'[d].head = dec[d].head /\ dec'[d].ct = dec[d].ct
    BY <1>1, <1>5 DEF DecOpen, DecAlone, DecTyped
  <2>2. /\ dec'[d].fd \in 0 .. Len(data) /\ dec'[d].fd # Absent
        /\ dec'[d].len \in Nat /\ dec'[d].len >= 4
    BY <1>2, <1>3, <1>5, <2>1 DEF Absent
  <2> QED
    BY <1>1, <2>1, <2>2, DecBefore DEF DecTyped
<1> QED
  BY <1>4, <1>5

(* fread of salt and nonce.                                                *)
LEMMA DecHeaderStep ==
  ASSUME ToolsIInv, NEW d \in Decs, DecHeader(d), UNCHANGED enc
  PROVE  DecMoves(d) /\ DecTyped(d)' /\ DecRead(d)' /\ DecProgress(d)'
<1> DEFINE file == data[dec[d].fd]
<1>1. /\ FilesOK /\ DecTyped(d) /\ DecRead(d) /\ DOMAIN dec = Decs /\ ~Judged(d)
      /\ UNCHANGED fs /\ dec[d].fd # Absent
      /\ dec[d].len \in Nat /\ dec[d].len >= 4
  BY DEF ToolsIInv, DecHeader, DecRead
<1>2. AllKnown(file) /\ IsSeq(file) /\ Len(file) \in Nat
  BY <1>1, FilesFacts, SeqShape DEF DecTyped, Absent, AllKnown
<1>3. CASE Len(file) < 2
  <2>1. /\ DecAlone(d) /\ dec'[d].st = dec[d].st /\ dec'[d].verdict = dec[d].verdict
        /\ dec'[d].pc = "exit1" /\ dec'[d].path = dec[d].path /\ dec'[d].fd = dec[d].fd
        /\ dec'[d].head = dec[d].head /\ dec'[d].ct = dec[d].ct
    BY <1>1, <1>3 DEF DecHeader, Quit, DecAlone, DecTyped
  <2> QED
    BY <1>1, <2>1, DecBefore DEF DecTyped
<1>4. CASE ~(Len(file) < 2)
  <2>1. /\ DecAlone(d) /\ dec'[d].st = dec[d].st /\ dec'[d].verdict = dec[d].verdict
        /\ dec'[d].pc = "body" /\ dec'[d].path = dec[d].path /\ dec'[d].fd = dec[d].fd
        /\ dec'[d].len = dec[d].len
        /\ dec'[d].head = SubSeq(file, 1, 2) /\ dec'[d].ct = dec[d].ct
    BY <1>1, <1>4 DEF DecHeader, DecAlone, DecTyped
  <2>2. 1 \in Nat \ {0} /\ 2 \in 0 .. Len(file) /\ 1 <= 2 + 1
    BY <1>2, <1>4
  <2>3. AllKnown(SubSeq(file, 1, 2)) /\ Len(SubSeq(file, 1, 2)) = 2
    BY <1>2, <2>2, KnownPart, SubSeqSeq
  <2> QED
    BY <1>1, <2>1, <2>3, DecBefore DEF DecTyped
<1> QED
  BY <1>3, <1>4

(* fread of the body.                                                      *)
LEMMA DecBodyStep ==
  ASSUME ToolsIInv, NEW d \in Decs, DecBody(d), UNCHANGED enc
  PROVE  DecMoves(d) /\ DecTyped(d)' /\ DecRead(d)' /\ DecProgress(d)'
<1> DEFINE file == data[dec[d].fd]
           n    == dec[d].len
<1>1. /\ FilesOK /\ DecTyped(d) /\ DecRead(d) /\ DOMAIN dec = Decs /\ ~Judged(d)
      /\ UNCHANGED fs /\ dec[d].fd # Absent
      /\ n \in Nat /\ n >= 4 /\ Len(dec[d].head) = 2
  BY DEF ToolsIInv, DecBody, DecRead
<1>2. AllKnown(file) /\ IsSeq(file) /\ Len(file) \in Nat
  BY <1>1, FilesFacts, SeqShape DEF DecTyped, Absent, AllKnown
<1>3. CASE Len(file) < n
  <2>1. /\ DecAlone(d) /\ dec'[d].st = dec[d].st /\ dec'[d].verdict = dec[d].verdict
        /\ dec'[d].pc = "exit1" /\ dec'[d].path = dec[d].path /\ dec'[d].fd = dec[d].fd
        /\ dec'[d].head = dec[d].head /\ dec'[d].ct = dec[d].ct
    BY <1>1, <1>3 DEF DecBody, Quit, DecAlone, DecTyped
  <2> QED
    BY <1>1, <2>1, DecBefore DEF DecTyped
<1>4. CASE ~(Len(file) < n)
  <2>1. /\ DecAlone(d) /\ dec'[d].st = dec[d].st /\ dec'[d].verdict = dec[d].verdict
        /\ dec'[d].pc = "create" /\ dec'[d].path = dec[d].path /\ dec'[d].fd = dec[d].fd
        /\ dec'[d].head = dec[d].head /\ dec'[d].ct = SubSeq(file, 3, n)
    BY <1>1, <1>4 DEF DecBody, DecAlone, DecTyped
  <2>2. 3 \in Nat \ {0} /\ n \in 0 .. Len(file) /\ 3 <= n + 1
    BY <1>1, <1>2, <1>4
  <2>3. AllKnown(SubSeq(file, 3, n)) /\ Len(SubSeq(file, 3, n)) = n - 3 + 1
    BY <1>2, <2>2, KnownPart, SubSeqSeq
  <2>4. n - 3 + 1 >= 2
    BY <1>1
  <2> QED
    BY <1>1, <2>1, <2>3, <2>4, DecBefore DEF DecTyped
<1> QED
  BY <1>3, <1>4

(***************************************************************************)
(* The output is opened and the MACs are compared: they are the same       *)
(* exactly when what was read is an image.                                 *)
(***************************************************************************)
LEMMA DecCreateStep ==
  ASSUME ToolsIInv, NEW d \in Decs, DecCreate(d), UNCHANGED enc
  PROVE  DecMoves(d) /\ DecTyped(d)' /\ DecRead(d)' /\ DecProgress(d)'
<1>1. PICK i : i = OpenedInode(dec[d].out)
  OBVIOUS
<1>2. /\ FilesOK /\ DecTyped(d) /\ DecRead(d) /\ DOMAIN dec = Decs /\ ~Judged(d)
      /\ dec[d].out \in Paths /\ OpenForWriting(d, dec[d].out)
      /\ Len(dec[d].head) = 2 /\ Len(dec[d].ct) >= 2 /\ dec[d].st.inode = Absent
  BY DEF ToolsIInv, DecCreate, DecRead, DecTyped
<1>3. Touches(d) /\ i \in 1 .. Len(data') /\ data'[i] = <<>> /\ hands'[i] = {d}
  BY <1>1, <1>2, CreateTouches
<1>4. /\ DecAlone(d) /\ dec'[d].path = dec[d].path /\ dec'[d].fd = dec[d].fd
      /\ dec'[d].head = dec[d].head /\ dec'[d].ct = dec[d].ct
      /\ dec'[d].pc = "verify" /\ dec'[d].st = Stream(i)
      /\ dec'[d].verdict = IF HmacOk(d) THEN "match" ELSE "mismatch"
  BY <1>1, <1>2 DEF DecCreate, DecAlone, DecTyped
<1>5. /\ DOMAIN Stream(i) = StreamFields
      /\ Stream(i).inode = i /\ Stream(i).off = 0 /\ Stream(i).buf = <<>>
  BY DEF Stream, StreamFields
<1>6. DecMoves(d) /\ Settled
  <2>1. DecMoves(d)
    BY <1>2, <1>3, <1>4, <1>5 DEF DecAlone, DecMoves
  <2> QED
    BY <2>1, MovesSettled
<1>7. DecTyped(d)'
  <2>1. (AllKnown(dec[d].head) /\ AllKnown(dec[d].ct) /\ AllKnown(dec[d].st.buf))'
    BY <1>2, <1>4, <1>5, <1>6, AllKnownKept, KnownShort DEF DecTyped
  <2>2. (StreamOK(dec[d].st))' /\ dec[d].fd \in 0 .. Len(data')
    BY <1>2, <1>3, <1>4, <1>5, FilesFacts, SeqShape DEF StreamOK, Touches, DecTyped
  <2> QED
    BY <1>2, <1>3, <1>4, <1>5, <2>1, <2>2 DEF DecTyped, DecAlone, Paths
<1>8. DecRead(d)'
  <2>1. HmacOk(d) <=> \E e \in Encs : Reads(d, e)
    BY <1>2, AcceptedIsImage, ImageIsAccepted DEF ToolsIInv
  <2>2. \A e \in Encs : Reads(d, e)' <=> Reads(d, e)
    BY <1>4 DEF DecAlone, Reads, BytesRead, Made, Image, Payload, EncKey
  <2>3. Judged(d)' /\ dec'[d].st.inode # Absent
    BY <1>3, <1>4, <1>5 DEF Judged, Absent
  <2> QED
    BY <1>2, <1>4, <2>1, <2>2, <2>3 DEF DecRead
<1>9. (Sent(d, dec[d].st, <<>>))'
  BY <1>3, <1>4, <1>5, ShortSeq, EmptyConcat DEF Sent
<1>10. DecProgress(d)'
  BY <1>4, <1>5, <1>9 DEF DecProgress
<1> QED
  BY <1>6, <1>7, <1>8, <1>10

(* What is compared is not touched by the steps that follow.               *)
LEMMA DecAfter ==
  ASSUME FilesOK, NEW d \in Decs, DecTyped(d), DecRead(d), Judged(d), DecAlone(d),
         Touches(d), Len(data') = Len(data),
         dec'[d].pc \in {"close", "exit0", "exit1", "rejected"},
         dec'[d].path = dec[d].path, dec'[d].fd = dec[d].fd,
         dec'[d].head = dec[d].head, dec'[d].ct = dec[d].ct,
         dec'[d].verdict = dec[d].verdict,
         DOMAIN dec'[d].st = StreamFields, dec'[d].st.inode = dec[d].st.inode,
         dec'[d].st.off \in Nat, AllKnown(dec'[d].st.buf)
  PROVE  /\ DecMoves(d) /\ DecTyped(d)' /\ DecRead(d)'
         /\ Written(d)' = Written(d)
<1>1. DecMoves(d) /\ Settled
  <2>1. DecMoves(d)
    BY DEF DecAlone, DecMoves
  <2> QED
    BY <2>1, MovesSettled
<1>2. (AllKnown(dec[d].head) /\ AllKnown(dec[d].ct) /\ AllKnown(dec[d].st.buf)
       /\ StreamOK(dec[d].st))'
  BY <1>1, AllKnownKept DEF DecTyped, StreamOK
<1>6. dec[d].st.inode # Absent => hands'[dec[d].st.inode] # {}
  BY FilesFacts, HandsStay DEF DecTyped, StreamOK, Absent
<1>3. DecTyped(d)'
  BY <1>2, <1>6 DEF DecTyped, DecAlone, Paths
<1>4. DecRead(d)'
  <2>1. \A e \in Encs : Reads(d, e)' <=> Reads(d, e)
    BY DEF DecAlone, Reads, BytesRead, Made, Image, Payload, EncKey
  <2>2. Judged(d)'
    BY DEF Judged
  <2> QED
    BY <2>1, <2>2 DEF DecRead
<1>5. Written(d)' = Written(d)
  BY DEF DecAlone, Written, PlainPart, PlainLen, Buffer, DecKey
<1> QED
  BY <1>1, <1>3, <1>4, <1>5

(* Plaintext and decoy are of known origin.                                *)
LEMMA KnownWritten ==
  ASSUME ToolsIInv, NEW d \in Decs, Judged(d)
  PROVE  AllKnown(Written(d))
<1>1. /\ DecTyped(d) /\ DecRead(d) /\ \A e \in Encs : EncTyped(e)
      /\ Len(dec[d].head) = 2 /\ Len(dec[d].ct) >= 2
  BY DEF ToolsIInv, DecRead
<1>2. CASE dec[d].verdict = "match"
  <2>1. PICK e \in Encs : Reads(d, e)
    BY <1>1, <1>2 DEF DecRead
  <2>2. PlainPart(d) = enc[e].plain
    BY <1>1, <2>1, ImageIsAccepted
  <2> QED
    BY <1>1, <1>2, <2>2 DEF Written, EncTyped
<1>3. CASE dec[d].verdict # "match"
  <2> DEFINE s == Written(d)
             n == PlainLen(d)
  <2>1. n \in Nat
    BY <1>1, BufferParts
  <2>2. s = [k \in 1 .. n |-> s[k]] /\ DOMAIN s = 1 .. n
    BY <1>3 DEF Written, Decoy
  <2>3. \A k \in 1 .. n : Known(s[k])
    BY <1>3, KnownPlain DEF Written, Decoy
  <2> HIDE DEF s, n
  <2>4. AllKnown(s)
    BY <2>1, <2>2, <2>3, FunctionSeq DEF AllKnown
  <2> QED
    BY <2>4 DEF s
<1> QED
  BY <1>2, <1>3

(* The fwrite of plaintext or decoy.                                       *)
LEMMA DecWriteStep ==
  ASSUME ToolsIInv, NEW d \in Decs, DecWrite(d), UNCHANGED enc
  PROVE  DecMoves(d) /\ DecTyped(d)' /\ DecRead(d)' /\ DecProgress(d)'
<1>1. PICK st, full, w : st = dec[d].st /\ full = [dec[d].st EXCEPT !.buf = Written(d)]
                         /\ w = Written(d)
  OBVIOUS
<1>2. /\ FilesOK /\ DecTyped(d) /\ DecRead(d) /\ DecProgress(d) /\ DOMAIN dec = Decs
      /\ dec[d].pc = "verify" /\ Judged(d) /\ UNCHANGED dir
  BY DEF ToolsIInv, DecWrite, DecRead
<1>3. PICK n \in 0 .. Len(full.buf) :
        /\ FlushData(d, full, n)
        /\ \/ dec' = [dec EXCEPT ![d].pc = "close", ![d].st = Flushed(full, n)]
           \/ dec' = [dec EXCEPT ![d].pc = "exit1", ![d].st = Flushed(full, n)]
  BY <1>1 DEF DecWrite
<1>4. /\ DecAlone(d) /\ dec'[d].path = dec[d].path /\ dec'[d].fd = dec[d].fd
      /\ dec'[d].head = dec[d].head /\ dec'[d].ct = dec[d].ct
      /\ dec'[d].verdict = dec[d].verdict /\ dec'[d].st = Flushed(full, n)
      /\ dec'[d].pc \in {"close", "exit1"}
  BY <1>2, <1>3 DEF DecAlone, DecTyped
<1>5. /\ st.inode \in 1 .. Len(data) /\ st.off = 0 /\ DOMAIN st = StreamFields
      /\ Sent(d, st, <<>>) /\ hands[st.inode] # {}
  BY <1>1, <1>2, FilesFacts DEF DecTyped, DecRead, DecProgress, StreamOK, Absent
<1>6. AllKnown(w) /\ IsSeq(w)
  BY <1>1, <1>2, KnownWritten DEF AllKnown
<1>7. /\ DOMAIN full = StreamFields /\ full.inode = st.inode /\ full.off = 0
      /\ full.buf = w
  BY <1>1, <1>5 DEF StreamFields
<1>8. /\ Touches(d) /\ Len(data') = Len(data)
      /\ \/ hands'[full.inode] = hands[full.inode]
         \/ hands'[full.inode] = hands[full.inode] \cup {d}
      /\ DOMAIN Flushed(full, n) = StreamFields
      /\ Flushed(full, n).inode = full.inode /\ Flushed(full, n).off \in Nat
      /\ AllKnown(Flushed(full, n).buf)
      /\ full.off = Len(data[full.inode]) =>
           /\ Flushed(full, n).off = Len(data'[full.inode])
           /\ data'[full.inode] \o Flushed(full, n).buf = data[full.inode] \o full.buf
  <2>1. FlushData(d, full, n) /\ d \in Encs \cup Decs
    BY <1>3
  <2>2. /\ FilesOK /\ UNCHANGED dir /\ full.inode \in 1 .. Len(data) /\ full.off \in Nat
        /\ AllKnown(full.buf) /\ DOMAIN full = StreamFields
    BY <1>2, <1>5, <1>6, <1>7
  <2> QED
    BY <2>1, <2>2, FlushTouches
<1>9. DecMoves(d) /\ DecTyped(d)' /\ DecRead(d)' /\ Written(d)' = w
  BY <1>1, <1>2, <1>4, <1>7, <1>8, DecAfter
<1>10. (Sent(d, dec[d].st, Written(d)))'
  <2>1. SoleWriter(d, st.inode)' => SoleWriter(d, st.inode)
    BY <1>5, <1>7, <1>8, SoleKept
  <2>2. SoleWriter(d, st.inode) => Len(data[st.inode]) = 0
    BY <1>5 DEF Sent
  <2>3. Len(data[st.inode]) = 0 => data[st.inode] = <<>>
    BY <1>2, <1>5, FilesFacts, ShortSeq, SameSeq DEF AllKnown
  <2>4. <<>> \o w = w
    BY <1>6, EmptyConcat
  <2>5. SoleWriter(d, st.inode)' =>
          /\ Flushed(full, n).off = Len(data'[st.inode])
          /\ data'[st.inode] \o Flushed(full, n).buf = w
    BY <1>7, <1>8, <2>1, <2>2, <2>3, <2>4
  <2> QED
    BY <1>4, <1>7, <1>8, <1>9, <2>5 DEF Sent, SoleWriter
<1>11. DecProgress(d)'
  BY <1>4, <1>10 DEF DecProgress
<1> QED
  BY <1>9, <1>11

(* A rejection, with or without the remove.                                *)
LEMMA DecRejectStep ==
  ASSUME ToolsIInv, NEW d \in Decs, DecReject(d), UNCHANGED enc
  PROVE  DecMoves(d) /\ DecTyped(d)' /\ DecRead(d)' /\ DecProgress(d)'
<1>1. /\ FilesOK /\ DecTyped(d) /\ DecRead(d) /\ DOMAIN dec = Decs /\ Judged(d)
      /\ UNCHANGED <<data, hands>>
  BY DEF ToolsIInv, DecReject, DecRead
<1>2. dir' \in [Paths -> 0 .. Len(data)]
  <2>1. dir \in [Paths -> 0 .. Len(data)] /\ Absent \in 0 .. Len(data)
    BY <1>1, FilesFacts DEF FilesOK, Absent
  <2> QED
    BY <2>1 DEF DecReject
<1>3. Touches(d)
  BY <1>1, <1>2, NothingTouched
<1>4. /\ DecAlone(d) /\ dec'[d].path = dec[d].path /\ dec'[d].fd = dec[d].fd
      /\ dec'[d].head = dec[d].head /\ dec'[d].ct = dec[d].ct
      /\ dec'[d].verdict = dec[d].verdict /\ dec'[d].st = dec[d].st
      /\ dec'[d].pc = "rejected"
  BY <1>1 DEF DecReject, Quit, DecAlone, DecTyped
<1>5. DecMoves(d) /\ DecTyped(d)' /\ DecRead(d)'
  BY <1>1, <1>3, <1>4, DecAfter DEF DecTyped, StreamOK
<1>6. DecProgress(d)'
  BY <1>4 DEF DecProgress
<1> QED
  BY <1>5, <1>6

(* The fclose.                                                             *)
LEMMA DecCloseStep ==
  ASSUME ToolsIInv, NEW d \in Decs, DecClose(d), UNCHANGED enc
  PROVE  DecMoves(d) /\ DecTyped(d)' /\ DecRead(d)' /\ DecProgress(d)'
<1>1. PICK st : st = dec[d].st
  OBVIOUS
<1>2. /\ FilesOK /\ DecTyped(d) /\ DecRead(d) /\ DecProgress(d) /\ DOMAIN dec = Decs
      /\ dec[d].pc = "close" /\ Judged(d) /\ UNCHANGED dir
  BY DEF ToolsIInv, DecClose, DecRead
<1>3. PICK n \in 0 .. Len(st.buf) :
        /\ FlushData(d, st, n)
        /\ dec' = [dec EXCEPT ![d].pc = "exit0",
                              ![d].st = Flushed(st, n),
                              ![d].lost = n < Len(st.buf)]
  BY <1>1 DEF DecClose
<1>4. /\ DecAlone(d) /\ dec'[d].path = dec[d].path /\ dec'[d].fd = dec[d].fd
      /\ dec'[d].head = dec[d].head /\ dec'[d].ct = dec[d].ct
      /\ dec'[d].verdict = dec[d].verdict /\ dec'[d].st = Flushed(st, n)
      /\ dec'[d].pc = "exit0" /\ dec'[d].lost = (n < Len(st.buf))
  BY <1>2, <1>3 DEF DecAlone, DecTyped
<1>5. /\ st.inode \in 1 .. Len(data) /\ st.off \in Nat /\ AllKnown(st.buf)
      /\ DOMAIN st = StreamFields /\ Len(st.buf) \in Nat
      /\ Sent(d, st, Written(d)) /\ hands[st.inode] # {}
  BY <1>1, <1>2, FilesFacts, SeqShape
     DEF DecTyped, DecRead, DecProgress, StreamOK, Absent, AllKnown
<1>6. /\ Touches(d) /\ Len(data') = Len(data)
      /\ hands'[st.inode] = hands[st.inode] \/ hands'[st.inode] = hands[st.inode] \cup {d}
      /\ DOMAIN Flushed(st, n) = StreamFields
      /\ Flushed(st, n).inode = st.inode /\ Flushed(st, n).off \in Nat
      /\ AllKnown(Flushed(st, n).buf)
      /\ n = Len(st.buf) => Flushed(st, n).buf = <<>>
      /\ st.off = Len(data[st.inode]) =>
           /\ Flushed(st, n).off = Len(data'[st.inode])
           /\ data'[st.inode] \o Flushed(st, n).buf = data[st.inode] \o st.buf
  <2>1. FlushData(d, st, n) /\ d \in Encs \cup Decs
    BY <1>3
  <2>2. FilesOK /\ UNCHANGED dir
    BY <1>2
  <2>3. st.inode \in 1 .. Len(data) /\ st.off \in Nat /\ AllKnown(st.buf)
        /\ DOMAIN st = StreamFields
    BY <1>5
  <2> QED
    BY <2>1, <2>2, <2>3, FlushTouches, Zenon
<1>7. DecMoves(d) /\ DecTyped(d)' /\ DecRead(d)' /\ Written(d)' = Written(d)
  BY <1>1, <1>2, <1>4, <1>6, DecAfter
<1>8. (Sent(d, dec[d].st, Written(d)))'
  <2>1. SoleWriter(d, st.inode)' => SoleWriter(d, st.inode)
    BY <1>5, <1>6, SoleKept
  <2>2. SoleWriter(d, st.inode)' =>
          /\ Flushed(st, n).off = Len(data'[st.inode])
          /\ data'[st.inode] \o Flushed(st, n).buf = Written(d)
    BY <1>5, <1>6, <2>1 DEF Sent
  <2> QED
    BY <1>4, <1>6, <1>7, <2>2 DEF Sent, SoleWriter
<1>9. dec'[d].lost \/ dec'[d].st.buf = <<>>
  <2>1. CASE n = Len(st.buf)
    BY <2>1, <1>4, <1>6
  <2>2. CASE n < Len(st.buf)
    BY <2>2, <1>4
  <2> QED
    BY <1>5, <2>1, <2>2
<1>10. DecProgress(d)'
  BY <1>4, <1>8, <1>9 DEF DecProgress
<1> QED
  BY <1>7, <1>10

(* An early return, before the output is opened or after.                  *)
LEMMA DecGiveUpStep ==
  ASSUME ToolsIInv, NEW d \in Decs, DecGiveUp(d), UNCHANGED enc
  PROVE  DecMoves(d) /\ DecTyped(d)' /\ DecRead(d)' /\ DecProgress(d)'
<1>1. /\ FilesOK /\ DecTyped(d) /\ DecRead(d) /\ DOMAIN dec = Decs /\ UNCHANGED fs
  BY DEF ToolsIInv, DecGiveUp
<1>2. /\ DecAlone(d) /\ dec'[d].path = dec[d].path /\ dec'[d].fd = dec[d].fd
      /\ dec'[d].head = dec[d].head /\ dec'[d].ct = dec[d].ct
      /\ dec'[d].verdict = dec[d].verdict /\ dec'[d].st = dec[d].st
      /\ dec'[d].pc = "exit1"
  BY <1>1 DEF DecGiveUp, Quit, DecAlone, DecTyped
<1>3. CASE ~Judged(d)
  BY <1>1, <1>2, <1>3, DecBefore DEF DecTyped
<1>4. CASE Judged(d)
  <2>1. Touches(d) /\ Len(data') = Len(data)
    BY <1>1, NothingTouched DEF fs, FilesOK
  <2>2. DecMoves(d) /\ DecTyped(d)' /\ DecRead(d)'
    BY <1>1, <1>2, <1>4, <2>1, DecAfter DEF DecTyped, StreamOK
  <2>3. DecProgress(d)'
    BY <1>2 DEF DecProgress
  <2> QED
    BY <2>2, <2>3
<1> QED
  BY <1>3, <1>4
-----------------------------------------------------------------------------
(* The start.                                                              *)

(* SetToSeq meets every element of a finite set once.                      *)
LEMMA SetAsSeq ==
  ASSUME NEW S, IsFiniteSet(S)
  PROVE  LET s == SetToSeq(S)
         IN  /\ Cardinality(S) \in Nat
             /\ s \in [1 .. Cardinality(S) -> S]
             /\ \A x \in S : \E n \in 1 .. Cardinality(S) : s[n] = x
<1> DEFINE N == Cardinality(S)
           s == SetToSeq(S)
<1>1. N \in Nat /\ ExistsBijection(1 .. N, S)
  BY FS_CardinalityType
<1>2. \E f \in [1 .. N -> S] : IsInjective(f)
  BY <1>1 DEF ExistsBijection, Bijection, Injection
<1>3. s \in [1 .. N -> S] /\ IsInjective(s)
  BY <1>2 DEF SetToSeq
<1>4. IsFiniteSet(1 .. N) /\ Cardinality(1 .. N) = N
  <2>1. 1 \in Int /\ N \in Int /\ (IF 1 > N THEN 0 ELSE N - 1 + 1) = N
    BY <1>1
  <2> HIDE DEF N
  <2> QED
    BY <2>1, FS_Interval
<1>5. s \in Surjection(1 .. N, S)
  <2>1. s \in Injection(1 .. N, S)
    BY <1>3 DEF Injection
  <2> HIDE DEF s
  <2> QED
    BY <1>4, <2>1, FS_Injection
<1> HIDE DEF s
<1>6. \A x \in S : \E n \in 1 .. N : s[n] = x
  BY <1>5 DEF Surjection
<1> QED
  BY <1>1, <1>3, <1>6 DEF s

(* The files of the start are in order.                                    *)
LEMMA StartFilesOK ==
  ASSUME NEW files \in StartFiles, Start(files) PROVE FilesOK
<1> DEFINE D  == DOMAIN files
           ps == SetToSeq(D)
           N  == Cardinality(D)
<1>1. /\ IsFiniteSet(D) /\ D \subseteq Paths
      /\ \A p \in D : AllKnown(files[p])
  <2>1. /\ IsFiniteSet(D) /\ D \subseteq Paths
        /\ \A p \in D : IsSeq(files[p])
        /\ \A p \in D : \A k \in DOMAIN files[p] : files[p][k] = Data(files[p][k].base[2])
    BY ToolsAssumption DEF IsSeq
  <2>2. \A p \in D : \A k \in DOMAIN files[p] : Known(files[p][k])
    BY <2>1, KnownPlain
  <2> QED
    BY <2>1, <2>2 DEF AllKnown
<1>2. /\ N \in Nat /\ ps \in [1 .. N -> D]
      /\ \A p \in D : \E n \in 1 .. N : ps[n] = p
  BY <1>1, SetAsSeq
<1>3. /\ data = [n \in DOMAIN ps |-> files[ps[n]]]
      /\ hands = [n \in DOMAIN ps |-> {}]
      /\ dir = [p \in Paths |-> IF p \in D THEN CHOOSE n \in DOMAIN ps : ps[n] = p
                                ELSE Absent]
  BY DEF Start
<1> HIDE DEF ps, N, D
<1>4. /\ data = [n \in 1 .. N |-> data[n]] /\ DOMAIN data = 1 .. N
      /\ \A n \in 1 .. N : AllKnown(data[n])
  BY <1>1, <1>2, <1>3
<1>5. IsSeq(data) /\ Len(data) = N
  BY <1>2, <1>4, FunctionSeq
<1>8. /\ IsSeq(hands) /\ Len(hands) = N
      /\ \A n \in 1 .. N : hands[n] \subseteq Encs \cup Decs
  <2>1. /\ hands = [n \in 1 .. N |-> hands[n]]
        /\ \A n \in 1 .. N : hands[n] \subseteq Encs \cup Decs
    BY <1>2, <1>3
  <2> QED
    BY <1>2, <2>1, FunctionSeq
<1>6. ASSUME NEW p \in D PROVE (CHOOSE n \in DOMAIN ps : ps[n] = p) \in 1 .. N
  BY <1>2
<1>7. dir \in [Paths -> 0 .. N]
  <2>1. dir = [p \in Paths |-> IF p \in D THEN CHOOSE n \in DOMAIN ps : ps[n] = p
                               ELSE Absent]
    BY <1>3
  <2>2. 1 .. N \subseteq 0 .. N /\ 0 \in 0 .. N
    BY <1>2
  <2> QED
    BY <1>6, <2>1, <2>2 DEF Absent
<1> QED
  BY <1>4, <1>5, <1>7, <1>8 DEF FilesOK

(* The invariant holds at the start.                                       *)
LEMMA StartIsInductive == Init => ToolsIInv
<1> SUFFICES ASSUME Init PROVE ToolsIInv
  OBVIOUS
<1>1. FilesOK
  BY StartFilesOK DEF Init
<1>2. /\ DOMAIN Stream(Absent) = StreamFields /\ Stream(Absent).inode = Absent
      /\ Stream(Absent).off = 0 /\ Stream(Absent).buf = <<>>
  BY DEF Stream, StreamFields
<1>3. AllKnown(<<>>) /\ Len(data) \in Nat
  BY <1>1, FilesFacts, KnownShort
<1>4. ASSUME NEW e \in Encs PROVE EncTyped(e) /\ EncSource(e) /\ EncProgress(e)
  <2>1. enc[e] \in EncStart
    BY DEF Init
  <2>2. PICK a \in EncArgs :
          enc[e] = [in |-> a.in, pw |-> a.pw, pc |-> "open", fd |-> Absent, len |-> 0,
                    plain |-> <<>>, todo |-> <<>>, out |-> Stream(Absent), lost |-> FALSE]
    BY <2>1 DEF EncStart
  <2>3. a.in \in Names /\ OutName(a.in) \in Paths
    BY ToolsAssumption
  <2>4. /\ DOMAIN enc[e] = {"in", "pw", "pc", "fd", "len", "plain", "todo", "out", "lost"}
        /\ enc[e].in = a.in /\ enc[e].pc = "open" /\ enc[e].fd = 0 /\ enc[e].len = 0
        /\ enc[e].plain = <<>> /\ enc[e].out = Stream(Absent)
    BY <2>2 DEF Absent
  <2>5. ~Made(e) /\ StreamOK(enc[e].out)
    BY <1>2, <1>3, <2>4 DEF Made, StreamOK, Absent
  <2>6. EncTyped(e)
    BY <1>2, <1>3, <2>3, <2>4, <2>5 DEF EncTyped
  <2>7. EncSource(e) /\ EncProgress(e)
    BY <2>4 DEF EncSource, EncProgress
  <2> QED
    BY <2>6, <2>7
<1>5. ASSUME NEW d \in Decs PROVE DecTyped(d) /\ DecRead(d) /\ DecProgress(d)
  <2>1. dec[d] \in DecStart
    BY DEF Init
  <2>2. PICK a \in DecArgs :
          dec[d] = [in |-> a.in, out |-> a.out, pw |-> a.pw, decoy |-> a.decoy,
                    pc |-> "resolve", path |-> a.in, fd |-> Absent, len |-> 0,
                    head |-> <<>>, ct |-> <<>>, verdict |-> "none",
                    st |-> Stream(Absent), lost |-> FALSE]
    BY <2>1 DEF DecStart
  <2>3. a.in \in Names /\ a.out \in Paths
    BY ToolsAssumption
  <2>4. /\ DOMAIN dec[d] = {"in", "out", "pw", "decoy", "pc", "path", "fd", "len",
                            "head", "ct", "verdict", "st", "lost"}
        /\ dec[d].in = a.in /\ dec[d].out = a.out /\ dec[d].path = a.in
        /\ dec[d].pc = "resolve" /\ dec[d].fd = 0 /\ dec[d].head = <<>>
        /\ dec[d].ct = <<>> /\ dec[d].verdict = "none" /\ dec[d].st = Stream(Absent)
    BY <2>2 DEF Absent
  <2>5. ~Judged(d) /\ StreamOK(dec[d].st)
    BY <1>2, <1>3, <2>4 DEF Judged, StreamOK, Absent
  <2>6. DecTyped(d)
    BY <1>2, <1>3, <2>3, <2>4, <2>5 DEF DecTyped, Paths
  <2>7. DecRead(d)
    BY <1>2, <2>4, <2>5 DEF DecRead
  <2>8. DecProgress(d)
    BY <2>4 DEF DecProgress
  <2> QED
    BY <2>6, <2>7, <2>8
<1> QED
  BY <1>1, <1>4, <1>5 DEF ToolsIInv, Init

-----------------------------------------------------------------------------
(* Every step.                                                             *)

(* Whoever moves keeps everybody's part of the invariant.                  *)
LEMMA EncMoveKeeps ==
  ASSUME ToolsIInv, NEW e \in Encs, EncMoves(e), EncTyped(e)', EncSource(e)',
         EncProgress(e)'
  PROVE  ToolsIInv'
<1>1. Settled /\ Touches(e) /\ FilesOK
  BY MovesSettled DEF EncMoves, ToolsIInv
<1>2. \A r : r # e => Aside(r)
  BY <1>1, OthersAside
<1>3. e \notin Decs
  BY ToolsAssumption
<1>4. FilesOK'
  BY <1>1, FilesAfter
<1>5. ASSUME NEW x \in Encs PROVE EncTyped(x)' /\ EncSource(x)' /\ EncProgress(x)'
  <2>1. CASE x = e
    BY <2>1
  <2>2. CASE x # e
    <3>1. EncTyped(x) /\ EncSource(x) /\ EncProgress(x) /\ enc'[x] = enc[x] /\ Aside(x)
      BY <1>2, <2>2 DEF ToolsIInv, EncMoves
    <3> QED
      BY <1>1, <3>1, EncUnmoved, SourceStays
  <2> QED
    BY <2>1, <2>2
<1>6. ASSUME NEW x \in Decs PROVE DecTyped(x)' /\ DecRead(x)' /\ DecProgress(x)'
  <2>1. DecTyped(x) /\ DecRead(x) /\ DecProgress(x) /\ dec'[x] = dec[x] /\ Aside(x)
    BY <1>2, <1>3 DEF ToolsIInv, EncMoves
  <2> QED
    BY <1>1, <2>1, DecUnmoved
<1>7. DOMAIN enc' = Encs /\ DOMAIN dec' = Decs
  BY DEF ToolsIInv, EncMoves
<1> QED
  BY <1>4, <1>5, <1>6, <1>7 DEF ToolsIInv

(* The same when a run of choidec moves.                                   *)
LEMMA DecMoveKeeps ==
  ASSUME ToolsIInv, NEW d \in Decs, DecMoves(d), DecTyped(d)', DecRead(d)', DecProgress(d)'
  PROVE  ToolsIInv'
<1>1. Settled /\ Touches(d) /\ FilesOK
  BY MovesSettled DEF DecMoves, ToolsIInv
<1>2. \A r : r # d => Aside(r)
  BY <1>1, OthersAside
<1>3. d \notin Encs
  BY ToolsAssumption
<1>4. FilesOK'
  BY <1>1, FilesAfter
<1>5. ASSUME NEW x \in Encs PROVE EncTyped(x)' /\ EncSource(x)' /\ EncProgress(x)'
  <2>1. EncTyped(x) /\ EncSource(x) /\ EncProgress(x) /\ enc'[x] = enc[x] /\ Aside(x)
    BY <1>2, <1>3 DEF ToolsIInv, DecMoves
  <2> QED
    BY <1>1, <2>1, EncUnmoved, SourceStays
<1>6. ASSUME NEW x \in Decs PROVE DecTyped(x)' /\ DecRead(x)' /\ DecProgress(x)'
  <2>1. CASE x = d
    BY <2>1
  <2>2. CASE x # d
    <3>1. DecTyped(x) /\ DecRead(x) /\ DecProgress(x) /\ dec'[x] = dec[x] /\ Aside(x)
      BY <1>2, <2>2 DEF ToolsIInv, DecMoves
    <3> QED
      BY <1>1, <3>1, DecUnmoved
  <2> QED
    BY <2>1, <2>2
<1>7. DOMAIN enc' = Encs /\ DOMAIN dec' = Decs
  BY DEF ToolsIInv, DecMoves
<1> QED
  BY <1>4, <1>5, <1>6, <1>7 DEF ToolsIInv

(* A step that changes nothing.                                            *)
LEMMA StutterKeeps == ToolsIInv /\ UNCHANGED vars => ToolsIInv'
<1> SUFFICES ASSUME ToolsIInv, UNCHANGED vars PROVE ToolsIInv'
  OBVIOUS
<1>1. dir' = dir /\ data' = data /\ hands' = hands /\ enc' = enc /\ dec' = dec
  BY DEF vars
<1>2. Settled /\ FilesOK
  BY <1>1 DEF Settled, ToolsIInv, Made
<1>3. Touches(Absent)
  BY <1>1, <1>2, NothingTouched DEF FilesOK
<1>4. \A r : Aside(r)
  BY <1>1 DEF Aside, SoleWriter
<1>5. FilesOK'
  BY <1>2, <1>3, FilesAfter
<1>6. ASSUME NEW x \in Encs PROVE EncTyped(x)' /\ EncSource(x)' /\ EncProgress(x)'
  <2>1. EncTyped(x) /\ EncSource(x) /\ EncProgress(x) /\ enc'[x] = enc[x] /\ Aside(x)
    BY <1>1, <1>4 DEF ToolsIInv
  <2> QED
    BY <1>2, <1>3, <2>1, EncUnmoved, SourceStays
<1>7. ASSUME NEW x \in Decs PROVE DecTyped(x)' /\ DecRead(x)' /\ DecProgress(x)'
  <2>1. DecTyped(x) /\ DecRead(x) /\ DecProgress(x) /\ dec'[x] = dec[x] /\ Aside(x)
    BY <1>1, <1>4 DEF ToolsIInv
  <2> QED
    BY <1>2, <1>3, <2>1, DecUnmoved
<1> QED
  BY <1>1, <1>5, <1>6, <1>7 DEF ToolsIInv

(* Every step of every run keeps the invariant.                            *)
LEMMA StepIsInductive == ToolsIInv /\ [Next]_vars => ToolsIInv'
<1> SUFFICES ASSUME ToolsIInv, [Next]_vars PROVE ToolsIInv'
  OBVIOUS
<1>1. ASSUME NEW e \in Encs, EncStep(e), UNCHANGED dec PROVE ToolsIInv'
  <2>1. EncMoves(e) /\ EncTyped(e)' /\ EncProgress(e)'
    <3>1. CASE EncOpen(e)
      BY <1>1, <3>1, EncOpenStep
    <3>2. CASE EncRead(e)
      BY <1>1, <3>2, EncReadStep
    <3>3. CASE EncCreate(e)
      BY <1>1, <3>3, EncCreateStep
    <3>4. CASE EncWrite(e)
      BY <1>1, <3>4, EncWriteStep
    <3>5. CASE EncClose(e)
      BY <1>1, <3>5, EncCloseStep
    <3>6. CASE EncGiveUp(e)
      BY <1>1, <3>6, EncGiveUpStep
    <3> QED
      BY <1>1, <3>1, <3>2, <3>3, <3>4, <3>5, <3>6 DEF EncStep
  <2> QED
    BY <1>1, <2>1, EncSourceStep, EncMoveKeeps
<1>2. ASSUME NEW d \in Decs, DecStep(d), UNCHANGED enc PROVE ToolsIInv'
  <2>1. DecMoves(d) /\ DecTyped(d)' /\ DecRead(d)' /\ DecProgress(d)'
    <3>1. CASE DecResolve(d)
      BY <1>2, <3>1, DecResolveStep
    <3>2. CASE DecOpen(d)
      BY <1>2, <3>2, DecOpenStep
    <3>3. CASE DecHeader(d)
      BY <1>2, <3>3, DecHeaderStep
    <3>4. CASE DecBody(d)
      BY <1>2, <3>4, DecBodyStep
    <3>5. CASE DecCreate(d)
      BY <1>2, <3>5, DecCreateStep
    <3>6. CASE DecWrite(d)
      BY <1>2, <3>6, DecWriteStep
    <3>7. CASE DecReject(d)
      BY <1>2, <3>7, DecRejectStep
    <3>8. CASE DecClose(d)
      BY <1>2, <3>8, DecCloseStep
    <3>9. CASE DecGiveUp(d)
      BY <1>2, <3>9, DecGiveUpStep
    <3> QED
      BY <1>2, <3>1, <3>2, <3>3, <3>4, <3>5, <3>6, <3>7, <3>8, <3>9 DEF DecStep
  <2> QED
    BY <2>1, DecMoveKeeps
<1>3. CASE UNCHANGED vars
  BY <1>3, StutterKeeps
<1> QED
  BY <1>1, <1>2, <1>3 DEF Next

(* So it always holds.                                                     *)
LEMMA ToolsInductive == Spec => []ToolsIInv
<1>1. Init => ToolsIInv
  BY StartIsInductive
<1>2. ToolsIInv /\ [Next]_vars => ToolsIInv'
  BY StepIsInductive
<1> QED
  BY <1>1, <1>2, PTL DEF Spec
-----------------------------------------------------------------------------
(***************************************************************************)
(* Directories name inodes that exist, and so do the streams of every run, *)
(* and plain_len of choi_dec.c does not pass below zero, whatever runs of  *)
(* the two mains there are and however they interleave.                    *)
(***************************************************************************)
THEOREM ToolsTypeCorrect == Spec => []TypeOK
<1>1. ToolsIInv => TypeOK
  <2> SUFFICES ASSUME ToolsIInv PROVE TypeOK
    OBVIOUS
  <2>1. FilesOK /\ dir \in [Paths -> 0 .. Len(data)]
    BY DEF ToolsIInv, FilesOK
  <2>2. hands \in [DOMAIN data -> SUBSET (Encs \cup Decs)]
    <3>1. /\ hands = [n \in 1 .. Len(data) |-> hands[n]] /\ DOMAIN data = 1 .. Len(data)
          /\ \A n \in 1 .. Len(data) : hands[n] \in SUBSET (Encs \cup Decs)
      BY <2>1, FilesFacts, SeqShape
    <3> QED
      BY <3>1
  <2>3. ASSUME NEW e \in Encs
        PROVE  /\ enc[e].pc \in {"open", "read", "create", "write", "exit0", "exit1"}
               /\ enc[e].fd \in 0 .. Len(data) /\ StreamOK(enc[e].out)
    BY DEF ToolsIInv, EncTyped
  <2>4. ASSUME NEW d \in Decs
        PROVE  /\ dec[d].pc \in {"resolve", "open", "header", "body", "create",
                                 "verify", "close", "exit0", "exit1", "rejected"}
               /\ dec[d].path \in Paths
               /\ dec[d].fd \in 0 .. Len(data) /\ StreamOK(dec[d].st)
               /\ dec[d].pc = "create" \/ dec[d].verdict # "none" =>
                    Len(dec[d].head) = 2 /\ PlainLen(d) >= 0
    <3>1. DecTyped(d) /\ DecRead(d)
      BY DEF ToolsIInv
    <3>2. Len(dec[d].ct) >= 2 => PlainLen(d) >= 0
      <4>1. Len(dec[d].ct) \in Nat
        BY <3>1, SeqShape DEF DecTyped, AllKnown
      <4> QED
        BY <4>1 DEF PlainLen
    <3> QED
      BY <3>1, <3>2 DEF DecTyped, DecRead, Judged
  <2> QED
    BY <2>1, <2>2, <2>3, <2>4 DEF TypeOK
<1> QED
  BY <1>1, ToolsInductive, PTL

(***************************************************************************)
(* The comparison of the MACs in choi_dec.c accepts what was read exactly  *)
(* when it is, unit for unit, the image that some run of choienc makes     *)
(* under the same password.                                                *)
(***************************************************************************)
THEOREM AcceptsExactlyImages == Spec => []AcceptsExactly
<1>1. ToolsIInv => AcceptsExactly
  BY DEF ToolsIInv, DecRead, Judged, AcceptsExactly
<1> QED
  BY <1>1, ToolsInductive, PTL

(***************************************************************************)
(* When choi_enc.c returns 0 and its fclose could flush, the output it     *)
(* alone wrote is the whole image of as many units as its input had when   *)
(* it was opened, and of the input itself if nobody wrote to that.         *)
(***************************************************************************)
THEOREM ImageIsComplete == Spec => []CompleteImage
<1>1. ToolsIInv => CompleteImage
  <2> SUFFICES ASSUME ToolsIInv, NEW e \in Encs, enc[e].pc = "exit0", ~enc[e].lost,
                      SoleWriter(e, enc[e].out.inode)
               PROVE  /\ data[enc[e].out.inode] = Image(e, enc[e].plain)
                      /\ Len(enc[e].plain) = enc[e].len
                      /\ hands[enc[e].fd] = {} => enc[e].plain = data[enc[e].fd]
    BY DEF CompleteImage
  <2>1. EncTyped(e) /\ EncSource(e) /\ EncProgress(e) /\ FilesOK
    BY DEF ToolsIInv
  <2>2. enc[e].out.inode \in 1 .. Len(data)
    BY <2>1, FilesFacts DEF EncTyped, StreamOK, Made, Absent
  <2>3. IsSeq(data[enc[e].out.inode])
    BY <2>1, <2>2, FilesFacts DEF AllKnown
  <2>4. enc[e].out.buf = <<>>
    BY <2>1 DEF EncProgress
  <2>5. data[enc[e].out.inode] \o <<>> = Image(e, enc[e].plain)
    BY <2>1, <2>4 DEF EncProgress, Sent
  <2> QED
    BY <2>1, <2>3, <2>5, EmptyConcat DEF EncSource
<1> QED
  BY <1>1, ToolsInductive, PTL

(***************************************************************************)
(* When choi_dec.c accepts, returns 0 and its fclose could flush, the      *)
(* output it alone wrote is the plaintext that choienc read.               *)
(***************************************************************************)
THEOREM PlaintextIsRecovered == Spec => []RecoversPlaintext
<1>1. ToolsIInv => RecoversPlaintext
  <2> SUFFICES ASSUME ToolsIInv, NEW d \in Decs, dec[d].pc = "exit0",
                      dec[d].verdict = "match", ~dec[d].lost,
                      SoleWriter(d, dec[d].st.inode)
               PROVE  \E e \in Encs : Reads(d, e) /\ data[dec[d].st.inode] = enc[e].plain
    BY DEF RecoversPlaintext
  <2>1. /\ DecTyped(d) /\ DecRead(d) /\ DecProgress(d) /\ FilesOK /\ Judged(d)
        /\ \A e \in Encs : EncTyped(e)
    BY DEF ToolsIInv, Judged
  <2>2. PICK e \in Encs : Reads(d, e)
    BY <2>1 DEF DecRead
  <2>3. Written(d) = enc[e].plain
    BY <2>1, <2>2, ImageIsAccepted DEF Written, DecRead
  <2>4. dec[d].st.inode \in 1 .. Len(data)
    BY <2>1, FilesFacts DEF DecTyped, DecRead, StreamOK, Absent
  <2>5. IsSeq(data[dec[d].st.inode])
    BY <2>1, <2>4, FilesFacts DEF AllKnown
  <2>6. dec[d].st.buf = <<>>
    BY <2>1 DEF DecProgress
  <2>7. data[dec[d].st.inode] \o <<>> = Written(d)
    BY <2>1, <2>6 DEF DecProgress, Sent
  <2>8. data[dec[d].st.inode] = enc[e].plain
    BY <2>3, <2>5, <2>7, EmptyConcat
  <2> QED
    BY <2>2, <2>8
<1> QED
  BY <1>1, ToolsInductive, PTL

(***************************************************************************)
(* The salt and the nonce that choi_enc.c draws for each file keep the     *)
(* keystreams apart: units on disk under a common pad hide the same unit.  *)
(***************************************************************************)
THEOREM PadsAreNotReused == Spec => []NoKeystreamReuse
<1>1. ToolsIInv => NoKeystreamReuse
  <2> SUFFICES ASSUME ToolsIInv, NEW n \in DOMAIN data, NEW m \in DOMAIN data,
                      NEW k \in DOMAIN data[n], NEW l \in DOMAIN data[m],
                      NEW p, p \in data[n][k].pads, p \in data[m][l].pads
               PROVE  data[n][k].base = data[m][l].base
    BY DEF NoKeystreamReuse
  <2>1. Known(data[n][k]) /\ Known(data[m][l])
    BY DEF ToolsIInv, FilesOK, AllKnown
  <2>2. PICK e \in Encs : \E j \in 1 .. Len(enc[e].plain) + 2 :
          p = <<EncKey(e), Nonce(e), j>> /\ data[n][k].base = Signed(e)[j].base
    BY <2>1 DEF Known
  <2>3. PICK f \in Encs : \E j \in 1 .. Len(enc[f].plain) + 2 :
          p = <<EncKey(f), Nonce(f), j>> /\ data[m][l].base = Signed(f)[j].base
    BY <2>1 DEF Known
  <2>4. Nonce(e) = Nonce(f)
    BY <2>2, <2>3
  <2>5. e = f
    BY <2>4 DEF Nonce, Unit
  <2> QED
    BY <2>2, <2>3, <2>4, <2>5
<1> QED
  BY <1>1, ToolsInductive, PTL
=============================================================================
