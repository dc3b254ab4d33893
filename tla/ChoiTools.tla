----------------------------- MODULE ChoiTools ------------------------------
(***************************************************************************)
(* Runs of choienc and choidec, in any number, at the same time or after   *)
(* one another, over one file system.                                      *)
(***************************************************************************)
EXTENDS ChoiEnc, ChoiDec

CONSTANT StartFiles    \* a set of functions from some paths to their units

(***************************************************************************)
(* The runs are given names that exist, and at the start the files hold    *)
(* nothing but their users' data: an image that is there from before is    *)
(* one that a run of choienc made.                                         *)
(***************************************************************************)
ASSUME ToolsAssumption ==
  /\ Encs \cap Decs = {}
  /\ \A a \in EncArgs : a.in \in Names /\ OutName(a.in) \in Paths
  /\ \A a \in DecArgs : a.in \in Names /\ a.out \in Paths /\ a.decoy \in BOOLEAN
  /\ \A files \in StartFiles :
       /\ IsFiniteSet(DOMAIN files) /\ DOMAIN files \subseteq Paths
       /\ \A p \in DOMAIN files :
            LET file == files[p]
            IN  /\ file \in Seq(Range(file))
                /\ \A k \in DOMAIN file : file[k] = Data(file[k].base[2])

vars == <<dir, data, hands, enc, dec>>

Start(files) ==
  LET ps == SetToSeq(DOMAIN files)
  IN  /\ data = [n \in DOMAIN ps |-> files[ps[n]]]
      /\ hands = [n \in DOMAIN ps |-> {}]
      /\ dir = [p \in Paths |-> IF p \in DOMAIN files
                                THEN CHOOSE n \in DOMAIN ps : ps[n] = p
                                ELSE Absent]

Init == /\ \E files \in StartFiles : Start(files)
        /\ enc \in [Encs -> EncStart]
        /\ dec \in [Decs -> DecStart]

Exited == /\ \A e \in Encs : enc[e].pc \in {"exit0", "exit1"}
          /\ \A d \in Decs : dec[d].pc \in {"exit0", "exit1", "rejected"}

Next == \/ \E e \in Encs : EncStep(e) /\ UNCHANGED dec
        \/ \E d \in Decs : DecStep(d) /\ UNCHANGED enc
        \/ Exited /\ UNCHANGED vars

Spec == Init /\ [][Next]_vars

-----------------------------------------------------------------------------
StreamOK(st) == st.inode \in 0 .. Len(data) /\ st.off \in Nat

(* Directories name inodes that exist, and so do the streams of every run;  *)
(* and a choidec that goes on to decipher what it read holds a salt, a      *)
(* nonce and at least a MAC, so that ct_len - CHOI_HMAC_SIZE, computed in   *)
(* size_t, does not pass below zero, whatever happened to the file between  *)
(* the ftell that was looked at and the freads.                             *)
TypeOK ==
  /\ dir \in [Paths -> 0 .. Len(data)]
  /\ hands \in [DOMAIN data -> SUBSET (Encs \cup Decs)]
  /\ \A e \in Encs :
       /\ enc[e].pc \in {"open", "read", "create", "write", "exit0", "exit1"}
       /\ enc[e].fd \in 0 .. Len(data) /\ StreamOK(enc[e].out)
  /\ \A d \in Decs :
       /\ dec[d].pc \in {"resolve", "open", "header", "body", "create",
                         "verify", "close", "exit0", "exit1", "rejected"}
       /\ dec[d].path \in Paths
       /\ dec[d].fd \in 0 .. Len(data) /\ StreamOK(dec[d].st)
       /\ dec[d].pc = "create" \/ dec[d].verdict # "none" =>
            Len(dec[d].head) = 2 /\ PlainLen(d) >= 0

(* The image run e makes, once it has read its plaintext. *)
Made(e) == enc[e].out.inode # Absent

BytesRead(d) == dec[d].head \o dec[d].ct

Reads(d, e) == /\ Made(e)
               /\ BytesRead(d) = Image(e, enc[e].plain)
               /\ dec[d].pw = enc[e].pw

(* choidec accepts exactly the bytes of a complete image made under its     *)
(* password: not the prefix that a killed or failing choienc left, not a    *)
(* file caught between two runs that write it, not one under another        *)
(* password; and it turns no complete image under its password away.        *)
AcceptsExactly ==
  \A d \in Decs : dec[d].verdict # "none" =>
    (dec[d].verdict = "match" <=> \E e \in Encs : Reads(d, e))

(* Nobody else has written to the file since it was last empty.             *)
SoleWriter(run, inode) == hands[inode] = {run}

(* When choienc returns 0, its last flush went through and nobody else has  *)
(* written to its output since it was opened, the output is the whole image *)
(* of as many units as ftell counted in the input, though the input may be  *)
(* truncated before the fread; and these are the input, if no run of either *)
(* program ever wrote to it.  Of an input that is written to between the    *)
(* two calls the code promises no more.                                     *)
CompleteImage ==
  \A e \in Encs :
    enc[e].pc = "exit0" /\ ~enc[e].lost /\ SoleWriter(e, enc[e].out.inode) =>
      /\ data[enc[e].out.inode] = Image(e, enc[e].plain)
      /\ Len(enc[e].plain) = enc[e].len
      /\ hands[enc[e].fd] = {} => enc[e].plain = data[enc[e].fd]

(* When choidec accepts, returns 0, its last flush went through and nobody  *)
(* else has written to its output since it was opened, the output is the    *)
(* plaintext choienc read, unit for unit: over the file of an earlier run   *)
(* too, and over the image it was itself given as input.                    *)
RecoversPlaintext ==
  \A d \in Decs :
    /\ dec[d].pc = "exit0" /\ dec[d].verdict = "match" /\ ~dec[d].lost
    /\ SoleWriter(d, dec[d].st.inode)
    => \E e \in Encs : Reads(d, e) /\ data[dec[d].st.inode] = enc[e].plain

(* "Random salt and nonce ... prevents keystream reuse": wherever two units *)
(* on disk are under a common pad it is the same unit of plaintext that is  *)
(* under it, so their xor tells nothing of what was encrypted; over         *)
(* partial, mixed and repeatedly encrypted files, images of images too.     *)
NoKeystreamReuse ==
  \A n, m \in DOMAIN data : \A k \in DOMAIN data[n], l \in DOMAIN data[m] :
    data[n][k].pads \cap data[m][l].pads # {} => data[n][k].base = data[m][l].base

(***************************************************************************)
(* What the documentation says of the tools, each checked in a run of its  *)
(* own.                                                                    *)
(***************************************************************************)
(* "Default behaviour on HMAC mismatch: report failure and write nothing": *)
(* a file that was at the output path at the start (there is one start in  *)
(* the run that checks this, and nobody else writes there) is still there. *)
RejectionWritesNothing ==
  \A d \in Decs : dec[d].pc = "rejected" =>
    \A files \in StartFiles : dec[d].out \in DOMAIN files =>
      dir[dec[d].out] # Absent /\ Content(dec[d].out) = files[dec[d].out]

(* "Deterministic decoy for a given ciphertext, independent of the guessed *)
(* key ... every wrong key produces the same decoy".                       *)
DecoyIndependentOfKey ==
  \A c, d \in Decs :
    /\ dec[c].verdict = "mismatch" /\ dec[c].decoy
    /\ dec[d].verdict = "mismatch" /\ dec[d].decoy
    /\ BytesRead(c) = BytesRead(d)
    => Written(c) = Written(d)

(* "echo 'my_password' | ./choienc secret.txt  # creates secret.txt.choi"  *)
CreatesNamedFile ==
  \A e \in Encs : enc[e].pc = "exit0" =>
    dir[enc[e].in \o Suffix] # Absent /\ dir[enc[e].in \o Suffix] = enc[e].out.inode

(* "Failed to write output file", "Failed to write plaintext", and 1 is     *)
(* returned when units do not reach the image (choi_enc.c:116-125) or the   *)
(* output (choi_dec.c:143-149): so 0 says that they all did.                *)
ZeroMeansWritten ==
  /\ \A e \in Encs :
       enc[e].pc = "exit0" /\ SoleWriter(e, enc[e].out.inode) =>
         data[enc[e].out.inode] = Image(e, enc[e].plain)
  /\ \A d \in Decs :
       /\ dec[d].pc = "exit0" /\ dec[d].verdict = "match"
       /\ SoleWriter(d, dec[d].st.inode)
       => data[dec[d].st.inode] = PlainPart(d)
=============================================================================
