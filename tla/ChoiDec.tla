------------------------------ MODULE ChoiDec -------------------------------
(***************************************************************************)
(* choidec [--decoy] <in> <out>: the main of choi_dec.c, one process per   *)
(* member of Decs.  As in ChoiEnc, local work is part of the I/O step it   *)
(* follows and a killed process takes no more steps.                       *)
(***************************************************************************)
EXTENDS FileSystem

CONSTANTS Decs,        \* the runs of choidec
          DecArgs      \* what they may be given: [in, out, pw, decoy]

VARIABLE dec           \* run -> its state

DecStart ==
  {[in |-> a.in, out |-> a.out, pw |-> a.pw, decoy |-> a.decoy,
    pc |-> "resolve",
    path |-> a.in,                 \* input_path
    fd |-> Absent, len |-> 0,
    head |-> <<>>,                 \* salt and nonce
    ct |-> <<>>,                   \* the body, as read
    verdict |-> "none",            \* of the HMAC comparison
    st |-> Stream(Absent),
    lost |-> FALSE]                \* fclose could not flush
   : a \in DecArgs}

Quit(d, code) == dec' = [dec EXCEPT ![d].pc = code]

(***************************************************************************)
(* The buffer after choi_transform, in place, under the key derived from   *)
(* the password and the salt read; then the plaintext and the MAC in it.   *)
(***************************************************************************)
DecKey(d) == Key(dec[d].pw, dec[d].head[1])

Buffer(d) == Transform(dec[d].ct, DecKey(d), dec[d].head[2])

PlainLen(d)  == Len(dec[d].ct) - 2
PlainPart(d) == SubSeq(Buffer(d), 1, PlainLen(d))
MacPart(d)   == SubSeq(Buffer(d), PlainLen(d) + 1, Len(dec[d].ct))

HmacOkAlways(d) == TRUE                             \* mutant of HmacOk

HmacOk(d) == MacPart(d) = Mac(DecKey(d), PlainPart(d))

(***************************************************************************)
(* Unless the input is named *.choi, <in>.choi is tried; it is taken when  *)
(* it opens, which may fail for a file that is there.                      *)
(***************************************************************************)
DecResolve(d) ==
  LET longer == dec[d].in \o Suffix
  IN  /\ dec[d].pc = "resolve"
      /\ \E p \in {dec[d].in} \cup
                  (IF IsSuffix(Suffix, dec[d].in) \/ dir[longer] = Absent
                   THEN {} ELSE {longer}) :
           dec' = [dec EXCEPT ![d].pc = "open", ![d].path = p]
      /\ UNCHANGED fs

DecOpenShort(d) ==                                  \* mutant of DecOpen
  LET p == dec[d].path
  IN  /\ dec[d].pc = "open"
      /\ dir[p] # Absent
      /\ IF Len(Content(p)) < 2
         THEN Quit(d, "exit1")
         ELSE dec' = [dec EXCEPT ![d].pc = "header",
                                 ![d].fd = dir[p],
                                 ![d].len = Len(Content(p))]
      /\ UNCHANGED fs

(***************************************************************************)
(* fopen, fseek and ftell; a file of less than salt, nonce and MAC is      *)
(* turned away.                                                            *)
(***************************************************************************)
DecOpen(d) ==
  LET p == dec[d].path
  IN  /\ dec[d].pc = "open"
      /\ dir[p] # Absent
      /\ IF Len(Content(p)) < 4
         THEN Quit(d, "exit1")
         ELSE dec' = [dec EXCEPT ![d].pc = "header",
                                 ![d].fd = dir[p],
                                 ![d].len = Len(Content(p))]
      /\ UNCHANGED fs

DecHeader(d) ==
  LET file == data[dec[d].fd]
  IN  /\ dec[d].pc = "header"
      /\ IF Len(file) < 2
         THEN Quit(d, "exit1")
         ELSE dec' = [dec EXCEPT ![d].pc = "body",
                                 ![d].head = SubSeq(file, 1, 2)]
      /\ UNCHANGED fs

(***************************************************************************)
(* fread of the ct_len = file_len - 32 bytes that ftell promised.          *)
(***************************************************************************)
DecBody(d) ==
  LET file == data[dec[d].fd]
  IN  /\ dec[d].pc = "body"
      /\ IF Len(file) < dec[d].len
         THEN Quit(d, "exit1")
         ELSE dec' = [dec EXCEPT ![d].pc = "create",
                                 ![d].ct = SubSeq(file, 3, dec[d].len)]
      /\ UNCHANGED fs

(***************************************************************************)
(* fopen(output_arg, "wb"), before the MACs are compared.                  *)
(***************************************************************************)
DecCreate(d) ==
  /\ dec[d].pc = "create"
  /\ OpenForWriting(d, dec[d].out)
  /\ dec' = [dec EXCEPT ![d].pc = "verify",
                        ![d].st = Stream(OpenedInode(dec[d].out)),
                        ![d].verdict = IF HmacOk(d) THEN "match" ELSE "mismatch"]

(***************************************************************************)
(* The fwrite of the plaintext, or of the decoy made of the buffer.        *)
(***************************************************************************)
WrittenWithMac(d) == IF dec[d].verdict = "match" THEN Buffer(d)
                     ELSE Decoy(Buffer(d), PlainLen(d))  \* mutant of Written

Written(d) == IF dec[d].verdict = "match" THEN PlainPart(d)
              ELSE Decoy(Buffer(d), PlainLen(d))

DecWrite(d) ==
  LET full == [dec[d].st EXCEPT !.buf = Written(d)]
  IN  /\ dec[d].pc = "verify"
      /\ dec[d].verdict = "match" \/ dec[d].decoy
      /\ \E n \in 0 .. Len(full.buf) :
           /\ FlushData(d, full, n)
           /\ \/ dec' = [dec EXCEPT ![d].pc = "close",
                                    ![d].st = Flushed(full, n)]
              \/ dec' = [dec EXCEPT ![d].pc = "exit1",
                                    ![d].st = Flushed(full, n)]
      /\ UNCHANGED dir

(***************************************************************************)
(* Authentication failed: fclose, remove(output_arg), return 1.  The       *)
(* remove is of whatever the path names by now, and is not checked.        *)
(***************************************************************************)
DecReject(d) ==
  /\ dec[d].pc = "verify"
  /\ dec[d].verdict = "mismatch" /\ ~dec[d].decoy
  /\ dir' \in {dir, [dir EXCEPT ![dec[d].out] = Absent]}
  /\ Quit(d, "rejected")
  /\ UNCHANGED <<data, hands>>

(***************************************************************************)
(* fclose(out), whose result is not looked at, and return 0.               *)
(***************************************************************************)
DecClose(d) ==
  LET st == dec[d].st
  IN  /\ dec[d].pc = "close"
      /\ \E n \in 0 .. Len(st.buf) :
           /\ FlushData(d, st, n)
           /\ dec' = [dec EXCEPT ![d].pc = "exit0",
                                 ![d].st = Flushed(st, n),
                                 ![d].lost = n < Len(st.buf)]
      /\ UNCHANGED dir

(***************************************************************************)
(* The other early returns: a file that does not open, seek, tell or read, *)
(* memory that is not to be had (for the decoy, after the output was       *)
(* opened), a password that is not there.                                  *)
(***************************************************************************)
DecGiveUp(d) ==
  /\ \/ dec[d].pc \in {"resolve", "open", "header", "body", "create"}
     \/ dec[d].pc = "verify" /\ dec[d].verdict = "mismatch" /\ dec[d].decoy
  /\ Quit(d, "exit1")
  /\ UNCHANGED fs

DecStep(d) == DecResolve(d) \/ DecOpen(d) \/ DecHeader(d) \/ DecBody(d)
              \/ DecCreate(d) \/ DecWrite(d) \/ DecReject(d) \/ DecClose(d)
              \/ DecGiveUp(d)
=============================================================================
