------------------------------ MODULE ChoiEnc -------------------------------
(***************************************************************************)
(* choienc <file>: the main of choi_enc.c, one process per member of Encs. *)
(* Work on local memory is part of the I/O step it follows.  A process     *)
(* that is killed is one that takes no more steps: its buffers never reach *)
(* a file.                                                                 *)
(***************************************************************************)
EXTENDS FileSystem

CONSTANTS Encs,        \* the runs of choienc
          EncArgs,     \* what they may be given: records [in, pw]
          NameMax      \* characters out_name has room for: 511

VARIABLE enc           \* run -> its state

EncStart ==
  {[in |-> a.in, pw |-> a.pw,
    pc |-> "open",
    fd |-> Absent, len |-> 0,      \* the input, and its ftell
    plain |-> <<>>,
    todo |-> <<>>,                 \* fwrites still to come
    out |-> Stream(Absent),
    lost |-> FALSE]                \* fclose could not flush
   : a \in EncArgs}

EncKey(e) == Key(enc[e].pw, Salt(e))

(***************************************************************************)
(* snprintf(out_name, 512, "%s%s", argv[1], ".choi").                      *)
(***************************************************************************)
OutName(p) == LET s == p \o Suffix IN SubSeq(s, 1, Min({Len(s), NameMax}))

(***************************************************************************)
(* payload = plain || HMAC(plain), xored in place with the keystream.      *)
(***************************************************************************)
Payload(e, plain) ==
  Transform(plain \o Mac(EncKey(e), plain), EncKey(e), Nonce(e))

(* The file a complete run makes of a plaintext. *)
Image(e, plain) == <<Salt(e), Nonce(e)>> \o Payload(e, plain)

PiecesNonceFirst(e, plain) ==                       \* mutant of Pieces
  <<<<Nonce(e)>>, <<Salt(e)>>, Payload(e, plain)>>

(* The three fwrites. *)
Pieces(e, plain) == <<<<Salt(e)>>, <<Nonce(e)>>, Payload(e, plain)>>

Exit(e, code) == enc' = [enc EXCEPT ![e].pc = code]

(***************************************************************************)
(* fopen, fseek and ftell of the input.                                    *)
(***************************************************************************)
EncOpen(e) ==
  /\ enc[e].pc = "open"
  /\ dir[enc[e].in] # Absent
  /\ enc' = [enc EXCEPT ![e].pc = "read",
                        ![e].fd = dir[enc[e].in],
                        ![e].len = Len(Content(enc[e].in))]
  /\ UNCHANGED fs

EncReadUnchecked(e) ==                              \* mutant of EncRead
  LET file == data[enc[e].fd]
  IN  /\ enc[e].pc = "read"
      /\ enc' = [enc EXCEPT ![e].pc = "create",
                            ![e].plain = SubSeq(file, 1, Min({enc[e].len, Len(file)}))]
      /\ UNCHANGED fs

(***************************************************************************)
(* malloc and fread of len bytes, whatever the file has become meanwhile.  *)
(***************************************************************************)
EncRead(e) ==
  LET file  == data[enc[e].fd]
      plain == SubSeq(file, 1, enc[e].len)
  IN  /\ enc[e].pc = "read"
      /\ IF Len(file) < enc[e].len
         THEN Exit(e, "exit1")
         ELSE enc' = [enc EXCEPT ![e].pc = "create", ![e].plain = plain]
      /\ UNCHANGED fs

(***************************************************************************)
(* fopen(out_name, "wb"); salt, nonce and payload are ready.               *)
(***************************************************************************)
EncCreate(e) ==
  LET name == OutName(enc[e].in)
  IN  /\ enc[e].pc = "create"
      /\ OpenForWriting(e, name)
      /\ enc' = [enc EXCEPT ![e].pc = "write",
                            ![e].out = Stream(OpenedInode(name)),
                            ![e].todo = Pieces(e, enc[e].plain)]

(***************************************************************************)
(* One fwrite.  It may leave any part of the stream's buffer unwritten and *)
(* succeed, or fail, when the stream is closed and the run gives up.       *)
(***************************************************************************)
EncWrite(e) ==
  LET full == [enc[e].out EXCEPT !.buf = @ \o Head(enc[e].todo)]
  IN  /\ enc[e].pc = "write" /\ enc[e].todo # <<>>
      /\ \E n \in 0 .. Len(full.buf) :
           /\ FlushData(e, full, n)
           /\ \/ enc' = [enc EXCEPT ![e].out = Flushed(full, n),
                                    ![e].todo = Tail(@)]
              \/ enc' = [enc EXCEPT ![e].out = Flushed(full, n),
                                    ![e].pc = "exit1"]
      /\ UNCHANGED dir

(***************************************************************************)
(* fclose(out), whose result is not looked at, and return 0.               *)
(***************************************************************************)
EncClose(e) ==
  LET st == enc[e].out
  IN  /\ enc[e].pc = "write" /\ enc[e].todo = <<>>
      /\ \E n \in 0 .. Len(st.buf) :
           /\ FlushData(e, st, n)
           /\ enc' = [enc EXCEPT ![e].out = Flushed(st, n),
                                 ![e].lost = n < Len(st.buf),
                                 ![e].pc = "exit0"]
      /\ UNCHANGED dir

(***************************************************************************)
(* The other early returns: a file that does not open, seek, tell or read, *)
(* memory or random bytes that are not to be had, a password that is not   *)
(* there.  Nothing was written.                                            *)
(***************************************************************************)
EncGiveUp(e) ==
  /\ enc[e].pc \in {"open", "read", "create"}
  /\ Exit(e, "exit1")
  /\ UNCHANGED fs

EncStep(e) == EncOpen(e) \/ EncRead(e) \/ EncCreate(e) \/ EncWrite(e)
              \/ EncClose(e) \/ EncGiveUp(e)
=============================================================================
