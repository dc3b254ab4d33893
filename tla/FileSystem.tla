----------------------------- MODULE FileSystem -----------------------------
(***************************************************************************)
(* The file system and the C library's streams, as choi_enc.c and          *)
(* choi_dec.c use them.  A path names an inode; fopen holds the inode, so  *)
(* a file that is truncated by another process shrinks under its readers,  *)
(* and a file that is removed lives on for those who have it open.         *)
(*                                                                         *)
(* A written stream holds back what it likes: what fwrite took reaches the *)
(* file at the latest in fclose, and may fail to.                          *)
(***************************************************************************)
EXTENDS Crypto, SequencesExt

CONSTANTS Names,       \* the paths users name on the command line
          Suffix       \* CHOI_SUFFIX; a path is a sequence of characters

Paths == Names \cup {p \o Suffix : p \in Names}
Absent == 0

VARIABLES dir,         \* path -> inode or Absent
          data,        \* inode -> sequence of units; grows, never reused
          hands        \* inode -> the runs that wrote since it was last empty

(* hands is a history variable: nothing the programs do depends on it.      *)
fs == <<dir, data, hands>>

Content(p) == data[dir[p]]

(***************************************************************************)
(* A run's fopen(p, "wb"): an existing file is emptied at once, another is *)
(* made.                                                                   *)
(***************************************************************************)
OpenForWriting(run, p) ==
  IF dir[p] = Absent
  THEN /\ data' = Append(data, <<>>)
       /\ hands' = Append(hands, {run})
       /\ dir' = [dir EXCEPT ![p] = Len(data) + 1]
  ELSE /\ data' = [data EXCEPT ![dir[p]] = <<>>]
       /\ hands' = [hands EXCEPT ![dir[p]] = {run}]
       /\ UNCHANGED dir

OpenedInode(p) == IF dir[p] = Absent THEN Len(data) + 1 ELSE dir[p]

(***************************************************************************)
(* A file after units were written to it at offset off: what lay beyond    *)
(* stays, and a gap, left by somebody's truncation, reads as zeros.        *)
(***************************************************************************)
Overwritten(file, off, units) ==
  [k \in 1 .. Max({Len(file), off + Len(units)}) |->
     IF k \in off + 1 .. off + Len(units) THEN units[k - off]
     ELSE IF k <= Len(file) THEN file[k] ELSE Zero]

(***************************************************************************)
(* A run's stream st = [inode, off, buf] puts the first n units of its     *)
(* buffer into the file.                                                   *)
(***************************************************************************)
Stream(n) == [inode |-> n, off |-> 0, buf |-> <<>>]

Flushed(st, n) == [st EXCEPT !.off = @ + n, !.buf = SubSeq(@, n + 1, Len(@))]

FlushData(run, st, n) ==
  IF n = 0 THEN UNCHANGED <<data, hands>>
  ELSE /\ data' = [data EXCEPT ![st.inode] =
                     Overwritten(@, st.off, SubSeq(st.buf, 1, n))]
       /\ hands' = [hands EXCEPT ![st.inode] = @ \cup {run}]
=============================================================================
