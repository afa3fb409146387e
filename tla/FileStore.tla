------------------------------- MODULE FileStore -------------------------------
(***************************************************************************)
(* What the file system promises to the kernel: names refer to files, open *)
(* handles keep a file that was removed, a file holds what was last        *)
(* written to it, and after a restart the names and the files are as they  *)
(* were.  Filesys is shown to implement it.                                *)
(***************************************************************************)
EXTENDS Naturals, Sequences

CONSTANTS Name, Handle, File, Lengths, Val, NONE

VARIABLES
  dir,       \* Name -> File or NONE
  open,      \* Handle -> File or NONE
  contents   \* File -> sequence of blocks, or NONE when there is no such file

vars == <<dir, open, contents>>

Init ==
  /\ dir = [n \in Name |-> NONE]
  /\ open = [h \in Handle |-> NONE]
  /\ contents = [f \in File |-> NONE]

(* The files that names d or handles o refer to keep their contents. *)
Kept(d, o, c) ==
  [f \in File |->
     IF (\E n \in Name : d[n] = f) \/ (\E h \in Handle : o[h] = f) THEN c[f] ELSE NONE]

Create(n, f, len) ==
  /\ dir[n] = NONE /\ dir' = [dir EXCEPT ![n] = f]
  /\ contents[f] = NONE
  /\ contents' = [contents EXCEPT ![f] = [k \in 1..len |-> 0]]
  /\ UNCHANGED open

Remove(n) ==
  /\ dir[n] # NONE
  /\ dir' = [dir EXCEPT ![n] = NONE]
  /\ contents' = Kept(dir', open, contents)
  /\ UNCHANGED open

Open(n, h) ==
  /\ dir[n] # NONE /\ open[h] = NONE
  /\ open' = [open EXCEPT ![h] = dir[n]]
  /\ UNCHANGED <<dir, contents>>

Reopen(g, h) ==
  /\ open[g] # NONE /\ open[h] = NONE
  /\ open' = [open EXCEPT ![h] = open[g]]
  /\ UNCHANGED <<dir, contents>>

Close(h) ==
  /\ open[h] # NONE
  /\ open' = [open EXCEPT ![h] = NONE]
  /\ contents' = Kept(dir, open', contents)
  /\ UNCHANGED dir

Write(h, k, v) ==
  /\ open[h] # NONE /\ k \in DOMAIN contents[open[h]]
  /\ contents' = [contents EXCEPT ![open[h]][k] = v]
  /\ UNCHANGED <<dir, open>>

Restart ==
  /\ open' = [h \in Handle |-> NONE]
  /\ contents' = Kept(dir, open', contents)
  /\ UNCHANGED dir

Next ==
  \/ \E n \in Name : dir[n] = NONE /\ \E f \in File, len \in Lengths : Create(n, f, len)
  \/ \E n \in Name : Remove(n)
  \/ \E n \in Name, h \in Handle : Open(n, h)
  \/ \E g, h \in Handle : Reopen(g, h)
  \/ \E h \in Handle : Close(h)
  \/ \E h \in Handle : open[h] # NONE /\ \E k \in DOMAIN contents[open[h]], v \in Val : Write(h, k, v)
  \/ Restart

Spec == Init /\ [][Next]_vars
=============================================================================
