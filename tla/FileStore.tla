------------------------------ MODULE FileStore -------------------------------
(***************************************************************************)
(* What FatFs promises to the tasks that share a volume (ff.h), with no    *)
(* cluster, sector or buffer: files are sequences, calls are served one at *)
(* a time, and what was synchronised survives a restart.                   *)
(***************************************************************************)
EXTENDS Integers, Sequences

CONSTANTS Names, Contents  \* Contents: what a stretch finds on the disk

VARIABLES
  files,     \* a sequence for each file that exists
  handles,   \* the read/write pointer, and the right to write, of each open file
  doing,     \* the call in progress
  got,       \* what the f_read() that just returned has read
  kept,      \* what is safe in each file; Lost where it was written over since
  full       \* whether the volume has no free cluster

vars == <<files, handles, doing, got, kept>>

Lost == -1
NoCall == [op |-> "none"]

Least(x, y) == IF x < y THEN x ELSE y
Put(f, x, v) == [y \in DOMAIN f \cup {x} |-> IF y = x THEN v ELSE f[y]]
Without(f, x) == [y \in DOMAIN f \ {x} |-> f[y]]

(* s with n times v from the pointer at on.                                *)
Overwritten(s, at, n, v) ==
  [i \in 1 .. IF at + n > Len(s) THEN at + n ELSE Len(s) |->
     IF i \in at + 1 .. at + n THEN v ELSE s[i]]

(* What was safe in s once units at + 1 .. at + n are being written.       *)
Unsafe(s, at, n) == [i \in DOMAIN s |-> IF i \in at + 1 .. at + n THEN Lost ELSE s[i]]

Init ==
  /\ files = << >> /\ handles = << >> /\ kept = << >> /\ got = << >>
  /\ doing = NoCall

(* A call starts; what it may destroy is not safe any more.                *)
Begin(c) ==
  /\ doing = NoCall
  /\ doing' = c
  /\ kept' = CASE c.op \in {"create", "unlink"} -> Without(kept, c.f)
               [] c.op = "write" /\ c.f \in DOMAIN kept ->
                    Put(kept, c.f, Unsafe(kept[c.f], handles[c.f].pos, c.n))
               [] OTHER -> kept
  /\ got' = << >>
  /\ UNCHANGED <<files, handles>>

Return == doing' = NoCall

Open(f) ==
  /\ files' = CASE doing.op = "create" -> Put(files, f, << >>)
                [] doing.op = "openAlways" /\ f \notin DOMAIN files -> Put(files, f, << >>)
                [] OTHER -> files
  /\ handles' = IF f \in DOMAIN files' THEN Put(handles, f, [pos |-> 0, write |-> doing.op # "openExisting"])
                                       ELSE handles
  /\ UNCHANGED <<got, kept>>

(* Fewer units are written only when the volume is full.                   *)
Write(f, n, v) ==
  \E k \in 0 .. n :
    /\ k < n => full
    /\ files' = [files EXCEPT ![f] = Overwritten(@, handles[f].pos, k, v)]
    /\ handles' = [handles EXCEPT ![f].pos = @ + k]
    /\ UNCHANGED <<got, kept>>

Read(f, n) ==
  LET at == handles[f].pos
      to == Least(at + n, Len(files[f]))
  IN  /\ got' = SubSeq(files[f], at + 1, to)
      /\ handles' = [handles EXCEPT ![f].pos = to]
      /\ UNCHANGED <<files, kept>>

(* Beyond the end, a file that may be written is stretched over whatever   *)
(* the disk holds, as far as the volume allows.                            *)
Seek(f, ofs) ==
  LET end == Len(files[f])
      to  == IF handles[f].write THEN ofs ELSE Least(ofs, end)
  IN  \E pos \in 0 .. to :
        /\ pos < to => full /\ pos >= end
        /\ files' \in [DOMAIN files -> Seq(Contents)]
        /\ \A g \in DOMAIN files \ {f} : files'[g] = files[g]
        /\ Len(files'[f]) = IF pos > end THEN pos ELSE end
        /\ SubSeq(files'[f], 1, end) = files[f]
        /\ handles' = [handles EXCEPT ![f].pos = pos]
        /\ UNCHANGED <<got, kept>>

Sync(f) == kept' = Put(kept, f, files[f]) /\ UNCHANGED <<files, got>>

Unlink(f) == files' = Without(files, f) /\ UNCHANGED <<handles, got, kept>>

End ==
  /\ doing # NoCall /\ Return
  /\ LET f == doing.f
     IN  CASE doing.op \in {"create", "openAlways", "openExisting"} -> Open(f)
           [] doing.op = "write" -> Write(f, doing.n, doing.v)
           [] doing.op = "read" -> Read(f, doing.n)
           [] doing.op = "seek" -> Seek(f, doing.n)
           [] doing.op = "sync" -> Sync(f) /\ UNCHANGED handles
           [] doing.op = "close" -> Sync(f) /\ handles' = Without(handles, f)
           [] doing.op = "unlink" -> Unlink(f)

Safe(s, k) ==
  /\ Len(s) >= Len(k)
  /\ \A i \in DOMAIN k : k[i] \in {s[i], Lost}

(* The power fails, at any moment; the volume is mounted again.            *)
Restart ==
  /\ handles' = << >> /\ doing' = NoCall /\ got' = << >>
  /\ DOMAIN kept \subseteq DOMAIN files'
  /\ \A f \in DOMAIN kept : Safe(files'[f], kept[f])
  /\ UNCHANGED kept

Next ==
  \/ \E op \in {"create", "openAlways", "openExisting", "write", "read", "seek",
                "sync", "close", "unlink"}, f \in Names :
       doing'.op = op /\ doing'.f = f /\ Begin(doing')
  \/ End
  \/ Restart

Spec == Init /\ [][Next]_vars
=============================================================================
