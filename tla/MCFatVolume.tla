---------------------------- MODULE MCFatVolume -----------------------------
(* The volume as an implementation of FileStore.                           *)
EXTENDS FatVolume

CONSTANTS fa, fb

SizesOf == [f \in Names |-> IF f = fa THEN {1, 5} ELSE {5}]
OffsetsOf == [f \in Names |-> IF f = fa THEN {0, 5} ELSE {}]

(* Between calls, the files are what f_read() would give.                  *)
Store ==
  INSTANCE FileStore WITH
    Contents <- 0 .. MaxFatCalls,
    files <- IF Idle THEN FilesNow ELSE before.files,
    handles <- IF Idle THEN HandlesNow ELSE before.handles,
    doing <- cur.call,
    full <- \A c \in Clusters : fat[c] # 0

(* Whatever the sectors, buffers and chains a call goes through, a file    *)
(* reads as what was written to it, a write is short only when the volume  *)
(* is full, and whenever the power fails, what was synchronised and not    *)
(* written over since is still there.                                      *)
ImplementsFiles == Store!Spec
=============================================================================
