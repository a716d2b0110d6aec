---------------------------- MODULE MCFileLogger ----------------------------
(* The file logger as an implementation of LogStream.                      *)
EXTENDS FileLogger, SequencesExt

CONSTANTS t1, t2

(* What the logger task has in hand and did not copy: the whole message,   *)
(* or the rest of the one that overflowed the file buffer.                 *)
InHand ==
  CASE lpc = "copy" -> Units(text[logMsg])
    [] lpc = "write" -> LeftOver(left)
    [] OTHER -> <<>>

(* The messages queued.                                                    *)
Queued ==
  [i \in DOMAIN writeQ |->
     IF writeQ[i] = FlushRequest THEN <<>> ELSE Units(text[writeQ[i]])]

(* The stream in RAM.                                                      *)
Pending == (cache \o InHand) \o FlattenSeq(Queued)

(* The messages of c that were sent to the logger task.                    *)
Accepted ==
  [c \in Callers |-> IF c \in Tasks /\ pc[c] \in {"get", "format", "send"}
                     THEN calls[c] - 1 ELSE calls[c]]

(* The messages that the callers may log.                                  *)
LoggedMessage ==
  UNION {[by : {c}, n : 1 .. MaxCalls[c], len : 1 .. BufferSize] : c \in Callers}

Stream == INSTANCE LogStream WITH pending <- Pending, accepted <- Accepted, Message <- LoggedMessage,
                                  failed <- failures > 0

LengthsOf == [c \in Callers |-> CASE c = t1 -> {1, 2} [] c = t2 -> {2} [] c = Boot -> {1}]

CallsOf == [c \in Callers |-> IF c = t1 THEN 2 ELSE 1]
PrintCallsOf == [c \in Callers |-> IF c = t2 THEN 2 ELSE 1]

(* Whatever the interleaving of callers and logger task, the file is the   *)
(* stream of the logged messages: in order, complete, cut nowhere but      *)
(* where a write failed.                                                   *)
ImplementsStream == Stream!Spec
=============================================================================
