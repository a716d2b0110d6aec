----------------------------- MODULE LogStream ------------------------------
(***************************************************************************)
(* What the file logger promises (L3_Utils/file_logger.h), with no buffer, *)
(* queue or task: the messages of each caller reach the file in order, each *)
(* once, as a stream that may be cut anywhere between "in RAM" and "in the *)
(* file"; only a failed write loses part of the stream.                    *)
(***************************************************************************)
EXTENDS Integers, Sequences

CONSTANTS Callers, Message  \* Message: records with fields by, n, len

VARIABLES
  file,      \* the units stored in the file
  pending,   \* the units accepted and not yet stored
  accepted,  \* accepted[c] : how many messages of c were accepted
  failed     \* whether a write ever stored less than it was given

vars == <<file, pending, accepted, failed>>

(* A message of length n is n units; the last one is its newline.          *)
Units(m) == [i \in 1 .. m.len |-> <<m, i>>]

Init ==
  /\ file = <<>>
  /\ pending = <<>>
  /\ accepted = [c \in Callers |-> 0]
  /\ failed = FALSE

IsNext(m) == m.n = accepted[m.by] + 1

Accept(m) ==
  /\ IsNext(m)
  /\ pending' = pending \o Units(m)
  /\ accepted' = [accepted EXCEPT ![m.by] = @ + 1]
  /\ UNCHANGED <<file, failed>>

(* The first k pending units leave RAM and j of them reach the file.       *)
Store(k, j) ==
  /\ file' = file \o SubSeq(pending, 1, j)
  /\ pending' = SubSeq(pending, k + 1, Len(pending))
  /\ failed' = (failed \/ j < k)
  /\ UNCHANGED accepted

(* Before the RTOS runs, a message is written as it is logged.             *)
AcceptAndStore(m, j) ==
  /\ IsNext(m) /\ pending = <<>>
  /\ file' = file \o SubSeq(Units(m), 1, j)
  /\ accepted' = [accepted EXCEPT ![m.by] = @ + 1]
  /\ failed' = (failed \/ j < m.len)
  /\ UNCHANGED pending

Next ==
  \/ \E m \in Message : Accept(m)
  \/ \E k \in 1 .. Len(pending) : \E j \in 0 .. k : Store(k, j)
  \/ \E m \in Message : \E j \in 0 .. m.len : AcceptAndStore(m, j)

Spec == Init /\ [][Next]_vars
=============================================================================
