--------------------------- MODULE StorageProofs ----------------------------
(***************************************************************************)
(* The file logger, for any number of tasks and of buffers; and the        *)
(* invariant of the volume under it, for any files, sizes of sectors and   *)
(* clusters, and any power failures, through the steps of its calls.       *)
(* Module VolumeProofs has what follows from it.                           *)
(*                                                                         *)
(* The logger: FlIInv says in which one hand each message buffer is, and   *)
(* StreamInv which message is in it, so that the file and what is in RAM,  *)
(* in the order in which the logger will copy it, are a LogStream.         *)
(*                                                                         *)
(* The volume: FatInv says which clusters are in the chain of each file,   *)
(* as sequences, and which are in a chain that is Nobody's, while a call   *)
(* frees it or has not linked it yet; that no two chains meet; that the    *)
(* FAT and the directory differ from the disk in the window only, so that  *)
(* what is on the disk is chains too; where each file's position is on its *)
(* chain and what its entry still says of it; and how far the call is.  A  *)
(* step changes one of the chains at one end (Family...) and one sector    *)
(* (Window...).                                                            *)
(***************************************************************************)
EXTENDS MCStorage, FiniteSetTheorems, SequenceTheorems, WellFoundedInduction, TLAPS

-----------------------------------------------------------------------------
(* The file logger.                                                        *)

-----------------------------------------------------------------------------
(* What a queue operation does to membership.                              *)

LEMMA AppendMembers ==
  ASSUME NEW S, NEW q \in Seq(S), NEW e \in S
  PROVE  /\ Append(q, e) \in Seq(S)
         /\ \A b : In(b, Append(q, e)) <=> In(b, q) \/ b = e
         /\ \A b : Once(b, q) /\ (b = e => ~ In(b, q)) => Once(b, Append(q, e))
<1> DEFINE r == Append(q, e)
<1>1. /\ r \in Seq(S) /\ Len(r) = Len(q) + 1 /\ Len(q) \in Nat
      /\ \A i \in 1 .. Len(q) : r[i] = q[i]
      /\ r[Len(q) + 1] = e
      /\ DOMAIN q = 1 .. Len(q) /\ DOMAIN r = 1 .. Len(q) + 1
  OBVIOUS
<1> HIDE DEF r
<1>2. \A b : In(b, r) <=> In(b, q) \/ b = e
  BY <1>1 DEF In
<1>3. ASSUME NEW b, Once(b, q), b = e => ~ In(b, q)
      PROVE  Once(b, r)
  <2> SUFFICES ASSUME NEW i \in DOMAIN r, NEW j \in DOMAIN r, r[i] = b, r[j] = b
               PROVE  i = j
    BY DEF Once
  <2>1. CASE i \in 1 .. Len(q) /\ j \in 1 .. Len(q)
    BY <1>1, <1>3, <2>1 DEF Once
  <2>2. CASE i = Len(q) + 1 /\ j \in 1 .. Len(q)
    BY <1>1, <1>3, <2>2 DEF In
  <2>3. CASE j = Len(q) + 1 /\ i \in 1 .. Len(q)
    BY <1>1, <1>3, <2>3 DEF In
  <2> QED BY <1>1, <2>1, <2>2, <2>3
<1> QED BY <1>1, <1>2, <1>3 DEF r

LEMMA TailMembers ==
  ASSUME NEW S, NEW q \in Seq(S), q # <<>>
  PROVE  /\ Tail(q) \in Seq(S) /\ Head(q) \in S
         /\ In(Head(q), q)
         /\ \A b : In(b, Tail(q)) => In(b, q)
         /\ \A b : In(b, q) /\ b # Head(q) => In(b, Tail(q))
         /\ \A b : Once(b, q) => Once(b, Tail(q))
         /\ Once(Head(q), q) => ~ In(Head(q), Tail(q))
<1> DEFINE r == Tail(q)  h == Head(q)
<1>1. /\ r \in Seq(S) /\ Len(r) = Len(q) - 1 /\ Len(q) \in Nat \ {0} /\ h \in S
      /\ \A i \in 1 .. (Len(q) - 1) : r[i] = q[i + 1]
      /\ h = q[1]
      /\ DOMAIN q = 1 .. Len(q) /\ DOMAIN r = 1 .. (Len(q) - 1)
  OBVIOUS
<1> HIDE DEF r, h
<1>2. In(h, q)
  BY <1>1 DEF In
<1>3. ASSUME NEW b, In(b, r)
      PROVE  In(b, q)
  <2>1. PICK i \in 1 .. (Len(q) - 1) : r[i] = b
    BY <1>1, <1>3 DEF In
  <2>2. i + 1 \in DOMAIN q /\ q[i + 1] = b
    BY <1>1, <2>1
  <2> QED BY <2>2 DEF In
<1>4. ASSUME NEW b, In(b, q), b # h
      PROVE  In(b, r)
  <2>1. PICK i \in 1 .. Len(q) : q[i] = b
    BY <1>1, <1>4 DEF In
  <2>2. i # 1
    BY <1>1, <1>4, <2>1
  <2>3. i - 1 \in DOMAIN r /\ r[i - 1] = b
    BY <1>1, <2>1, <2>2
  <2> QED BY <2>3 DEF In
<1>5. ASSUME NEW b, Once(b, q)
      PROVE  Once(b, r)
  <2> SUFFICES ASSUME NEW i \in DOMAIN r, NEW j \in DOMAIN r, r[i] = b, r[j] = b
               PROVE  i = j
    BY DEF Once
  <2>1. /\ i + 1 \in DOMAIN q /\ j + 1 \in DOMAIN q
        /\ q[i + 1] = b /\ q[j + 1] = b
    BY <1>1
  <2>2. i + 1 = j + 1
    BY <1>5, <2>1 DEF Once
  <2> QED BY <1>1, <2>2
<1>6. ASSUME Once(h, q), In(h, r)
      PROVE  FALSE
  <2>1. PICK i \in 1 .. (Len(q) - 1) : r[i] = h
    BY <1>1, <1>6 DEF In
  <2>2. i + 1 \in DOMAIN q /\ q[i + 1] = h /\ 1 \in DOMAIN q /\ q[1] = h
    BY <1>1, <2>1
  <2>3. i + 1 = 1
    BY <1>6, <2>2 DEF Once
  <2> QED BY <2>1, <2>3
<1> QED BY <1>1, <1>2, <1>3, <1>4, <1>5, <1>6 DEF r, h

-----------------------------------------------------------------------------
(* Lengths of the pieces of a message.                                     *)

LEMMA UnitsFacts ==
  ASSUME NEW m \in Text
  PROVE  /\ m.len \in 0 .. BufferSize
         /\ Units(m) \in Seq(Text \X Nat)
         /\ Len(Units(m)) = m.len
<1>1. m.len \in 0 .. BufferSize
  <2>1. CASE m = NoMessage
    BY <2>1, LoggerAssumption DEF NoMessage
  <2>2. CASE m \in Message
    <3>1. m.len \in 1 .. BufferSize
      BY <2>2 DEF Message
    <3> QED BY <3>1
  <2>3. m = NoMessage \/ m \in Message
    BY DEF Text
  <2> QED BY <2>1, <2>2, <2>3
<1>2. Units(m) \in [1 .. m.len -> Text \X Nat]
  BY <1>1, LoggerAssumption DEF Units
<1> QED BY <1>1, <1>2, LoggerAssumption DEF Units

LEMMA ConcatFacts ==
  ASSUME NEW S, NEW s \in Seq(S), NEW u \in Seq(S)
  PROVE  s \o u \in Seq(S) /\ Len(s \o u) = Len(s) + Len(u)
  OBVIOUS

LEMMA PieceFacts ==
  ASSUME NEW S, NEW s \in Seq(S), NEW n \in 0 .. Len(s)
  PROVE  /\ FirstUnits(s, n) \in Seq(S) /\ Len(FirstUnits(s, n)) = n
         /\ LastUnits(s, n) \in Seq(S) /\ Len(LastUnits(s, n)) = n
<1>1. FirstUnits(s, n) \in Seq(S) /\ Len(FirstUnits(s, n)) = n
  BY SubSeqProperties DEF FirstUnits
<1>2. LastUnits(s, n) \in Seq(S) /\ Len(LastUnits(s, n)) = n
  <2>1. Len(s) \in Nat /\ Len(s) - n + 1 \in 1 .. (Len(s) + 1)
    OBVIOUS
  <2> QED BY <2>1, SubSeqProperties DEF LastUnits
<1> QED BY <1>1, <1>2

-----------------------------------------------------------------------------
(* Steps of the callers.                                                   *)

LEMMA InitInv == FlInit => FlIInv
<1> SUFFICES ASSUME FlInit PROVE FlIInv
  OBVIOUS
<1>1. FlTypeOK
  <2>1. empty \in Seq(Buffers)
    BY LoggerAssumption DEF FlInit
  <2>2. text \in [Buffers -> Text] /\ msg \in [Tasks -> Text]
    BY DEF FlInit, Text
  <2>3. calls \in [Callers -> Nat]
    BY DEF FlInit
  <2>4. cache \in Seq(Text \X Nat) /\ file \in Seq(Text \X Nat)
    BY DEF FlInit
  <2>5. writeQ \in Seq(Buffers \cup {FlushRequest})
    BY DEF FlInit
  <2>6. /\ pc \in [Tasks -> {"idle", "get", "format", "send", "print"}]
        /\ buffer \in [Tasks -> Buffers \cup {NoBuffer}]
        /\ \A t \in Tasks : pc[t] = "idle"
    BY DEF FlInit
  <2>7. osRunning \in BOOLEAN /\ flushes \in Nat /\ failures \in Nat /\ left \in Nat
    BY DEF FlInit
  <2>8. lpc = "receive" /\ logMsg = NoBuffer
    BY DEF FlInit
  <2> QED BY <2>1, <2>2, <2>3, <2>4, <2>5, <2>6, <2>7, <2>8 DEF FlTypeOK, InFlight, LoggerHolds
<1>2. NoSharing /\ NothingLeaked
  <2>1. \A b : ~ In(b, writeQ) /\ Once(b, writeQ) /\ ~ LoggerHas(b)
    BY DEF FlInit, In, Once, LoggerHas, LoggerHolds
  <2>2. \A t \in Tasks : \A b : ~ Holds(t, b)
    BY DEF FlInit, Holds, InFlight
  <2> QED BY <2>1, <2>2 DEF FlInit, NoSharing, NothingLeaked
<1>3. QuietBeforeOs /\ CacheFits /\ LeftFits
  <2>1. BufferSize \in Nat /\ BufferSize > 0
    BY LoggerAssumption
  <2>2. Len(cache) = 0 /\ lpc = "receive" /\ writeQ = <<>> /\ \A t \in Tasks : pc[t] = "idle"
    BY DEF FlInit
  <2> QED BY <2>1, <2>2 DEF QuietBeforeOs, CacheFits, LeftFits
<1> QED BY <1>1, <1>2, <1>3 DEF FlIInv

LEMMA StartSchedulerInv == FlIInv /\ StartScheduler => FlIInv'
  BY DEF StartScheduler, FlIInv, taskVars, loggerVars, FlTypeOK, NoSharing, NothingLeaked,
         QuietBeforeOs, CacheFits, LeftFits, Holds, InFlight, LoggerHas, LoggerHolds, In, Once

LEMMA LogInv ==
  ASSUME NEW t \in Tasks, NEW len \in 1 .. BufferSize, FlIInv, Log(t, len)
  PROVE  FlIInv'
<1> USE DEF FlIInv, Log, loggerVars
<1>1. FlTypeOK'
  <2>1. t \in Callers /\ calls[t] + 1 \in Nat \ {0}
    BY DEF FlTypeOK, Callers
  <2>2. [by |-> t, n |-> calls[t] + 1, len |-> len] \in Message
    BY <2>1 DEF Message
  <2>3. msg' \in [Tasks -> Text] /\ \A u \in Tasks : pc'[u] # "idle" => msg'[u] \in Message
    BY <2>2 DEF FlTypeOK, Text
  <2>4. calls' \in [Callers -> Nat]
    BY <2>1 DEF FlTypeOK
  <2>5. /\ pc' \in [Tasks -> {"idle", "get", "format", "send", "print"}]
        /\ \A u \in Tasks : InFlight(u)' => buffer'[u] \in Buffers
    BY DEF FlTypeOK, InFlight
  <2> QED BY <2>3, <2>4, <2>5 DEF FlTypeOK, LoggerHolds
<1>2. \A u \in Tasks, b \in Buffers : Holds(u, b)' <=> Holds(u, b)
  BY DEF Holds, InFlight, FlTypeOK
<1>3. \A b \in Buffers : LoggerHas(b)' <=> LoggerHas(b)
  BY DEF LoggerHas, LoggerHolds
<1>4. NoSharing' /\ NothingLeaked'
  BY <1>2, <1>3 DEF NoSharing, NothingLeaked
<1>5. QuietBeforeOs' /\ CacheFits' /\ LeftFits'
  BY DEF QuietBeforeOs, CacheFits, LeftFits
<1> QED BY <1>1, <1>4, <1>5

LEMMA GetBufferInv == ASSUME NEW t \in Tasks, FlIInv, GetBuffer(t) PROVE FlIInv'
<1> USE DEF FlIInv, GetBuffer, loggerVars
<1> DEFINE h == Head(empty)
<1>1. /\ empty' \in Seq(Buffers) /\ h \in Buffers /\ In(h, empty)
      /\ \A b \in Buffers : In(b, empty') => In(b, empty)
      /\ \A b \in Buffers : In(b, empty) /\ b # h => In(b, empty')
      /\ \A b \in Buffers : Once(b, empty) => Once(b, empty')
      /\ Once(h, empty) => ~ In(h, empty')
  BY TailMembers DEF FlTypeOK
<1>2. FlTypeOK'
  <2>1. /\ pc' \in [Tasks -> {"idle", "get", "format", "send", "print"}]
        /\ buffer' \in [Tasks -> Buffers \cup {NoBuffer}]
        /\ \A u \in Tasks : InFlight(u)' => buffer'[u] \in Buffers
        /\ \A u \in Tasks : pc'[u] # "idle" => msg'[u] \in Message
    BY <1>1 DEF FlTypeOK, InFlight
  <2> QED BY <1>1, <2>1 DEF FlTypeOK, LoggerHolds
<1>3. \A u \in Tasks, b \in Buffers :
        Holds(u, b)' <=> IF u = t THEN b = h ELSE Holds(u, b)
  BY DEF Holds, InFlight, FlTypeOK
<1>4. \A b \in Buffers : ~ Holds(t, b)
  BY DEF Holds, InFlight
<1>5. \A b \in Buffers : LoggerHas(b)' <=> LoggerHas(b)
  BY DEF LoggerHas, LoggerHolds
<1>6. NoSharing' /\ NothingLeaked'
  BY <1>1, <1>3, <1>4, <1>5 DEF NoSharing, NothingLeaked
<1>7. QuietBeforeOs' /\ CacheFits' /\ LeftFits'
  BY DEF QuietBeforeOs, CacheFits, LeftFits
<1> QED BY <1>2, <1>6, <1>7

LEMMA FormatInv == ASSUME NEW t \in Tasks, FlIInv, Format(t) PROVE FlIInv'
<1> USE DEF FlIInv, Format, loggerVars
<1>1. FlTypeOK'
  <2>1. /\ pc' \in [Tasks -> {"idle", "get", "format", "send", "print"}]
        /\ text' \in [Buffers -> Text]
        /\ \A u \in Tasks : InFlight(u)' => buffer'[u] \in Buffers
        /\ \A u \in Tasks : pc'[u] # "idle" => msg'[u] \in Message
    BY DEF FlTypeOK, InFlight
  <2> QED BY <2>1 DEF FlTypeOK, LoggerHolds
<1>2. \A u \in Tasks, b \in Buffers : Holds(u, b)' <=> Holds(u, b)
  BY DEF Holds, InFlight, FlTypeOK
<1>3. \A b \in Buffers : LoggerHas(b)' <=> LoggerHas(b)
  BY DEF LoggerHas, LoggerHolds
<1>4. NoSharing' /\ NothingLeaked'
  BY <1>2, <1>3 DEF NoSharing, NothingLeaked
<1>5. QuietBeforeOs' /\ CacheFits'
  BY DEF QuietBeforeOs, CacheFits
<1>6. LeftFits'
  <2> SUFFICES ASSUME lpc = "write"
               PROVE  text'[logMsg] = text[logMsg]
    BY DEF LeftFits
  <2>1. logMsg \in Buffers /\ LoggerHas(logMsg)
    BY DEF FlTypeOK, LoggerHolds, LoggerHas
  <2>2. buffer[t] \in Buffers /\ Holds(t, buffer[t])
    BY DEF FlTypeOK, InFlight, Holds
  <2>3. buffer[t] # logMsg
    BY <2>1, <2>2 DEF NoSharing
  <2> QED BY <2>1, <2>2, <2>3 DEF FlTypeOK
<1> QED BY <1>1, <1>4, <1>5, <1>6

LEMMA SendBufferInv == ASSUME NEW t \in Tasks, FlIInv, SendBuffer(t) PROVE FlIInv'
<1> USE DEF FlIInv, SendBuffer, Return, loggerVars
<1> DEFINE h == buffer[t]
<1>1. h \in Buffers /\ Holds(t, h)
  BY DEF FlTypeOK, InFlight, Holds
<1>2. ~ In(h, writeQ) /\ ~ In(h, empty) /\ ~ LoggerHas(h)
  BY <1>1 DEF NoSharing
<1>3. /\ writeQ' \in Seq(Buffers \cup {FlushRequest})
      /\ \A b : In(b, writeQ') <=> In(b, writeQ) \/ b = h
      /\ \A b : Once(b, writeQ) /\ (b = h => ~ In(b, writeQ)) => Once(b, writeQ')
  <2> DEFINE S == Buffers \cup {FlushRequest}
  <2>1. writeQ \in Seq(S) /\ h \in S /\ writeQ' = Append(writeQ, h)
    BY <1>1 DEF FlTypeOK
  <2> HIDE DEF S, h
  <2>2. /\ Append(writeQ, h) \in Seq(S)
        /\ \A b : In(b, Append(writeQ, h)) <=> In(b, writeQ) \/ b = h
        /\ \A b : Once(b, writeQ) /\ (b = h => ~ In(b, writeQ)) => Once(b, Append(writeQ, h))
    BY <2>1, AppendMembers
  <2> QED BY <2>1, <2>2 DEF S
<1>4. FlTypeOK'
  <2>1. /\ pc' \in [Tasks -> {"idle", "get", "format", "send", "print"}]
        /\ buffer' \in [Tasks -> Buffers \cup {NoBuffer}]
    BY DEF FlTypeOK
  <2>2. /\ \A u \in Tasks : InFlight(u)' => buffer'[u] \in Buffers
        /\ \A u \in Tasks : pc'[u] # "idle" => msg'[u] \in Message
    BY DEF FlTypeOK, InFlight
  <2>3. msg' \in [Tasks -> Text]
    BY DEF FlTypeOK, Text
  <2> QED BY <1>3, <2>1, <2>2, <2>3 DEF FlTypeOK, LoggerHolds
<1>5. \A u \in Tasks, b \in Buffers : Holds(u, b)' <=> u # t /\ Holds(u, b)
  BY DEF Holds, InFlight, FlTypeOK
<1>6. \A b \in Buffers : LoggerHas(b)' <=> LoggerHas(b)
  BY DEF LoggerHas, LoggerHolds
<1>7. \A b \in Buffers : Holds(t, b) => b = h
  BY DEF Holds
<1>8. NoSharing'
  BY <1>1, <1>2, <1>3, <1>5, <1>6 DEF NoSharing
<1>9. NothingLeaked'
  BY <1>3, <1>5, <1>6, <1>7 DEF NothingLeaked
<1>10. QuietBeforeOs' /\ CacheFits' /\ LeftFits'
  BY DEF QuietBeforeOs, CacheFits, LeftFits
<1> QED BY <1>4, <1>8, <1>9, <1>10

LEMMA PrintMessageInv == ASSUME NEW t \in Tasks, FlIInv, PrintMessage(t) PROVE FlIInv'
<1> USE DEF FlIInv, PrintMessage, Return, loggerVars
<1>1. FlTypeOK'
  <2>1. /\ pc' \in [Tasks -> {"idle", "get", "format", "send", "print"}]
        /\ buffer' \in [Tasks -> Buffers \cup {NoBuffer}]
    BY DEF FlTypeOK
  <2>2. /\ \A u \in Tasks : InFlight(u)' => buffer'[u] \in Buffers
        /\ \A u \in Tasks : pc'[u] # "idle" => msg'[u] \in Message
    BY DEF FlTypeOK, InFlight
  <2>3. msg' \in [Tasks -> Text]
    BY DEF FlTypeOK, Text
  <2> QED BY <2>1, <2>2, <2>3 DEF FlTypeOK, LoggerHolds
<1>2. \A u \in Tasks, b \in Buffers : Holds(u, b)' <=> Holds(u, b)
  BY DEF Holds, InFlight, FlTypeOK
<1>3. \A b \in Buffers : LoggerHas(b)' <=> LoggerHas(b)
  BY DEF LoggerHas, LoggerHolds
<1>4. NoSharing' /\ NothingLeaked'
  BY <1>2, <1>3 DEF NoSharing, NothingLeaked
<1>5. QuietBeforeOs' /\ CacheFits' /\ LeftFits'
  BY DEF QuietBeforeOs, CacheFits, LeftFits
<1> QED BY <1>1, <1>4, <1>5

LEMMA RequestFlushInv == ASSUME NEW t \in Tasks, FlIInv, RequestFlush(t) PROVE FlIInv'
<1> USE DEF FlIInv, RequestFlush, loggerVars
<1>1. /\ writeQ' \in Seq(Buffers \cup {FlushRequest})
      /\ \A b : In(b, writeQ') <=> In(b, writeQ) \/ b = FlushRequest
      /\ \A b : Once(b, writeQ) /\ (b = FlushRequest => ~ In(b, writeQ)) => Once(b, writeQ')
  <2> DEFINE S == Buffers \cup {FlushRequest}
  <2>1. writeQ \in Seq(S) /\ FlushRequest \in S /\ writeQ' = Append(writeQ, FlushRequest)
    BY DEF FlTypeOK
  <2> HIDE DEF S
  <2>2. /\ Append(writeQ, FlushRequest) \in Seq(S)
        /\ \A b : In(b, Append(writeQ, FlushRequest)) <=> In(b, writeQ) \/ b = FlushRequest
        /\ \A b : Once(b, writeQ) /\ (b = FlushRequest => ~ In(b, writeQ))
                    => Once(b, Append(writeQ, FlushRequest))
    BY <2>1, AppendMembers
  <2> QED BY <2>1, <2>2 DEF S
<1>2. \A b \in Buffers : b # FlushRequest
  BY LoggerAssumption
<1>3. FlTypeOK'
  BY <1>1 DEF FlTypeOK, InFlight, LoggerHolds
<1>4. \A u \in Tasks, b \in Buffers : Holds(u, b)' <=> Holds(u, b)
  BY DEF Holds, InFlight
<1>5. \A b \in Buffers : LoggerHas(b)' <=> LoggerHas(b)
  BY DEF LoggerHas, LoggerHolds
<1>6. NoSharing' /\ NothingLeaked'
  BY <1>1, <1>2, <1>4, <1>5 DEF NoSharing, NothingLeaked
<1>7. QuietBeforeOs' /\ CacheFits' /\ LeftFits'
  BY DEF QuietBeforeOs, CacheFits, LeftFits
<1> QED BY <1>3, <1>6, <1>7

-----------------------------------------------------------------------------
(* Steps of the logger task, and of the code that runs before the OS.      *)

LEMMA WriteTypes ==
  ASSUME NEW s \in Seq(Text \X Nat), NEW j \in 0 .. Len(s), FlTypeOK, WriteToFile(s, j)
  PROVE  file' \in Seq(Text \X Nat) /\ failures' \in Nat
<1>1. FirstUnits(s, j) \in Seq(Text \X Nat)
  BY PieceFacts
<1>2. file' \in Seq(Text \X Nat)
  BY <1>1 DEF FlTypeOK, WriteToFile
<1>3. failures' \in Nat
  BY DEF FlTypeOK, WriteToFile
<1> QED BY <1>2, <1>3

LEMMA LogBeforeOsInv ==
  ASSUME NEW len \in 1 .. BufferSize, NEW j \in 0 .. len, FlIInv, LogBeforeOs(len, j)
  PROVE  FlIInv'
<1> USE DEF FlIInv
<1> DEFINE m == [by |-> Boot, n |-> calls[Boot] + 1, len |-> len]
           h == Head(empty)
<1>1. /\ ~ osRunning /\ UNCHANGED <<osRunning, writeQ, pc, buffer, msg, flushes>>
      /\ UNCHANGED <<lpc, logMsg, left, cache>>
      /\ calls' = [calls EXCEPT ![Boot] = @ + 1]
      /\ text' = [text EXCEPT ![h] = m]
      /\ empty' = Append(Tail(empty), h)
      /\ WriteToFile(Units(m), j)
  BY DEF LogBeforeOs
<1>2. /\ lpc = "receive" /\ writeQ = <<>> /\ \A t \in Tasks : pc[t] = "idle"
  BY <1>1 DEF QuietBeforeOs
<1>3. m \in Message /\ m.len = len
  <2>1. Boot \in Callers /\ calls[Boot] + 1 \in Nat \ {0}
    BY DEF FlTypeOK, Callers
  <2> QED BY <2>1 DEF Message
<1>4. /\ \A b \in Buffers : ~ LoggerHas(b) /\ ~ LoggerHas(b)'
      /\ \A b \in Buffers, t \in Tasks : ~ Holds(t, b) /\ ~ Holds(t, b)'
      /\ \A b : ~ In(b, writeQ)
  BY <1>1, <1>2 DEF LoggerHas, LoggerHolds, Holds, InFlight, In
<1>5. empty # <<>>
  <2>1. \A b \in Buffers : In(b, empty)
    BY <1>4 DEF NothingLeaked
  <2>2. Buffers # {}
    <3>1. Cardinality(Buffers) # 0
      BY LoggerAssumption
    <3> QED BY <3>1, FS_EmptySet
  <2> QED BY <2>1, <2>2 DEF In
<1>6. /\ Tail(empty) \in Seq(Buffers) /\ h \in Buffers /\ In(h, empty)
      /\ \A b : In(b, Tail(empty)) => In(b, empty)
      /\ \A b : In(b, empty) /\ b # h => In(b, Tail(empty))
      /\ \A b : Once(b, empty) => Once(b, Tail(empty))
      /\ Once(h, empty) => ~ In(h, Tail(empty))
  BY <1>5, TailMembers DEF FlTypeOK
<1>7. /\ empty' \in Seq(Buffers)
      /\ \A b : In(b, empty') <=> In(b, Tail(empty)) \/ b = h
      /\ \A b : Once(b, Tail(empty)) /\ (b = h => ~ In(b, Tail(empty))) => Once(b, empty')
  <2> HIDE DEF h
  <2> QED BY <1>1, <1>6, AppendMembers
<1>8. Units(m) \in Seq(Text \X Nat) /\ Len(Units(m)) = len
  BY <1>3, UnitsFacts DEF Text
<1>9. file' \in Seq(Text \X Nat) /\ failures' \in Nat
  <2> HIDE DEF m
  <2>1. j \in 0 .. Len(Units(m))
    BY <1>8
  <2> QED BY <1>1, <1>8, <2>1, WriteTypes
<1>10. text' \in [Buffers -> Text]
  <2> HIDE DEF m
  <2> QED BY <1>1, <1>3 DEF FlTypeOK, Text
<1>11. calls' \in [Callers -> Nat]
  BY <1>1 DEF FlTypeOK, Callers
<1>12. FlTypeOK'
  BY <1>1, <1>2, <1>7, <1>9, <1>10, <1>11 DEF FlTypeOK, InFlight, LoggerHolds
<1>13. NoSharing'
  BY <1>1, <1>4, <1>6, <1>7 DEF NoSharing
<1>14. NothingLeaked'
  BY <1>4, <1>6, <1>7 DEF NothingLeaked
<1>15. QuietBeforeOs' /\ CacheFits' /\ LeftFits'
  BY <1>1, <1>2 DEF QuietBeforeOs, CacheFits, LeftFits
<1> QED BY <1>12, <1>13, <1>14, <1>15

LEMMA ReceiveInv == FlIInv /\ Receive => FlIInv'
<1> SUFFICES ASSUME FlIInv, Receive PROVE FlIInv'
  OBVIOUS
<1> USE DEF FlIInv, Receive, taskVars
<1> DEFINE h == Head(writeQ)
<1>1. /\ writeQ' \in Seq(Buffers \cup {FlushRequest}) /\ h \in Buffers \cup {FlushRequest}
      /\ In(h, writeQ)
      /\ \A b : In(b, writeQ') => In(b, writeQ)
      /\ \A b : In(b, writeQ) /\ b # h => In(b, writeQ')
      /\ \A b : Once(b, writeQ) => Once(b, writeQ')
      /\ Once(h, writeQ) => ~ In(h, writeQ')
  BY TailMembers DEF FlTypeOK
<1>2. h \in Buffers
  BY <1>1
<1>3. FlTypeOK'
  BY <1>1, <1>2 DEF FlTypeOK, InFlight, LoggerHolds
<1>4. \A u \in Tasks, b \in Buffers : Holds(u, b)' <=> Holds(u, b)
  BY DEF Holds, InFlight
<1>5. \A b \in Buffers : (LoggerHas(b)' <=> b = h) /\ ~ LoggerHas(b)
  BY DEF LoggerHas, LoggerHolds
<1>6. NoSharing'
  BY <1>1, <1>2, <1>4, <1>5 DEF NoSharing
<1>7. NothingLeaked'
  BY <1>1, <1>4, <1>5 DEF NothingLeaked
<1>8. QuietBeforeOs' /\ CacheFits' /\ LeftFits'
  BY DEF QuietBeforeOs, CacheFits, LeftFits
<1> QED BY <1>3, <1>6, <1>7, <1>8

LEMMA ReceiveFlushInv == FlIInv /\ ReceiveFlush => FlIInv'
<1> SUFFICES ASSUME FlIInv, ReceiveFlush PROVE FlIInv'
  OBVIOUS
<1> USE DEF FlIInv, ReceiveFlush, taskVars
<1> DEFINE h == Head(writeQ)
<1>1. /\ writeQ' \in Seq(Buffers \cup {FlushRequest})
      /\ \A b : In(b, writeQ') => In(b, writeQ)
      /\ \A b : In(b, writeQ) /\ b # h => In(b, writeQ')
      /\ \A b : Once(b, writeQ) => Once(b, writeQ')
  BY TailMembers DEF FlTypeOK
<1>2. h \notin Buffers
  BY LoggerAssumption
<1>3. FlTypeOK'
  BY <1>1 DEF FlTypeOK, InFlight, LoggerHolds
<1>4. \A u \in Tasks, b \in Buffers : Holds(u, b)' <=> Holds(u, b)
  BY DEF Holds, InFlight
<1>5. \A b \in Buffers : ~ LoggerHas(b)' /\ ~ LoggerHas(b)
  BY DEF LoggerHas, LoggerHolds
<1>6. NoSharing' /\ NothingLeaked'
  BY <1>1, <1>2, <1>4, <1>5 DEF NoSharing, NothingLeaked
<1>7. QuietBeforeOs' /\ CacheFits' /\ LeftFits'
  BY DEF QuietBeforeOs, CacheFits, LeftFits
<1> QED BY <1>3, <1>6, <1>7

LEMMA FlushTimeoutInv == FlIInv /\ FlushTimeout => FlIInv'
<1> SUFFICES ASSUME FlIInv, FlushTimeout PROVE FlIInv'
  OBVIOUS
<1> USE DEF FlIInv, FlushTimeout, taskVars
<1>1. FlTypeOK'
  BY DEF FlTypeOK, InFlight, LoggerHolds
<1>2. \A u \in Tasks, b \in Buffers : Holds(u, b)' <=> Holds(u, b)
  BY DEF Holds, InFlight
<1>3. \A b \in Buffers : ~ LoggerHas(b)' /\ ~ LoggerHas(b)
  BY DEF LoggerHas, LoggerHolds
<1>4. NoSharing' /\ NothingLeaked'
  BY <1>2, <1>3 DEF NoSharing, NothingLeaked
<1>5. QuietBeforeOs' /\ CacheFits' /\ LeftFits'
  BY DEF QuietBeforeOs, CacheFits, LeftFits
<1> QED BY <1>1, <1>4, <1>5

LEMMA FlushInv == ASSUME NEW j \in 0 .. Len(cache), FlIInv, Flush(j) PROVE FlIInv'
<1> USE DEF FlIInv, Flush, taskVars
<1>1. file' \in Seq(Text \X Nat) /\ failures' \in Nat
  BY WriteTypes DEF FlTypeOK
<1>2. FlTypeOK'
  BY <1>1 DEF FlTypeOK, InFlight, LoggerHolds
<1>3. \A u \in Tasks, b \in Buffers : Holds(u, b)' <=> Holds(u, b)
  BY DEF Holds, InFlight
<1>4. \A b \in Buffers : ~ LoggerHas(b)' /\ ~ LoggerHas(b)
  BY DEF LoggerHas, LoggerHolds
<1>5. NoSharing' /\ NothingLeaked'
  BY <1>3, <1>4 DEF NoSharing, NothingLeaked
<1>6. QuietBeforeOs' /\ LeftFits'
  BY DEF QuietBeforeOs, LeftFits
<1>7. CacheFits'
  <2>1. BufferSize \in Nat /\ BufferSize > 0
    BY LoggerAssumption
  <2> QED BY <2>1 DEF CacheFits
<1> QED BY <1>2, <1>5, <1>6, <1>7

LEMMA CopyInv == FlIInv /\ Copy => FlIInv'
<1> SUFFICES ASSUME FlIInv, Copy PROVE FlIInv'
  OBVIOUS
<1> USE DEF FlIInv
<1> DEFINE units == Units(text[logMsg])
           room == BufferSize - Len(cache)
<1>1. /\ lpc = "copy" /\ UNCHANGED <<osRunning, empty, writeQ, text, taskVars, logMsg, file, failures>>
      /\ \/ /\ FillsBuffer(Len(units)) /\ lpc' = "write"
            /\ cache' = cache \o FirstUnits(units, room)
            /\ left' = Len(units) - room
         \/ /\ ~ FillsBuffer(Len(units)) /\ lpc' = "return"
            /\ cache' = cache \o units
            /\ left' = left
  BY DEF Copy
<1>2. logMsg \in Buffers /\ text[logMsg] \in Text
  BY <1>1 DEF FlTypeOK, LoggerHolds
<1>3. /\ units \in Seq(Text \X Nat) /\ Len(units) = text[logMsg].len
      /\ Len(units) \in 0 .. BufferSize
  BY <1>2, UnitsFacts
<1>4. /\ BufferSize \in Nat /\ cache \in Seq(Text \X Nat) /\ Len(cache) \in Nat
      /\ Len(cache) < BufferSize
  BY <1>1, LoggerAssumption DEF FlTypeOK, CacheFits
<1>5. room \in 1 .. BufferSize
  BY <1>4
<1> HIDE DEF units
<1>6. /\ cache' \in Seq(Text \X Nat) /\ left' \in Nat
      /\ lpc' \in {"write", "return"}
      /\ CacheFits' /\ LeftFits'
  <2>1. CASE FillsBuffer(Len(units)) /\ lpc' = "write"
             /\ cache' = cache \o FirstUnits(units, room) /\ left' = Len(units) - room
    <3>1. room \in 0 .. Len(units)
      <4>1. Len(cache) + Len(units) >= BufferSize
        BY <2>1 DEF FillsBuffer
      <4> QED BY <1>3, <1>4, <1>5, <4>1
    <3>2. FirstUnits(units, room) \in Seq(Text \X Nat) /\ Len(FirstUnits(units, room)) = room
      <4> HIDE DEF room
      <4> QED BY <1>3, <3>1, PieceFacts
    <3>3. cache' \in Seq(Text \X Nat) /\ Len(cache') = Len(cache) + room
      <4> HIDE DEF room
      <4> QED BY <1>4, <2>1, <3>2, ConcatFacts
    <3>4. Len(cache') = BufferSize
      BY <1>4, <3>3
    <3>5. left' \in Nat /\ left' < BufferSize /\ left' <= Len(units)
      <4>1. left' = Len(units) - room /\ Len(units) \in Nat /\ Len(units) <= BufferSize
        BY <1>3, <1>4, <2>1
      <4>2. room \in Nat /\ room > 0 /\ room <= Len(units)
        BY <1>4, <1>5, <3>1
      <4> HIDE DEF room
      <4> QED BY <1>4, <4>1, <4>2
    <3>6. text'[logMsg'] = text[logMsg]
      BY <1>1
    <3>7. CacheFits'
      BY <1>4, <2>1, <3>4 DEF CacheFits
    <3>8. LeftFits'
      BY <1>3, <3>5, <3>6 DEF LeftFits
    <3> QED BY <2>1, <3>3, <3>5, <3>7, <3>8
  <2>2. CASE ~ FillsBuffer(Len(units)) /\ lpc' = "return"
             /\ cache' = cache \o units /\ left' = left
    <3>1. cache' \in Seq(Text \X Nat) /\ Len(cache') = Len(cache) + Len(units)
      BY <1>3, <1>4, <2>2, ConcatFacts
    <3>2. Len(cache') < BufferSize
      BY <1>3, <1>4, <2>2, <3>1 DEF FillsBuffer
    <3>3. left' \in Nat
      BY <2>2 DEF FlTypeOK
    <3>4. CacheFits'
      BY <1>4, <2>2, <3>1, <3>2 DEF CacheFits
    <3>5. LeftFits'
      BY <2>2 DEF LeftFits
    <3> QED BY <2>2, <3>1, <3>3, <3>4, <3>5
  <2> QED BY <1>1, <2>1, <2>2
<1>7. FlTypeOK'
  BY <1>1, <1>2, <1>6 DEF FlTypeOK, InFlight, LoggerHolds, taskVars
<1>8. \A u \in Tasks, b \in Buffers : Holds(u, b)' <=> Holds(u, b)
  BY <1>1 DEF Holds, InFlight, taskVars
<1>9. \A b \in Buffers : LoggerHas(b)' <=> LoggerHas(b)
  BY <1>1, <1>6 DEF LoggerHas, LoggerHolds
<1>10. NoSharing' /\ NothingLeaked'
  BY <1>1, <1>8, <1>9 DEF NoSharing, NothingLeaked
<1>11. QuietBeforeOs'
  BY <1>1 DEF QuietBeforeOs
<1> QED BY <1>6, <1>7, <1>10, <1>11

LEMMA WriteFullInv == ASSUME NEW j \in 0 .. Len(cache), FlIInv, WriteFull(j) PROVE FlIInv'
<1> USE DEF FlIInv
<1>1. /\ lpc = "write" /\ lpc' = "return" /\ left' = 0
      /\ UNCHANGED <<osRunning, empty, writeQ, text, taskVars, logMsg>>
      /\ cache' = LastUnits(Units(text[logMsg]), left) /\ WriteToFile(cache, j)
  BY DEF WriteFull, LeftOver
<1>2. file' \in Seq(Text \X Nat) /\ failures' \in Nat
  BY <1>1, WriteTypes DEF FlTypeOK
<1>3. logMsg \in Buffers /\ text[logMsg] \in Text
  BY <1>1 DEF FlTypeOK, LoggerHolds
<1>4. /\ Units(text[logMsg]) \in Seq(Text \X Nat)
      /\ Len(Units(text[logMsg])) = text[logMsg].len
      /\ text[logMsg].len \in 0 .. BufferSize
  BY <1>3, UnitsFacts
<1>5. left \in 0 .. Len(Units(text[logMsg])) /\ left < BufferSize /\ BufferSize \in Nat
  <2>1. left \in Nat /\ left < BufferSize /\ left <= text[logMsg].len
    BY <1>1 DEF FlTypeOK, LeftFits
  <2> QED BY <1>4, <2>1, LoggerAssumption
<1>6. cache' \in Seq(Text \X Nat) /\ Len(cache') = left
  BY <1>1, <1>4, <1>5, PieceFacts
<1>7. FlTypeOK'
  BY <1>1, <1>2, <1>3, <1>6 DEF FlTypeOK, InFlight, LoggerHolds, taskVars
<1>8. \A u \in Tasks, b \in Buffers : Holds(u, b)' <=> Holds(u, b)
  BY <1>1 DEF Holds, InFlight, taskVars
<1>9. \A b \in Buffers : LoggerHas(b)' <=> LoggerHas(b)
  BY <1>1 DEF LoggerHas, LoggerHolds
<1>10. NoSharing' /\ NothingLeaked'
  BY <1>1, <1>8, <1>9 DEF NoSharing, NothingLeaked
<1>11. QuietBeforeOs' /\ LeftFits'
  BY <1>1 DEF QuietBeforeOs, LeftFits
<1>12. CacheFits'
  BY <1>1, <1>5, <1>6 DEF CacheFits
<1> QED BY <1>7, <1>10, <1>11, <1>12

LEMMA ReturnBufferInv == FlIInv /\ ReturnBuffer => FlIInv'
<1> SUFFICES ASSUME FlIInv, ReturnBuffer PROVE FlIInv'
  OBVIOUS
<1> USE DEF FlIInv, ReturnBuffer, taskVars
<1>1. logMsg \in Buffers /\ LoggerHas(logMsg)
  BY DEF FlTypeOK, LoggerHolds, LoggerHas
<1>2. /\ ~ In(logMsg, empty) /\ ~ In(logMsg, writeQ)
      /\ \A t \in Tasks : ~ Holds(t, logMsg)
  BY <1>1 DEF NoSharing
<1>3. /\ empty' \in Seq(Buffers)
      /\ \A b : In(b, empty') <=> In(b, empty) \/ b = logMsg
      /\ \A b : Once(b, empty) /\ (b = logMsg => ~ In(b, empty)) => Once(b, empty')
  BY <1>1, AppendMembers DEF FlTypeOK
<1>4. FlTypeOK'
  BY <1>3 DEF FlTypeOK, InFlight, LoggerHolds
<1>5. \A u \in Tasks, b \in Buffers : Holds(u, b)' <=> Holds(u, b)
  BY DEF Holds, InFlight
<1>6. \A b \in Buffers : ~ LoggerHas(b)' /\ (LoggerHas(b) => b = logMsg)
  BY DEF LoggerHas, LoggerHolds
<1>7. NoSharing'
  BY <1>1, <1>2, <1>3, <1>5, <1>6 DEF NoSharing
<1>8. NothingLeaked'
  BY <1>3, <1>5, <1>6 DEF NothingLeaked
<1>9. QuietBeforeOs' /\ CacheFits' /\ LeftFits'
  BY DEF QuietBeforeOs, CacheFits, LeftFits
<1> QED BY <1>4, <1>7, <1>8, <1>9

LEMMA StutterInv == FlIInv /\ UNCHANGED flVars => FlIInv'
  BY DEF flVars, FlIInv, taskVars, loggerVars, FlTypeOK, NoSharing, NothingLeaked,
         QuietBeforeOs, CacheFits, LeftFits, Holds, InFlight, LoggerHas, LoggerHolds, In, Once

LEMMA LengthsInBuffer ==
  ASSUME NEW c \in Callers, NEW len \in Lengths[c]
  PROVE  len \in 1 .. BufferSize
<1>1. Lengths[c] \in SUBSET (1 .. BufferSize)
  BY LoggerAssumption
<1> QED BY <1>1

LEMMA StepInv == FlIInv /\ [FlNext]_flVars => FlIInv'
<1> SUFFICES ASSUME FlIInv, [FlNext]_flVars PROVE FlIInv'
  OBVIOUS
<1>1. CASE StartScheduler
  BY <1>1, StartSchedulerInv
<1>2. ASSUME NEW len \in Lengths[Boot], NEW j \in 0 .. len, LogBeforeOs(len, j) PROVE FlIInv'
  <2>1. len \in 1 .. BufferSize
    BY LengthsInBuffer DEF Callers
  <2> QED BY <1>2, <2>1, LogBeforeOsInv
<1>3. ASSUME NEW t \in Tasks, NEW len \in Lengths[t], Log(t, len) PROVE FlIInv'
  <2>1. len \in 1 .. BufferSize
    BY LengthsInBuffer DEF Callers
  <2> QED BY <1>3, <2>1, LogInv
<1>4. ASSUME NEW t \in Tasks, RequestFlush(t) PROVE FlIInv'
  BY <1>4, RequestFlushInv
<1>5. ASSUME NEW t \in Tasks, Caller(t) PROVE FlIInv'
  BY <1>5, GetBufferInv, FormatInv, SendBufferInv, PrintMessageInv DEF Caller
<1>6. ASSUME LoggerTask PROVE FlIInv'
  BY <1>6, ReceiveInv, ReceiveFlushInv, FlushTimeoutInv, FlushInv, CopyInv, WriteFullInv,
     ReturnBufferInv DEF LoggerTask
<1>7. CASE UNCHANGED flVars
  BY <1>7, StutterInv
<1> QED BY <1>1, <1>2, <1>3, <1>4, <1>5, <1>6, <1>7 DEF FlNext

-----------------------------------------------------------------------------
(* The inductive invariant holds of every reachable state.                 *)
THEOREM Invariance == FlSpec => []FlIInv
<1>1. FlInit => FlIInv
  BY InitInv
<1>2. FlIInv /\ [FlNext]_flVars => FlIInv'
  BY StepInv
<1> QED BY <1>1, <1>2, PTL DEF FlSpec

(* Every variable of the logger keeps its type.                            *)
THEOREM TypeCorrect == FlSpec => []FlTypeOK
<1>1. FlIInv => FlTypeOK
  BY DEF FlIInv
<1> QED BY <1>1, Invariance, PTL

(* No message buffer is in two hands, for any number of callers: what a    *)
(* task formats is not overwritten before the logger copied it.            *)
THEOREM BuffersNotShared == FlSpec => []NoSharing
<1>1. FlIInv => NoSharing
  BY DEF FlIInv
<1> QED BY <1>1, Invariance, PTL

(* No message buffer is lost, also when every write to the file fails.     *)
THEOREM BuffersNotLost == FlSpec => []NothingLeaked
<1>1. FlIInv => NothingLeaked
  BY DEF FlIInv
<1> QED BY <1>1, Invariance, PTL

(* The file buffer never overflows, for any lengths of the messages.       *)
THEOREM CacheDoesNotOverflow == FlSpec => []CacheFits
<1>1. FlIInv => CacheFits
  BY DEF FlIInv
<1> QED BY <1>1, Invariance, PTL

(* A queue that holds nothing twice is no longer than the set it is from.  *)
LEMMA OnceBoundsLength ==
  ASSUME NEW S, IsFiniteSet(S), NEW q \in Seq(S), \A b \in S : Once(b, q)
  PROVE  Len(q) <= Cardinality(S)
<1>1. q \in [1 .. Len(q) -> S] /\ Len(q) \in Nat /\ DOMAIN q = 1 .. Len(q)
  OBVIOUS
<1>2. IsFiniteSet(1 .. Len(q)) /\ Cardinality(1 .. Len(q)) = Len(q)
  <2>1. IsFiniteSet(1 .. Len(q)) /\ Cardinality(1 .. Len(q)) = IF 1 > Len(q) THEN 0 ELSE Len(q) - 1 + 1
    BY <1>1, FS_Interval
  <2> QED BY <1>1, <2>1
<1>3. q \in Injection(1 .. Len(q), S)
  <2>1. \A i, j \in 1 .. Len(q) : q[i] = q[j] => i = j
    BY <1>1 DEF Once
  <2> QED BY <1>1, <2>1 DEF Injection, IsInjective
<1> QED BY <1>2, <1>3, FS_Injection

(* The logger always has room to return a buffer, so it never waits for    *)
(* the callers that wait for it.                                           *)
THEOREM ReturnNeverBlocks == FlSpec => []RoomToReturn
<1>1. FlIInv => RoomToReturn
  <2> SUFFICES ASSUME FlIInv, lpc = "return" PROVE Len(empty) < NumBuffers
    BY DEF RoomToReturn
  <2> DEFINE S == Buffers \ {logMsg}
  <2>1. logMsg \in Buffers /\ LoggerHas(logMsg)
    BY DEF FlIInv, FlTypeOK, LoggerHolds, LoggerHas
  <2>2. ~ In(logMsg, empty) /\ empty \in Seq(Buffers) /\ \A b \in S : Once(b, empty)
    BY <2>1 DEF FlIInv, FlTypeOK, NoSharing
  <2>3. empty \in Seq(S)
    <3>1. \A i \in 1 .. Len(empty) : empty[i] \in S
      BY <2>2 DEF In
    <3> QED BY <2>2, <3>1
  <2>4. IsFiniteSet(S) /\ Cardinality(S) = NumBuffers - 1 /\ NumBuffers \in Nat
    BY <2>1, FS_RemoveElement, LoggerAssumption
  <2>5. Len(empty) <= Cardinality(S)
    <3> HIDE DEF S
    <3> QED BY <2>2, <2>3, <2>4, OnceBoundsLength
  <2> QED BY <2>2, <2>4, <2>5
<1> QED BY <1>1, Invariance, PTL

(* The buffers circulate for ever, for any number of tasks and buffers.    *)
THEOREM BuffersAlwaysKept == FlSpec => []BuffersKept
<1>1. NoSharing /\ NothingLeaked /\ RoomToReturn => BuffersKept
  BY DEF BuffersKept
<1> QED BY <1>1, BuffersNotShared, BuffersNotLost, ReturnNeverBlocks, PTL

-----------------------------------------------------------------------------
(* The file logger is a stream.                                            *)

(* What the refinement needs of the state, beyond FlIInv: the message a    *)
(* caller is about to send is its next one, and is in its buffer.          *)
MessageIsNext ==
  \A t \in Tasks : pc[t] # "idle" =>
    /\ msg[t].by = t
    /\ msg[t].n = calls[t] /\ calls[t] \in 1 .. MaxCalls[t]

TextIsFormatted == \A t \in Tasks : pc[t] = "send" => text[buffer[t]] = msg[t]

CacheBeforeOs == ~ osRunning => cache = <<>>

StreamInv == FlIInv /\ MessageIsNext /\ TextIsFormatted /\ CacheBeforeOs

(* StreamInv is inductive.                                                 *)
LEMMA StreamInitInv == FlInit => StreamInv
<1> SUFFICES ASSUME FlInit PROVE StreamInv
  OBVIOUS
<1>1. FlIInv
  BY InitInv
<1>2. MessageIsNext /\ TextIsFormatted /\ CacheBeforeOs
  BY DEF FlInit, MessageIsNext, TextIsFormatted, CacheBeforeOs
<1> QED BY <1>1, <1>2 DEF StreamInv

LEMMA LogStreamInv ==
  ASSUME NEW t \in Tasks, NEW len, StreamInv, Log(t, len)
  PROVE  MessageIsNext' /\ TextIsFormatted' /\ CacheBeforeOs'
<1> DEFINE m == [by |-> t, n |-> calls[t] + 1, len |-> len]
<1>1. /\ osRunning /\ calls[t] < MaxCalls[t] /\ calls[t] \in Nat /\ MaxCalls[t] \in Nat
      /\ pc' = [pc EXCEPT ![t] = "get"] /\ msg' = [msg EXCEPT ![t] = m]
      /\ calls' = [calls EXCEPT ![t] = @ + 1]
      /\ pc \in [Tasks -> {"idle", "get", "format", "send", "print"}]
      /\ msg \in [Tasks -> Text] /\ calls \in [Callers -> Nat]
      /\ UNCHANGED <<osRunning, text, buffer, cache>> /\ t \in Callers
  BY LoggerAssumption DEF Log, StreamInv, FlIInv, FlTypeOK, Callers, loggerVars
<1>2. MessageIsNext'
  <2> SUFFICES ASSUME NEW u \in Tasks, pc'[u] # "idle"
               PROVE  /\ msg'[u].by = u
                      /\ msg'[u].n = calls'[u] /\ calls'[u] \in 1 .. MaxCalls[u]
    BY DEF MessageIsNext
  <2>1. CASE u = t
    <3>1. calls'[t] = calls[t] + 1 /\ msg'[t] = m
      BY <1>1
    <3>2. m.by = t /\ m.n = calls[t] + 1
      OBVIOUS
    <3>3. calls[t] + 1 \in 1 .. MaxCalls[t]
      BY <1>1
    <3> HIDE DEF m
    <3> QED BY <2>1, <3>1, <3>2, <3>3
  <2>2. CASE u # t
    <3>1. pc'[u] = pc[u] /\ msg'[u] = msg[u] /\ calls'[u] = calls[u]
      BY <1>1, <2>2 DEF Callers
    <3> QED BY <3>1 DEF StreamInv, MessageIsNext
  <2> QED BY <2>1, <2>2
<1>3. TextIsFormatted'
  <2> HIDE DEF m
  <2> QED BY <1>1 DEF StreamInv, TextIsFormatted
<1>4. CacheBeforeOs'
  BY <1>1 DEF CacheBeforeOs
<1> QED BY <1>2, <1>3, <1>4

LEMMA CallerStream ==
  ASSUME NEW t \in Tasks, StreamInv, Caller(t) \/ RequestFlush(t)
  PROVE  MessageIsNext' /\ TextIsFormatted' /\ CacheBeforeOs'
<1>1. /\ pc \in [Tasks -> {"idle", "get", "format", "send", "print"}]
      /\ msg \in [Tasks -> Text] /\ buffer \in [Tasks -> Buffers \cup {NoBuffer}]
      /\ text \in [Buffers -> Text]
      /\ MessageIsNext /\ TextIsFormatted /\ CacheBeforeOs
  BY DEF StreamInv, FlIInv, FlTypeOK
<1>2. CASE GetBuffer(t)
  BY <1>1, <1>2 DEF GetBuffer, loggerVars, MessageIsNext, TextIsFormatted, CacheBeforeOs
<1>3. CASE Format(t)
  <2>1. /\ pc[t] = "format" /\ text' = [text EXCEPT ![buffer[t]] = msg[t]]
        /\ pc' = [pc EXCEPT ![t] = "send"]
        /\ UNCHANGED <<osRunning, buffer, msg, calls, cache>>
    BY <1>3 DEF Format, loggerVars
  <2>2. buffer[t] \in Buffers /\ Holds(t, buffer[t])
    BY <2>1 DEF StreamInv, FlIInv, FlTypeOK, InFlight, Holds
  <2>3. TextIsFormatted'
    <3> SUFFICES ASSUME NEW u \in Tasks, pc'[u] = "send" PROVE text'[buffer[u]] = msg[u]
      BY <2>1 DEF TextIsFormatted
    <3>1. CASE u = t
      BY <1>1, <2>1, <2>2, <3>1
    <3>2. CASE u # t
      <4>1. pc[u] = "send"
        BY <1>1, <2>1, <3>2
      <4>2. buffer[u] \in Buffers /\ Holds(u, buffer[u])
        BY <4>1 DEF StreamInv, FlIInv, FlTypeOK, InFlight, Holds
      <4>3. buffer[u] # buffer[t]
        BY <2>2, <3>2, <4>2 DEF StreamInv, FlIInv, NoSharing
      <4>4. text'[buffer[u]] = text[buffer[u]]
        BY <1>1, <2>1, <4>2, <4>3
      <4> QED BY <1>1, <4>1, <4>4 DEF TextIsFormatted
    <3> QED BY <3>1, <3>2
  <2>4. MessageIsNext' /\ CacheBeforeOs'
    BY <1>1, <2>1 DEF MessageIsNext, CacheBeforeOs
  <2> QED BY <2>3, <2>4
<1>4. CASE SendBuffer(t)
  BY <1>1, <1>4 DEF SendBuffer, Return, loggerVars, MessageIsNext, TextIsFormatted, CacheBeforeOs
<1>5. CASE PrintMessage(t)
  BY <1>1, <1>5 DEF PrintMessage, Return, loggerVars, MessageIsNext, TextIsFormatted, CacheBeforeOs
<1>6. CASE RequestFlush(t)
  BY <1>1, <1>6 DEF RequestFlush, loggerVars, MessageIsNext, TextIsFormatted, CacheBeforeOs
<1> QED BY <1>2, <1>3, <1>4, <1>5, <1>6 DEF Caller

LEMMA LoggerStream ==
  ASSUME StreamInv, LoggerTask \/ StartScheduler \/ UNCHANGED flVars
  PROVE  MessageIsNext' /\ TextIsFormatted' /\ CacheBeforeOs'
<1>1. MessageIsNext /\ TextIsFormatted /\ CacheBeforeOs
  BY DEF StreamInv
<1>2. UNCHANGED <<pc, buffer, msg, calls, text>>
  BY DEF LoggerTask, Receive, ReceiveFlush, FlushTimeout, Flush, Copy, WriteFull, ReturnBuffer,
         StartScheduler, flVars, taskVars
<1>3. CacheBeforeOs'
  <2>1. CASE osRunning
    <3>1. osRunning'
      BY <2>1 DEF LoggerTask, Receive, ReceiveFlush, FlushTimeout, Flush, Copy, WriteFull,
                  ReturnBuffer, StartScheduler, flVars
    <3> QED BY <3>1 DEF CacheBeforeOs
  <2>2. CASE ~ osRunning
    <3>1. lpc = "receive" /\ cache = <<>>
      BY <1>1, <2>2 DEF StreamInv, FlIInv, QuietBeforeOs, CacheBeforeOs
    <3>2. ~ LoggerTask
      BY <2>2, <3>1 DEF LoggerTask, Receive, ReceiveFlush, FlushTimeout, Flush, Copy, WriteFull,
                        ReturnBuffer
    <3>3. cache' = cache
      BY <3>2 DEF StartScheduler, flVars, loggerVars
    <3> QED BY <3>1, <3>3 DEF CacheBeforeOs
  <2> QED BY <2>1, <2>2
<1> QED BY <1>1, <1>2, <1>3 DEF MessageIsNext, TextIsFormatted

LEMMA BootStream ==
  ASSUME NEW len, NEW j, StreamInv, LogBeforeOs(len, j)
  PROVE  MessageIsNext' /\ TextIsFormatted' /\ CacheBeforeOs'
<1>1. /\ ~ osRunning /\ UNCHANGED <<osRunning, pc, cache>> /\ cache = <<>>
      /\ \A t \in Tasks : pc[t] = "idle"
  BY DEF LogBeforeOs, StreamInv, FlIInv, QuietBeforeOs, CacheBeforeOs
<1> QED BY <1>1 DEF MessageIsNext, TextIsFormatted, CacheBeforeOs

LEMMA StreamStepInv == StreamInv /\ [FlNext]_flVars => StreamInv'
<1> SUFFICES ASSUME StreamInv, [FlNext]_flVars PROVE StreamInv'
  OBVIOUS
<1>1. FlIInv'
  BY StepInv DEF StreamInv
<1>2. MessageIsNext' /\ TextIsFormatted' /\ CacheBeforeOs'
  BY LogStreamInv, CallerStream, LoggerStream, BootStream DEF FlNext
<1> QED BY <1>1, <1>2 DEF StreamInv

(* It holds of every reachable state.                                      *)
LEMMA StreamInvariance == FlSpec => []StreamInv
<1>1. FlInit => StreamInv
  BY StreamInitInv
<1>2. StreamInv /\ [FlNext]_flVars => StreamInv'
  BY StreamStepInv
<1> QED BY <1>1, <1>2, PTL DEF FlSpec

-----------------------------------------------------------------------------
(* FlattenSeq() of the community modules.                                  *)

(* A set of numbers with 0 and the successor of each of its numbers below  *)
(* n has all numbers to n.                                                 *)
LEMMA UpTo ==
  ASSUME NEW n \in Nat, NEW K, 0 \in K, \A i \in 0 .. n : i \in K /\ i < n => i + 1 \in K
  PROVE  \A i \in 0 .. n : i \in K
<1> DEFINE R == OpToRel(<, Nat)
           B == {i \in 0 .. n : i \notin K}
<1> SUFFICES ASSUME B # {} PROVE FALSE
  OBVIOUS
<1>1. PICK i \in B : \A j \in B : ~ (<<j, i>> \in R)
  <2>1. IsWellFoundedOn(R, Nat)
    BY NatLessThanWellFounded
  <2>2. B \subseteq Nat
    OBVIOUS
  <2> HIDE DEF R, B
  <2> QED BY <2>1, <2>2, WFMin
<1>2. i \in Nat /\ i > 0 /\ i - 1 \in Nat /\ i - 1 < i
  OBVIOUS
<1>3. <<i - 1, i>> \in R
  BY <1>2 DEF OpToRel
<1>4. i - 1 \notin B
  BY <1>1, <1>3
<1> HIDE DEF R
<1> QED BY <1>2, <1>4

(* The first i elements of s one after the other.                          *)
Joined(s, n, g) ==
  /\ DOMAIN g = 1 .. n
  /\ \A i \in 1 .. n : g[i] = IF i = 1 THEN s[i] ELSE g[i - 1] \o s[i]

LEMMA JoinedNext ==
  ASSUME NEW s, NEW n \in Nat, NEW g, Joined(s, n, g)
  PROVE  \E h : Joined(s, n + 1, h)
<1> DEFINE h == [i \in 1 .. n + 1 |-> IF i = n + 1 THEN IF i = 1 THEN s[i] ELSE g[i - 1] \o s[i]
                                                   ELSE g[i]]
<1>1. \A i \in 1 .. n : i \in 1 .. n + 1 /\ i # n + 1
  OBVIOUS
<1>2. \A i \in 1 .. n : h[i] = g[i]
  BY <1>1
<1>3. ASSUME NEW i \in 1 .. n + 1 PROVE h[i] = IF i = 1 THEN s[i] ELSE h[i - 1] \o s[i]
  <2>1. i # 1 => i - 1 \in 1 .. n /\ h[i - 1] = g[i - 1]
    BY <1>2
  <2>2. CASE i # n + 1
    <3>1. i \in 1 .. n
      BY <2>2
    <3>2. g[i] = IF i = 1 THEN s[i] ELSE g[i - 1] \o s[i]
      BY <3>1 DEF Joined
    <3> QED BY <1>2, <2>1, <3>1, <3>2
  <2>3. CASE i = n + 1
    <3>1. h[i] = IF i = 1 THEN s[i] ELSE g[i - 1] \o s[i]
      BY <2>3
    <3> QED BY <2>1, <3>1
  <2> QED BY <2>2, <2>3
<1> HIDE DEF h
<1>4. DOMAIN h = 1 .. n + 1
  BY DEF h
<1> QED BY <1>3, <1>4 DEF Joined

LEMMA JoinedExist ==
  ASSUME NEW s, NEW n \in Nat
  PROVE  \E g : Joined(s, n, g)
<1> DEFINE K == {i \in Nat : \E g : Joined(s, i, g)}
<1>1. 0 \in K
  <2>1. Joined(s, 0, <<>>)
    BY DEF Joined
  <2> QED BY <2>1
<1>2. ASSUME NEW i \in K PROVE i + 1 \in K
  <2>1. PICK g : Joined(s, i, g)
    OBVIOUS
  <2>2. i \in Nat
    OBVIOUS
  <2>3. \E h : Joined(s, i + 1, h)
    BY <2>1, <2>2, JoinedNext
  <2> QED BY <2>2, <2>3
<1> HIDE DEF K
<1>3. \A i \in 0 .. n : i \in K
  BY <1>1, <1>2, UpTo
<1>4. n \in K
  BY <1>3
<1> QED BY <1>4 DEF K

LEMMA FlattenIs ==
  ASSUME NEW s, Len(s) \in Nat, Len(s) # 0
  PROVE  \E g : Joined(s, Len(s), g) /\ FlattenSeq(s) = g[Len(s)]
<1> DEFINE n == Len(s)
           Is(f) == f = [i \in 1 .. n |-> IF i = 1 THEN s[i] ELSE f[i - 1] \o s[i]]
<1>1. PICK g : g = CHOOSE f : Is(f)
  OBVIOUS
<1>2. \E f : Is(f)
  <2>1. PICK h : Joined(s, n, h)
    BY JoinedExist
  <2> DEFINE f == [i \in 1 .. n |-> h[i]]
  <2>2. \A i \in 1 .. n : i # 1 => i - 1 \in 1 .. n
    OBVIOUS
  <2>3. \A i \in 1 .. n : f[i] = IF i = 1 THEN s[i] ELSE f[i - 1] \o s[i]
    BY <2>1, <2>2 DEF Joined
  <2>4. f = [i \in 1 .. n |-> f[i]]
    OBVIOUS
  <2> HIDE DEF f
  <2>5. Is(f)
    BY <2>3, <2>4
  <2> QED BY <2>5
<1>3. Is(g)
  BY <1>1, <1>2
<1>4. Joined(s, n, g)
  BY <1>3 DEF Joined
<1>5. FlattenSeq(s) = g[n]
  BY <1>1 DEF FlattenSeq
<1> QED BY <1>4, <1>5

(* FlattenSeq() of sequences of S, of none, with one more at the end, and  *)
(* without the first.                                                      *)
LEMMA FlattenType ==
  ASSUME NEW S, NEW s \in Seq(Seq(S))
  PROVE  FlattenSeq(s) \in Seq(S)
<1>1. CASE Len(s) = 0
  <2>1. s = <<>>
    BY <1>1
  <2> QED BY <1>1, <2>1 DEF FlattenSeq
<1>2. CASE Len(s) # 0
  <2> DEFINE n == Len(s)
  <2>1. PICK g : Joined(s, n, g) /\ FlattenSeq(s) = g[n]
    BY <1>2, FlattenIs
  <2> DEFINE K == {i \in Nat : i = 0 \/ g[i] \in Seq(S)}
  <2>2. \A i \in 0 .. n : i \in K /\ i < n => i + 1 \in K
    <3> SUFFICES ASSUME NEW i \in 0 .. n, i \in K, i < n PROVE i + 1 \in K
      OBVIOUS
    <3>1. i + 1 \in 1 .. n /\ s[i + 1] \in Seq(S) /\ (i + 1) - 1 = i
      OBVIOUS
    <3>2. g[i + 1] = IF i + 1 = 1 THEN s[i + 1] ELSE g[(i + 1) - 1] \o s[i + 1]
      BY <2>1, <3>1 DEF Joined
    <3>3. i # 0 => g[i] \in Seq(S)
      OBVIOUS
    <3>4. g[i + 1] \in Seq(S)
      BY <3>1, <3>2, <3>3
    <3> QED BY <3>1, <3>4
  <2>3. 0 \in K /\ n \in Nat
    OBVIOUS
  <2> HIDE DEF K
  <2>4. \A i \in 0 .. n : i \in K
    BY <2>2, <2>3, UpTo
  <2>5. n \in K
    BY <2>3, <2>4
  <2> QED BY <1>2, <2>1, <2>5 DEF K
<1> QED BY <1>1, <1>2

LEMMA FlattenEmpty == FlattenSeq(<<>>) = <<>>
  BY DEF FlattenSeq

LEMMA FlattenAppend ==
  ASSUME NEW S, NEW s \in Seq(Seq(S)), NEW x \in Seq(S)
  PROVE  FlattenSeq(Append(s, x)) = FlattenSeq(s) \o x
<1> DEFINE r == Append(s, x)
           n == Len(s)
<1>1. /\ Len(r) = n + 1 /\ n \in Nat /\ r[n + 1] = x
      /\ \A i \in 1 .. n : r[i] = s[i]
  OBVIOUS
<1> HIDE DEF r
<1>2. PICK h : Joined(r, n + 1, h) /\ FlattenSeq(r) = h[n + 1]
  BY <1>1, FlattenIs
<1>3. CASE n = 0
  <2>1. h[1] = x
    BY <1>1, <1>2, <1>3 DEF Joined
  <2>2. FlattenSeq(s) = <<>>
    BY <1>3, FlattenEmpty
  <2> QED BY <1>2, <1>3, <2>1, <2>2 DEF r
<1>4. CASE n # 0
  <2>1. PICK g : Joined(s, n, g) /\ FlattenSeq(s) = g[n]
    BY <1>1, <1>4, FlattenIs
  <2> DEFINE K == {i \in Nat : i = 0 \/ h[i] = g[i]}
  <2>2. \A i \in 0 .. n : i \in K /\ i < n => i + 1 \in K
    <3> SUFFICES ASSUME NEW i \in 0 .. n, i \in K, i < n PROVE i + 1 \in K
      OBVIOUS
    <3>1. i + 1 \in 1 .. n /\ i + 1 \in 1 .. n + 1 /\ r[i + 1] = s[i + 1] /\ (i + 1) - 1 = i
      BY <1>1
    <3>2. g[i + 1] = IF i + 1 = 1 THEN s[i + 1] ELSE g[(i + 1) - 1] \o s[i + 1]
      BY <2>1, <3>1 DEF Joined
    <3>3. h[i + 1] = IF i + 1 = 1 THEN r[i + 1] ELSE h[(i + 1) - 1] \o r[i + 1]
      BY <1>2, <3>1 DEF Joined
    <3>4. i # 0 => g[i] = h[i]
      OBVIOUS
    <3>5. g[i + 1] = h[i + 1]
      BY <3>1, <3>2, <3>3, <3>4
    <3> QED BY <3>1, <3>5
  <2>3. 0 \in K
    OBVIOUS
  <2> HIDE DEF K
  <2> HIDE DEF n
  <2>8. \A i \in 0 .. n : i \in K
    BY <1>1, <2>2, <2>3, UpTo
  <2>4. n \in 0 .. n
    BY <1>1
  <2>5. h[n] = g[n]
    BY <1>4, <2>4, <2>8 DEF K
  <2>6. n + 1 \in 1 .. n + 1 /\ n + 1 # 1 /\ (n + 1) - 1 = n
    BY <1>1, <1>4
  <2>7. h[n + 1] = h[n] \o x
    BY <1>1, <1>2, <2>6 DEF Joined
  <2> QED BY <1>2, <2>1, <2>5, <2>7 DEF r
<1> QED BY <1>3, <1>4

LEMMA FlattenTail ==
  ASSUME NEW S, NEW s \in Seq(Seq(S)), s # <<>>
  PROVE  FlattenSeq(s) = Head(s) \o FlattenSeq(Tail(s))
<1> DEFINE r == Tail(s)
           n == Len(r)
           x == Head(s)
<1>1. /\ Len(s) = n + 1 /\ Len(r) = n /\ n \in Nat /\ s[1] = x /\ x \in Seq(S)
      /\ r \in Seq(Seq(S))
      /\ \A i \in 1 .. n : r[i] = s[i + 1] /\ r[i] \in Seq(S)
  OBVIOUS
<1> HIDE DEF r, x, n
<1>2. PICK h : Joined(s, n + 1, h) /\ FlattenSeq(s) = h[n + 1]
  BY <1>1, FlattenIs
<1>3. 1 \in 1 .. n + 1 /\ h[1] = x
  BY <1>1, <1>2 DEF Joined
<1>4. CASE n = 0
  <2>1. r = <<>>
    BY <1>1, <1>4
  <2>2. FlattenSeq(r) = <<>>
    BY <2>1, FlattenEmpty
  <2> QED BY <1>1, <1>2, <1>3, <1>4, <2>2 DEF r, x
<1>5. CASE n # 0
  <2>1. PICK g : Joined(r, n, g) /\ FlattenSeq(r) = g[n]
    BY <1>1, <1>5, FlattenIs
  <2> DEFINE K == {i \in Nat : i = 0 \/ (g[i] \in Seq(S) /\ h[i + 1] = x \o g[i])}
  <2>2. \A i \in 0 .. n : i \in K /\ i < n => i + 1 \in K
    <3> SUFFICES ASSUME NEW i \in 0 .. n, i \in K, i < n PROVE i + 1 \in K
      OBVIOUS
    <3>1. /\ i + 1 \in 1 .. n /\ (i + 1) + 1 \in 1 .. n + 1 /\ (i + 1) + 1 # 1
          /\ (i + 1) - 1 = i /\ ((i + 1) + 1) - 1 = i + 1
      BY <1>1
    <3>2. r[i + 1] = s[(i + 1) + 1] /\ r[i + 1] \in Seq(S)
      BY <1>1, <3>1
    <3>3. g[i + 1] = IF i + 1 = 1 THEN r[i + 1] ELSE g[(i + 1) - 1] \o r[i + 1]
      BY <2>1, <3>1 DEF Joined
    <3>4. h[(i + 1) + 1] = IF (i + 1) + 1 = 1 THEN s[(i + 1) + 1]
                                              ELSE h[((i + 1) + 1) - 1] \o s[(i + 1) + 1]
      BY <1>2, <3>1 DEF Joined
    <3>5. h[(i + 1) + 1] = h[i + 1] \o r[i + 1]
      BY <3>1, <3>2, <3>4
    <3>6. CASE i = 0
      <4>1. g[i + 1] = r[i + 1] /\ h[i + 1] = x
        BY <1>3, <3>3, <3>6
      <4>2. i + 1 \in Nat
        OBVIOUS
      <4> QED BY <3>2, <3>5, <4>1, <4>2
    <3>7. CASE i # 0
      <4>1. g[i] \in Seq(S) /\ h[i + 1] = x \o g[i]
        BY <3>7
      <4>2. g[i + 1] = g[i] \o r[i + 1]
        <5>1. i + 1 # 1
          BY <3>7
        <5> QED BY ONLY <3>1, <3>3, <5>1
      <4>3. h[(i + 1) + 1] = (x \o g[i]) \o r[i + 1]
        BY <3>5, <4>1
      <4>4. (x \o g[i]) \o r[i + 1] = x \o (g[i] \o r[i + 1])
        <5> DEFINE v == x  y == g[i]  z == r[i + 1]
        <5>1. v \in Seq(S)
          BY <1>1
        <5>2. y \in Seq(S)
          BY <4>1
        <5>3. z \in Seq(S)
          BY <3>2
        <5> HIDE DEF v, y, z
        <5>4. (v \o y) \o z = v \o (y \o z)
          BY ONLY <5>1, <5>2, <5>3, SMT
        <5> QED BY <5>4 DEF v, y, z
      <4>5. g[i + 1] \in Seq(S)
        BY <3>2, <4>1, <4>2
      <4>6. i + 1 \in Nat
        OBVIOUS
      <4> QED BY <4>2, <4>3, <4>4, <4>5, <4>6
    <3> QED BY <3>6, <3>7
  <2>3. 0 \in K
    OBVIOUS
  <2> HIDE DEF K
  <2>8. \A i \in 0 .. n : i \in K
    BY <1>1, <2>2, <2>3, UpTo
  <2>4. n \in 0 .. n
    BY <1>1
  <2>5. h[n + 1] = x \o g[n]
    BY <1>5, <2>4, <2>8 DEF K
  <2> QED BY <1>2, <2>1, <2>5 DEF r, x
<1> QED BY <1>4, <1>5

-----------------------------------------------------------------------------
(* The stream and what is in which of its parts.                           *)

Streams == Seq(Text \X Nat)

(* What each element of the write queue adds to the stream.                *)
Contents ==
  [b \in Buffers \cup {FlushRequest} |-> IF b = FlushRequest THEN <<>> ELSE Units(text[b])]

(* A function of each element of a sequence.                               *)
LEMMA MapSeq ==
  ASSUME NEW S, NEW W, NEW q \in Seq(S), NEW f \in [S -> W]
  PROVE  [i \in DOMAIN q |-> f[q[i]]] \in Seq(W)
<1>1. /\ Len(q) \in Nat /\ DOMAIN q = 1 .. Len(q)
      /\ \A i \in DOMAIN q : f[q[i]] \in W
  OBVIOUS
<1>2. [i \in DOMAIN q |-> f[q[i]]] \in [1 .. Len(q) -> W]
  BY <1>1
<1> QED BY <1>1, <1>2

LEMMA MapAppend ==
  ASSUME NEW S, NEW W, NEW q \in Seq(S), NEW e \in S, NEW f \in [S -> W], NEW r, r = Append(q, e)
  PROVE  [i \in DOMAIN r |-> f[r[i]]] = Append([i \in DOMAIN q |-> f[q[i]]], f[e])
<1> DEFINE x == [i \in DOMAIN q |-> f[q[i]]]
           y == [i \in DOMAIN r |-> f[r[i]]]
<1>1. /\ Len(q) \in Nat /\ DOMAIN q = 1 .. Len(q) /\ r \in Seq(S) /\ Len(r) = Len(q) + 1
      /\ DOMAIN r = 1 .. Len(q) + 1
      /\ r[Len(q) + 1] = e /\ \A i \in 1 .. Len(q) : r[i] = q[i]
  OBVIOUS
<1>2. x \in Seq(W) /\ y \in Seq(W) /\ f[e] \in W
  BY <1>1, MapSeq
<1>3. Len(x) = Len(q) /\ Len(y) = Len(q) + 1
  <2>1. DOMAIN x = 1 .. Len(q) /\ DOMAIN y = 1 .. Len(q) + 1
    BY <1>1
  <2> HIDE DEF x, y
  <2> QED BY <1>1, <1>2, <2>1
<1>4. \A i \in 1 .. Len(q) + 1 : y[i] = Append(x, f[e])[i]
  <2> SUFFICES ASSUME NEW i \in 1 .. Len(q) + 1 PROVE y[i] = Append(x, f[e])[i]
    OBVIOUS
  <2>1. y[i] = f[r[i]]
    BY <1>1
  <2>2. CASE i \in 1 .. Len(q)
    <3>1. x[i] = f[q[i]]
      BY <1>1, <2>2
    <3>2. Append(x, f[e])[i] = x[i]
      <4> HIDE DEF x
      <4> QED BY <1>2, <1>3, <2>2
    <3> QED BY <1>1, <2>1, <2>2, <3>1, <3>2
  <2>3. CASE i = Len(q) + 1
    <3>1. Append(x, f[e])[i] = f[e]
      <4> HIDE DEF x
      <4> QED BY <1>1, <1>2, <1>3, <2>3
    <3> QED BY <1>1, <2>1, <2>3, <3>1
  <2> QED BY <1>1, <2>2, <2>3
<1> HIDE DEF x, y
<1>5. y = Append(x, f[e])
  <2>1. Append(x, f[e]) \in Seq(W) /\ Len(Append(x, f[e])) = Len(q) + 1
    BY <1>2, <1>3
  <2> QED BY <1>1, <1>2, <1>3, <1>4, <2>1, SeqEqual
<1> QED BY <1>5 DEF x, y

LEMMA MapTail ==
  ASSUME NEW S, NEW W, NEW q \in Seq(S), q # <<>>, NEW f \in [S -> W], NEW r, r = Tail(q)
  PROVE  /\ [i \in DOMAIN q |-> f[q[i]]] # <<>>
         /\ Head([i \in DOMAIN q |-> f[q[i]]]) = f[Head(q)]
         /\ [i \in DOMAIN r |-> f[r[i]]] = Tail([i \in DOMAIN q |-> f[q[i]]])
<1> DEFINE x == [i \in DOMAIN q |-> f[q[i]]]
           y == [i \in DOMAIN r |-> f[r[i]]]
<1>1. /\ Len(q) \in Nat \ {0} /\ DOMAIN q = 1 .. Len(q) /\ r \in Seq(S) /\ Len(r) = Len(q) - 1
      /\ DOMAIN r = 1 .. Len(q) - 1 /\ Head(q) = q[1]
      /\ \A i \in 1 .. Len(q) - 1 : r[i] = q[i + 1]
  OBVIOUS
<1>2. x \in Seq(W) /\ y \in Seq(W)
  BY <1>1, MapSeq
<1>3. Len(x) = Len(q) /\ Len(y) = Len(q) - 1
  <2>1. DOMAIN x = 1 .. Len(q) /\ DOMAIN y = 1 .. Len(r) /\ Len(r) \in Nat
    BY <1>1
  <2> HIDE DEF x, y
  <2>2. Len(x) = Len(q)
    BY <1>1, <1>2, <2>1
  <2>3. Len(y) = Len(r)
    BY <1>2, <2>1
  <2> QED BY <1>1, <2>2, <2>3
<1>4. x[1] = f[q[1]]
  BY <1>1
<1>5. \A i \in 1 .. Len(q) - 1 : y[i] = x[i + 1]
  <2> SUFFICES ASSUME NEW i \in 1 .. Len(q) - 1 PROVE y[i] = x[i + 1]
    OBVIOUS
  <2>1. i + 1 \in 1 .. Len(q)
    BY <1>1
  <2> QED BY <1>1, <2>1
<1> HIDE DEF x, y
<1>6. x # <<>> /\ Head(x) = x[1] /\ Tail(x) \in Seq(W) /\ Len(Tail(x)) = Len(q) - 1
      /\ \A i \in 1 .. Len(q) - 1 : Tail(x)[i] = x[i + 1]
  BY <1>1, <1>2, <1>3
<1>7. y = Tail(x)
  BY <1>1, <1>2, <1>3, <1>5, <1>6, SeqEqual
<1> QED BY <1>1, <1>4, <1>6, <1>7 DEF x, y

(* What leaves the front of a stream.                                      *)
LEMMA FrontFacts ==
  ASSUME NEW S, NEW s \in Seq(S), NEW r \in Seq(S), NEW j \in 0 .. Len(s)
  PROVE  /\ SubSeq(s \o r, 1, j) = SubSeq(s, 1, j)
         /\ SubSeq(s \o r, Len(s) + 1, Len(s \o r)) = r
         /\ Len(s) <= Len(s \o r)
  OBVIOUS

LEMMA FirstAndLast ==
  ASSUME NEW S, NEW s \in Seq(S), NEW n \in 0 .. Len(s)
  PROVE  FirstUnits(s, n) \o LastUnits(s, Len(s) - n) = s
<1>1. Len(s) - n \in 0 .. Len(s) /\ Len(s) - (Len(s) - n) + 1 = n + 1
  OBVIOUS
<1>2. SubSeq(s, 1, n) \o SubSeq(s, n + 1, Len(s)) = s
  <2> DEFINE a == SubSeq(s, 1, n)  b == SubSeq(s, n + 1, Len(s))
  <2>1. /\ a \in Seq(S) /\ Len(a) = n /\ \A i \in 1 .. n : a[i] = s[i]
    OBVIOUS
  <2>2. /\ b \in Seq(S) /\ Len(b) = Len(s) - n
        /\ \A i \in 1 .. Len(s) - n : b[i] = s[n + i]
    OBVIOUS
  <2> HIDE DEF a, b
  <2>3. a \o b \in Seq(S) /\ Len(a \o b) = Len(s)
    BY <2>1, <2>2
  <2>4. ASSUME NEW i \in 1 .. Len(s) PROVE (a \o b)[i] = s[i]
    <3>1. CASE i <= n
      <4>1. i \in 1 .. n /\ i \in 1 .. Len(a)
        BY <2>1, <3>1
      <4>2. (a \o b)[i] = a[i]
        BY <2>1, <2>2, <4>1
      <4> QED BY <2>1, <4>1, <4>2
    <3>2. CASE i > n
      <4>1. i - n \in 1 .. Len(s) - n /\ n + (i - n) = i
        BY <3>2
      <4>2. (a \o b)[i] = b[i - n]
        BY <2>1, <2>2, <3>2
      <4>3. b[i - n] = s[n + (i - n)]
        BY <2>2, <4>1
      <4> QED BY <4>1, <4>2, <4>3
    <3>3. i <= n \/ i > n
      OBVIOUS
    <3> QED BY ONLY <3>1, <3>2, <3>3
  <2>5. a \o b = s
    BY <2>3, <2>4, SeqEqual
  <2> QED BY <2>5 DEF a, b
<1> QED BY <1>1, <1>2 DEF FirstUnits, LastUnits

LEMMA Assoc ==
  ASSUME NEW S, NEW a \in Seq(S), NEW b \in Seq(S), NEW c \in Seq(S)
  PROVE  /\ (a \o b) \o c = a \o (b \o c)
         /\ a \o b \in Seq(S)
         /\ a \o <<>> = a /\ <<>> \o a = a
  OBVIOUS

(* The parts of the stream.                                                *)
LEMMA QueuedIs ==
  FlTypeOK => /\ Contents \in [Buffers \cup {FlushRequest} -> Streams]
              /\ writeQ \in Seq(Buffers \cup {FlushRequest})
              /\ Queued = [i \in DOMAIN writeQ |-> Contents[writeQ[i]]]
              /\ Queued \in Seq(Streams)
              /\ FlattenSeq(Queued) \in Streams
<1> SUFFICES ASSUME FlTypeOK
             PROVE  /\ Contents \in [Buffers \cup {FlushRequest} -> Streams]
                    /\ writeQ \in Seq(Buffers \cup {FlushRequest})
                    /\ Queued = [i \in DOMAIN writeQ |-> Contents[writeQ[i]]]
                    /\ Queued \in Seq(Streams)
                    /\ FlattenSeq(Queued) \in Streams
  OBVIOUS
<1> DEFINE S == Buffers \cup {FlushRequest}
<1>1. \A b \in Buffers : Units(text[b]) \in Streams
  BY UnitsFacts DEF FlTypeOK, Streams
<1>2. <<>> \in Streams
  BY DEF Streams
<1>3. Contents \in [S -> Streams]
  BY <1>1, <1>2 DEF Contents
<1>4. writeQ \in Seq(S)
  BY DEF FlTypeOK
<1>5. \A i \in DOMAIN writeQ : writeQ[i] \in S
  BY <1>4
<1>6. Queued = [i \in DOMAIN writeQ |-> Contents[writeQ[i]]]
  BY <1>5 DEF Queued, Contents
<1> HIDE DEF S
<1>7. Queued \in Seq(Streams)
  BY <1>3, <1>4, <1>6, MapSeq
<1>8. FlattenSeq(Queued) \in Streams
  BY <1>7, FlattenType DEF Streams
<1> QED BY <1>3, <1>4, <1>6, <1>7, <1>8 DEF S

LEMMA HandTypes ==
  FlIInv => /\ cache \in Streams /\ InHand \in Streams
            /\ lpc \in {"copy", "write"} => Units(text[logMsg]) \in Streams
            /\ lpc = "write" => left \in 0 .. Len(Units(text[logMsg])) /\ LeftOver(left) \in Streams
<1> SUFFICES ASSUME FlIInv
             PROVE  /\ cache \in Streams /\ InHand \in Streams
                    /\ lpc \in {"copy", "write"} => Units(text[logMsg]) \in Streams
                    /\ lpc = "write" => left \in 0 .. Len(Units(text[logMsg])) /\ LeftOver(left) \in Streams
  OBVIOUS
<1>1. cache \in Streams
  BY DEF FlIInv, FlTypeOK, Streams
<1>2. lpc \in {"copy", "write"} =>
        /\ Units(text[logMsg]) \in Seq(Text \X Nat)
        /\ Len(Units(text[logMsg])) = text[logMsg].len
        /\ text[logMsg].len \in 0 .. BufferSize
  <2> SUFFICES ASSUME lpc \in {"copy", "write"}
               PROVE  /\ Units(text[logMsg]) \in Seq(Text \X Nat)
                      /\ Len(Units(text[logMsg])) = text[logMsg].len
                      /\ text[logMsg].len \in 0 .. BufferSize
    OBVIOUS
  <2>1. text[logMsg] \in Text
    BY DEF FlIInv, FlTypeOK, LoggerHolds
  <2> QED BY <2>1, UnitsFacts
<1>3. lpc = "write" => left \in 0 .. Len(Units(text[logMsg]))
  BY <1>2, LoggerAssumption DEF FlIInv, FlTypeOK, LeftFits
<1>4. lpc = "write" => LeftOver(left) \in Streams
  BY <1>2, <1>3, PieceFacts DEF LeftOver, Streams
<1>5. InHand \in Streams
  <2>1. <<>> \in Streams
    BY DEF Streams
  <2> QED BY <1>2, <1>4, <2>1 DEF InHand, Streams
<1> QED BY <1>1, <1>2, <1>3, <1>4, <1>5 DEF Streams

-----------------------------------------------------------------------------
(* The steps: most leave the stream as it is; a message is accepted when   *)
(* it is sent; the file buffer is stored when it is written.               *)

(* The stream does not move.                                               *)
Still == UNCHANGED <<file, failures, Accepted, Pending>>

LEMMA StillIsStutter == Still => UNCHANGED Stream!vars
  BY DEF Still, Stream!vars

(* The messages of a task are accepted when it has sent them.              *)
LEMMA AcceptedSame ==
  ASSUME FlTypeOK, pc' = pc, calls' = calls
  PROVE  Accepted' = Accepted
  BY DEF Accepted

LEMMA QueuedSame ==
  ASSUME writeQ' = writeQ, FlTypeOK,
         \A b \in Buffers : In(b, writeQ) => text'[b] = text[b]
  PROVE  Queued' = Queued
<1>1. \A i \in DOMAIN writeQ : writeQ[i] # FlushRequest => writeQ[i] \in Buffers /\ In(writeQ[i], writeQ)
  BY DEF FlTypeOK, In
<1>2. \A i \in DOMAIN writeQ :
        (IF writeQ[i] = FlushRequest THEN <<>> ELSE Units(text[writeQ[i]]))
          = (IF writeQ[i] = FlushRequest THEN <<>> ELSE Units(text'[writeQ[i]]))
  BY <1>1
<1> QED BY <1>2 DEF Queued

LEMMA StartSchedulerMoves ==
  ASSUME StreamInv, StartScheduler
  PROVE  Still
BY DEF StartScheduler, Still, Pending, Accepted, InHand, Queued, LeftOver, taskVars, loggerVars

LEMMA LogMoves ==
  ASSUME NEW t \in Tasks, NEW len, StreamInv, Log(t, len)
  PROVE  Still
<1>1. /\ pc \in [Tasks -> {"idle", "get", "format", "send", "print"}]
      /\ calls \in [Callers -> Nat] /\ Tasks \subseteq Callers
      /\ pc[t] = "idle" /\ pc' = [pc EXCEPT ![t] = "get"] /\ calls' = [calls EXCEPT ![t] = @ + 1]
  BY DEF StreamInv, FlIInv, FlTypeOK, Log, Callers
<1>2. \A c \in Callers :
        (IF c \in Tasks /\ pc'[c] \in {"get", "format", "send"} THEN calls'[c] - 1 ELSE calls'[c])
          = (IF c \in Tasks /\ pc[c] \in {"get", "format", "send"} THEN calls[c] - 1 ELSE calls[c])
  BY <1>1
<1>3. Accepted' = Accepted
  BY <1>2 DEF Accepted
<1> QED BY <1>3 DEF Log, Still, Pending, InHand, Queued, LeftOver, loggerVars

LEMMA GetBufferMoves ==
  ASSUME NEW t \in Tasks, StreamInv, GetBuffer(t)
  PROVE  Still
<1>1. \A u \in Tasks : pc'[u] \in {"get", "format", "send"} <=> pc[u] \in {"get", "format", "send"}
  BY DEF StreamInv, FlIInv, FlTypeOK, GetBuffer
<1>2. Accepted' = Accepted
  BY <1>1 DEF Accepted, GetBuffer
<1> QED BY <1>2 DEF GetBuffer, Still, Pending, InHand, Queued, LeftOver, loggerVars

LEMMA PrintMessageMoves ==
  ASSUME NEW t \in Tasks, StreamInv, PrintMessage(t)
  PROVE  Still
<1>1. \A u \in Tasks : pc'[u] \in {"get", "format", "send"} <=> pc[u] \in {"get", "format", "send"}
  BY DEF StreamInv, FlIInv, FlTypeOK, PrintMessage, Return
<1>2. Accepted' = Accepted
  BY <1>1 DEF Accepted, PrintMessage
<1> QED BY <1>2 DEF PrintMessage, Return, Still, Pending, InHand, Queued, LeftOver, loggerVars

(* A buffer that is formatted is neither queued nor in the logger's hand.  *)
LEMMA FormatMoves ==
  ASSUME NEW t \in Tasks, StreamInv, Format(t)
  PROVE  Still
<1>1. \A u \in Tasks : pc'[u] \in {"get", "format", "send"} <=> pc[u] \in {"get", "format", "send"}
  BY DEF StreamInv, FlIInv, FlTypeOK, Format
<1>2. Accepted' = Accepted
  BY <1>1 DEF Accepted, Format
<1>3. buffer[t] \in Buffers /\ Holds(t, buffer[t])
  BY DEF StreamInv, FlIInv, FlTypeOK, InFlight, Holds, Format
<1>4. ~ In(buffer[t], writeQ) /\ ~ LoggerHas(buffer[t])
  BY <1>3 DEF StreamInv, FlIInv, NoSharing
<1>5. text \in [Buffers -> Text] /\ text' = [text EXCEPT ![buffer[t]] = msg[t]]
  BY DEF StreamInv, FlIInv, FlTypeOK, Format
<1>6. Queued' = Queued
  <2>1. \A b \in Buffers : In(b, writeQ) => text'[b] = text[b]
    BY <1>3, <1>4, <1>5
  <2>2. FlTypeOK /\ writeQ' = writeQ
    BY DEF StreamInv, FlIInv, Format
  <2> QED BY <2>1, <2>2, QueuedSame
<1>7. InHand' = InHand
  <2>1. lpc \in {"copy", "write"} => text'[logMsg] = text[logMsg]
    <3>1. lpc \in {"copy", "write"} => logMsg \in Buffers /\ LoggerHas(logMsg)
      BY DEF StreamInv, FlIInv, FlTypeOK, LoggerHolds, LoggerHas
    <3> QED BY <1>3, <1>4, <1>5, <3>1
  <2>2. UNCHANGED <<lpc, logMsg, left>>
    BY DEF Format, loggerVars
  <2> QED BY <2>1, <2>2 DEF InHand, LeftOver
<1> QED BY <1>2, <1>6, <1>7 DEF Format, Still, Pending, loggerVars

LEMMA FlushTimeoutMoves ==
  ASSUME StreamInv, FlushTimeout
  PROVE  Still
BY AcceptedSame DEF StreamInv, FlIInv, FlushTimeout, Still, Pending, InHand, Queued, taskVars

LEMMA ReturnBufferMoves ==
  ASSUME StreamInv, ReturnBuffer
  PROVE  Still
BY AcceptedSame DEF StreamInv, FlIInv, ReturnBuffer, Still, Pending, InHand, Queued, taskVars

LEMMA StutterMoves ==
  ASSUME StreamInv, UNCHANGED flVars
  PROVE  Still
BY DEF flVars, Still, Pending, Accepted, InHand, Queued, LeftOver, taskVars, loggerVars

(* A flush request adds nothing.                                           *)
LEMMA RequestFlushMoves ==
  ASSUME NEW t \in Tasks, StreamInv, RequestFlush(t)
  PROVE  Still
<1>1. /\ UNCHANGED <<pc, calls, file, failures, cache, lpc, logMsg, left, text>>
      /\ writeQ' = Append(writeQ, FlushRequest) /\ FlTypeOK /\ FlIInv
  BY DEF RequestFlush, loggerVars, StreamInv, FlIInv
<1>2. /\ Contents \in [Buffers \cup {FlushRequest} -> Streams]
      /\ writeQ \in Seq(Buffers \cup {FlushRequest})
      /\ Queued = [i \in DOMAIN writeQ |-> Contents[writeQ[i]]]
      /\ Queued \in Seq(Streams)
      /\ FlattenSeq(Queued) \in Streams
  BY <1>1, QueuedIs
<1>3. Queued' = Append(Queued, <<>>)
  <2>1. Contents[FlushRequest] = <<>> /\ Contents' = Contents
    BY <1>1 DEF Contents
  <2>2. Queued' = [i \in DOMAIN writeQ' |-> Contents[writeQ'[i]]]
    <3>1. \A i \in DOMAIN writeQ' : writeQ'[i] \in Buffers \cup {FlushRequest}
      <4>1. writeQ' \in Seq(Buffers \cup {FlushRequest})
        BY <1>1, <1>2
      <4> QED BY <4>1
    <3> QED BY <1>1, <3>1 DEF Queued, Contents
  <2>3. [i \in DOMAIN writeQ' |-> Contents[writeQ'[i]]]
          = Append([i \in DOMAIN writeQ |-> Contents[writeQ[i]]], Contents[FlushRequest])
    <3> DEFINE S == Buffers \cup {FlushRequest}
    <3>1. writeQ \in Seq(S) /\ FlushRequest \in S /\ Contents \in [S -> Streams]
      BY <1>2
    <3> HIDE DEF S
    <3> QED BY <1>1, <3>1, MapAppend
  <2> QED BY <1>2, <2>1, <2>2, <2>3
<1>4. FlattenSeq(Queued') = FlattenSeq(Queued)
  <2>1. <<>> \in Seq(Text \X Nat)
    OBVIOUS
  <2>2. FlattenSeq(Append(Queued, <<>>)) = FlattenSeq(Queued) \o <<>>
    BY <1>2, <2>1, FlattenAppend DEF Streams
  <2>3. FlattenSeq(Queued) \o <<>> = FlattenSeq(Queued)
    BY <1>2, Assoc DEF Streams
  <2> QED BY <1>3, <2>2, <2>3
<1>5. Accepted' = Accepted /\ InHand' = InHand
  BY <1>1, AcceptedSame DEF InHand, LeftOver
<1> QED BY <1>1, <1>4, <1>5 DEF Still, Pending

(* What the logger task takes from the queue it has in hand.               *)
LEMMA TakesMoves ==
  ASSUME FlIInv, writeQ # <<>>, writeQ' = Tail(writeQ), text' = text, cache' = cache,
         InHand = <<>>, InHand' = Contents[Head(writeQ)]
  PROVE  Pending' = Pending
<1> DEFINE S == Buffers \cup {FlushRequest}
<1>1. /\ Contents \in [S -> Streams]
      /\ writeQ \in Seq(S)
      /\ Queued = [i \in DOMAIN writeQ |-> Contents[writeQ[i]]]
      /\ Queued \in Seq(Streams)
  BY QueuedIs DEF FlIInv
<1>2. Tail(writeQ) \in Seq(S) /\ Head(writeQ) \in S
  <2> HIDE DEF S
  <2> QED BY <1>1, HeadTailProperties
<1>3. Queued' = [i \in DOMAIN writeQ' |-> Contents[writeQ'[i]]]
  <2>1. \A i \in DOMAIN writeQ' : writeQ'[i] \in S
    <3> HIDE DEF S
    <3>1. writeQ' \in Seq(S)
      BY <1>2
    <3> QED BY <3>1
  <2> QED BY <2>1 DEF Queued, Contents
<1>4. /\ Queued # <<>> /\ Head(Queued) = Contents[Head(writeQ)]
      /\ Queued' = Tail(Queued)
  <2> HIDE DEF S
  <2> QED BY <1>1, <1>3, MapTail
<1>5. FlattenSeq(Queued) = Head(Queued) \o FlattenSeq(Tail(Queued))
  BY <1>1, <1>4, FlattenTail DEF Streams
<1>6. Tail(Queued) \in Seq(Streams) /\ Head(Queued) \in Streams
  BY <1>1, <1>4, HeadTailProperties
<1>7. FlattenSeq(Tail(Queued)) \in Streams
  BY <1>6, FlattenType DEF Streams
<1>8. cache \in Streams
  BY HandTypes
<1> DEFINE h == Head(Queued)  f == FlattenSeq(Tail(Queued))
<1>9. Pending = (cache \o <<>>) \o (h \o f) /\ Pending' = (cache \o h) \o f
  BY <1>4, <1>5 DEF Pending
<1>10. h \in Streams /\ f \in Streams
  BY <1>6, <1>7
<1> HIDE DEF h, f
<1>11. cache \o <<>> = cache /\ (cache \o h) \o f = cache \o (h \o f)
  <2>1. PICK T : T = Text \X Nat
    OBVIOUS
  <2>2. cache \in Seq(T) /\ h \in Seq(T) /\ f \in Seq(T)
    BY <1>8, <1>10, <2>1 DEF Streams
  <2> QED BY ONLY <2>2, Assoc
<1> QED BY <1>9, <1>11

LEMMA ReceiveMoves ==
  ASSUME StreamInv, Receive
  PROVE  Still
<1>1. /\ UNCHANGED <<pc, calls, file, failures, cache, text>>
      /\ writeQ # <<>> /\ writeQ' = Tail(writeQ) /\ logMsg' = Head(writeQ) /\ Head(writeQ) # FlushRequest
      /\ lpc = "receive" /\ lpc' = "copy" /\ FlIInv /\ FlTypeOK
  BY DEF Receive, taskVars, StreamInv, FlIInv
<1>2. Head(writeQ) \in Buffers
  BY <1>1, TailMembers DEF FlTypeOK
<1>3. InHand = <<>> /\ InHand' = Contents[Head(writeQ)]
  BY <1>1, <1>2 DEF InHand, Contents
<1>4. Pending' = Pending
  BY <1>1, <1>3, TakesMoves
<1>5. Accepted' = Accepted
  BY <1>1, AcceptedSame
<1> QED BY <1>1, <1>4, <1>5 DEF Still

LEMMA ReceiveFlushMoves ==
  ASSUME StreamInv, ReceiveFlush
  PROVE  Still
<1>1. /\ UNCHANGED <<pc, calls, file, failures, cache, text>>
      /\ writeQ # <<>> /\ writeQ' = Tail(writeQ) /\ Head(writeQ) = FlushRequest
      /\ lpc = "receive" /\ lpc' = "flush" /\ FlIInv /\ FlTypeOK
  BY DEF ReceiveFlush, taskVars, StreamInv, FlIInv
<1>2. InHand = <<>> /\ InHand' = Contents[Head(writeQ)]
  BY <1>1 DEF InHand, Contents
<1>3. Pending' = Pending
  BY <1>1, <1>2, TakesMoves
<1>4. Accepted' = Accepted
  BY <1>1, AcceptedSame
<1> QED BY <1>1, <1>3, <1>4 DEF Still

(* A message is copied in one or two pieces.                               *)
LEMMA CopyMoves ==
  ASSUME StreamInv, Copy
  PROVE  Still
<1> DEFINE units == Units(text[logMsg])
           room == BufferSize - Len(cache)
<1>1. /\ UNCHANGED <<pc, calls, file, failures, writeQ, text, logMsg>>
      /\ lpc = "copy" /\ FlIInv /\ FlTypeOK
      /\ \/ /\ FillsBuffer(Len(units)) /\ lpc' = "write"
            /\ cache' = cache \o FirstUnits(units, room)
            /\ left' = Len(units) - room
         \/ /\ lpc' = "return"
            /\ cache' = cache \o units
  BY DEF Copy, taskVars, StreamInv, FlIInv
<1>2. cache \in Streams /\ units \in Streams
  BY <1>1, HandTypes
<1>3. InHand = units
  BY <1>1 DEF InHand
<1>4. Queued' = Queued /\ Accepted' = Accepted
  BY <1>1, AcceptedSame DEF Queued
<1>5. cache' \o InHand' = cache \o units
  <2>1. CASE /\ FillsBuffer(Len(units)) /\ lpc' = "write"
             /\ cache' = cache \o FirstUnits(units, room)
             /\ left' = Len(units) - room
    <3>1. InHand' = LastUnits(units, left')
      BY <1>1, <2>1 DEF InHand, LeftOver
    <3>2. /\ BufferSize \in Nat /\ Len(cache) \in Nat /\ Len(cache) < BufferSize
          /\ Len(units) \in Nat /\ Len(cache) + Len(units) >= BufferSize
      <4>1. BufferSize \in Nat
        BY LoggerAssumption
      <4>2. Len(cache) < BufferSize
        BY <1>1 DEF FlIInv, CacheFits
      <4>3. Len(cache) \in Nat /\ Len(units) \in Nat
        <5> HIDE DEF units
        <5> QED BY <1>2 DEF Streams
      <4> QED BY <2>1, <4>1, <4>2, <4>3 DEF FillsBuffer
    <3>3. room \in 0 .. Len(units)
      <4> HIDE DEF units
      <4> QED BY <3>2
    <3> HIDE DEF units, room
    <3>4. FirstUnits(units, room) \o LastUnits(units, Len(units) - room) = units
      BY <1>2, <3>3, FirstAndLast DEF Streams
    <3>5. FirstUnits(units, room) \in Streams
      BY <1>2, <3>3, PieceFacts DEF Streams
    <3>6. LastUnits(units, Len(units) - room) \in Streams
      <4>1. Len(units) - room \in 0 .. Len(units)
        BY <3>2, <3>3
      <4> QED BY <1>2, <4>1, PieceFacts DEF Streams
    <3>7. (cache \o FirstUnits(units, room)) \o LastUnits(units, Len(units) - room)
            = cache \o (FirstUnits(units, room) \o LastUnits(units, Len(units) - room))
      <4>1. PICK T, a, b : T = Text \X Nat /\ a = FirstUnits(units, room) /\ b = LastUnits(units, Len(units) - room)
        OBVIOUS
      <4>2. cache \in Seq(T) /\ a \in Seq(T) /\ b \in Seq(T)
        BY <1>2, <3>5, <3>6, <4>1 DEF Streams
      <4>3. (cache \o a) \o b = cache \o (a \o b)
        BY ONLY <4>2, Assoc
      <4> QED BY ONLY <4>1, <4>3
    <3> QED BY <2>1, <3>1, <3>4, <3>7
  <2>2. CASE lpc' = "return" /\ cache' = cache \o units
    <3>1. InHand' = <<>>
      BY <2>2 DEF InHand
    <3>2. cache \o units \in Streams /\ (cache \o units) \o <<>> = cache \o units
      <4> HIDE DEF units
      <4>1. cache \o units \in Streams
        BY <1>2, Assoc DEF Streams
      <4> QED BY <4>1, Assoc DEF Streams
    <3> QED BY <2>2, <3>1, <3>2
  <2> QED BY <1>1, <2>1, <2>2
<1> QED BY <1>1, <1>3, <1>4, <1>5 DEF Still, Pending

(* What the file buffer held leaves RAM.                                   *)
LEMMA WriteMoves ==
  ASSUME NEW j \in 0 .. Len(cache), FlIInv, WriteToFile(cache, j),
         UNCHANGED <<pc, calls, writeQ, text>>,
         cache' = InHand, InHand' = <<>>
  PROVE  [Stream!Next]_(Stream!vars)
<1> DEFINE rest == InHand \o FlattenSeq(Queued)
<1>1. cache \in Streams /\ InHand \in Streams /\ FlattenSeq(Queued) \in Streams
  BY HandTypes, QueuedIs DEF FlIInv
<1>2. rest \in Streams
  BY <1>1, Assoc DEF Streams
<1>3. Pending = cache \o rest
  <2> DEFINE f == FlattenSeq(Queued)
  <2>1. f \in Streams /\ Pending = (cache \o InHand) \o f
    BY <1>1 DEF Pending
  <2> HIDE DEF f
  <2>2. (cache \o InHand) \o f = cache \o (InHand \o f)
    <3>1. cache \in Streams
      BY <1>1
    <3>2. InHand \in Streams
      BY <1>1
    <3>3. f \in Streams
      BY <2>1
    <3>4. PICK T : T = Text \X Nat
      OBVIOUS
    <3>5. cache \in Seq(T) /\ InHand \in Seq(T) /\ f \in Seq(T)
      BY ONLY <3>1, <3>2, <3>3, <3>4 DEF Streams
    <3> QED BY ONLY <3>5, Assoc
  <2> QED BY <2>1, <2>2 DEF f
<1>4. Queued' = Queued /\ Accepted' = Accepted
  BY AcceptedSame DEF Queued, FlIInv
<1>5. Pending' = rest
  <2>1. InHand \o <<>> = InHand
    BY <1>1, Assoc DEF Streams
  <2> QED BY <1>4, <2>1 DEF Pending
<1>6. /\ file' = file \o SubSeq(cache, 1, j) /\ failures \in Nat /\ file \in Streams
      /\ \/ j = Len(cache) /\ failures' = failures
         \/ j < Len(cache) /\ failures' = failures + 1
  BY DEF WriteToFile, FirstUnits, FlIInv, FlTypeOK, Streams
<1>7. (failures' > 0) = (failures > 0 \/ j < Len(cache))
  BY <1>1, <1>6 DEF Streams
<1> HIDE DEF rest
<1>8. /\ SubSeq(cache \o rest, 1, j) = SubSeq(cache, 1, j)
      /\ SubSeq(cache \o rest, Len(cache) + 1, Len(cache \o rest)) = rest
      /\ Len(cache) <= Len(cache \o rest)
  BY <1>1, <1>2, FrontFacts DEF Streams
<1>9. CASE Len(cache) = 0
  <2>1. cache = <<>> /\ j = 0
    BY <1>1, <1>9 DEF Streams
  <2>2. file' = file
    BY <1>6, <2>1 DEF Streams
  <2>3. failures' = failures
    BY <1>6, <2>1
  <2>4. Pending' = Pending
    BY <1>2, <1>3, <1>5, <2>1, Assoc DEF Streams
  <2> QED BY <1>4, <2>2, <2>3, <2>4 DEF Stream!vars
<1>10. CASE Len(cache) # 0
  <2>1. Len(cache) \in 1 .. Len(Pending) /\ j \in 0 .. Len(cache)
    <3>1. cache \o rest \in Streams
      BY <1>1, <1>2, Assoc DEF Streams
    <3>2. Len(cache) \in Nat /\ Len(cache \o rest) \in Nat
      BY <1>1, <3>1 DEF Streams
    <3> QED BY <1>3, <1>8, <1>10, <3>2
  <2>2. Stream!Store(Len(cache), j)
    BY <1>3, <1>4, <1>5, <1>6, <1>7, <1>8 DEF Stream!Store
  <2> QED BY <2>1, <2>2 DEF Stream!Next
<1> QED BY <1>9, <1>10

LEMMA FlushMoves ==
  ASSUME NEW j \in 0 .. Len(cache), StreamInv, Flush(j)
  PROVE  [Stream!Next]_(Stream!vars)
<1>1. /\ FlIInv /\ WriteToFile(cache, j) /\ UNCHANGED <<pc, calls, writeQ, text>>
      /\ lpc = "flush" /\ lpc' = "receive" /\ cache' = <<>>
  BY DEF StreamInv, Flush, taskVars
<1>2. InHand = <<>> /\ InHand' = <<>>
  BY <1>1 DEF InHand
<1> QED BY <1>1, <1>2, WriteMoves

LEMMA WriteFullMoves ==
  ASSUME NEW j \in 0 .. Len(cache), StreamInv, WriteFull(j)
  PROVE  [Stream!Next]_(Stream!vars)
<1>1. /\ FlIInv /\ WriteToFile(cache, j) /\ UNCHANGED <<pc, calls, writeQ, text>>
      /\ lpc = "write" /\ lpc' = "return" /\ cache' = LeftOver(left)
  BY DEF StreamInv, WriteFull, taskVars
<1>2. InHand = LeftOver(left) /\ InHand' = <<>>
  BY <1>1 DEF InHand
<1> QED BY <1>1, <1>2, WriteMoves

LEMMA LoggedIs ==
  ASSUME NEW m, NEW c \in Callers, NEW n, n \in 1 .. MaxCalls[c], NEW len \in 1 .. BufferSize,
         m = [by |-> c, n |-> n, len |-> len]
  PROVE  m \in LoggedMessage
<1>1. m \in [by : {c}, n : 1 .. MaxCalls[c], len : 1 .. BufferSize]
  OBVIOUS
<1> QED BY <1>1 DEF LoggedMessage

(* A message is accepted when it is sent.                                  *)
LEMMA SendBufferMoves ==
  ASSUME NEW t \in Tasks, StreamInv, SendBuffer(t)
  PROVE  [Stream!Next]_(Stream!vars)
<1> DEFINE m == msg[t]
           b == buffer[t]
           S == Buffers \cup {FlushRequest}
<1>1. /\ UNCHANGED <<calls, file, failures, cache, lpc, logMsg, left, text>>
      /\ writeQ' = Append(writeQ, b) /\ FlTypeOK /\ FlIInv
      /\ pc[t] = "send" /\ pc' \in {[pc EXCEPT ![t] = "print"], [pc EXCEPT ![t] = "idle"]}
  BY DEF SendBuffer, Return, loggerVars, StreamInv, FlIInv
<1>2. /\ m \in Message /\ b \in Buffers /\ text[b] = m
      /\ m.by = t /\ m.n = calls[t] /\ calls[t] \in 1 .. MaxCalls[t]
  BY <1>1 DEF StreamInv, MessageIsNext, TextIsFormatted, FlTypeOK, InFlight
<1>3. m \in LoggedMessage
  <2>1. m = [by |-> m.by, n |-> m.n, len |-> m.len] /\ m.len \in 1 .. BufferSize
    BY <1>2 DEF Message
  <2> HIDE DEF m
  <2> QED BY <1>2, <2>1, LoggedIs DEF Callers
<1>4. /\ Contents \in [S -> Streams]
      /\ writeQ \in Seq(S)
      /\ Queued = [i \in DOMAIN writeQ |-> Contents[writeQ[i]]]
      /\ Queued \in Seq(Streams)
      /\ FlattenSeq(Queued) \in Streams
  BY <1>1, QueuedIs
<1>5. Contents[b] = Units(m) /\ Units(m) \in Streams /\ b \in S
  <2>1. b # FlushRequest
    BY <1>2, LoggerAssumption
  <2>2. Contents[b] \in Streams
    BY <1>2, <1>4
  <2> QED BY <1>2, <2>1, <2>2 DEF Contents
<1>6. Queued' = Append(Queued, Units(m))
  <2>1. Queued' = [i \in DOMAIN writeQ' |-> Contents[writeQ'[i]]]
    <3>1. \A i \in DOMAIN writeQ' : writeQ'[i] \in S
      <4> HIDE DEF S, b
      <4>1. writeQ' \in Seq(S)
        BY <1>1, <1>4, <1>5
      <4> QED BY <4>1
    <3> QED BY <1>1, <3>1 DEF Queued, Contents
  <2>2. [i \in DOMAIN writeQ' |-> Contents[writeQ'[i]]]
          = Append([i \in DOMAIN writeQ |-> Contents[writeQ[i]]], Contents[b])
    <3> HIDE DEF S, b
    <3> QED BY <1>1, <1>4, <1>5, MapAppend
  <2> QED BY <1>4, <1>5, <2>1, <2>2
<1>7. FlattenSeq(Queued') = FlattenSeq(Queued) \o Units(m)
  <2> HIDE DEF m
  <2> QED BY <1>4, <1>5, <1>6, FlattenAppend DEF Streams
<1>8. Pending' = Pending \o Units(m)
  <2> DEFINE p == cache \o InHand  q == FlattenSeq(Queued)  r == Units(m)
  <2>1. cache \in Streams /\ InHand \in Streams /\ q \in Streams /\ r \in Streams
    BY <1>1, <1>4, <1>5, HandTypes
  <2>2. p \in Streams
    BY <2>1, Assoc DEF Streams
  <2>3. Pending = p \o q /\ Pending' = p \o (q \o r)
    BY <1>1, <1>7 DEF Pending, InHand, LeftOver
  <2> HIDE DEF p, q, r
  <2>4. (p \o q) \o r = p \o (q \o r)
    <3>1. PICK T : T = Text \X Nat
      OBVIOUS
    <3>2. p \in Seq(T) /\ q \in Seq(T) /\ r \in Seq(T)
      BY <2>1, <2>2, <3>1 DEF Streams
    <3> QED BY ONLY <3>2, Assoc
  <2> QED BY <2>3, <2>4 DEF r
<1>9. /\ calls \in [Callers -> Nat] /\ t \in Callers /\ Tasks \subseteq Callers
      /\ pc \in [Tasks -> {"idle", "get", "format", "send", "print"}]
  BY <1>1 DEF FlTypeOK, Callers
<1>10. Accepted[t] = calls[t] - 1 /\ Accepted' = [Accepted EXCEPT ![t] = @ + 1]
  <2>1. Accepted[t] = calls[t] - 1 /\ Accepted'[t] = calls[t]
    BY <1>1, <1>9 DEF Accepted
  <2>2. \A c \in Callers : c # t => Accepted'[c] = Accepted[c]
    BY <1>1, <1>9 DEF Accepted
  <2>3. DOMAIN Accepted = Callers /\ Accepted' = [c \in Callers |-> Accepted'[c]]
        /\ Accepted = [c \in Callers |-> Accepted[c]]
    BY DEF Accepted
  <2>4. Accepted'[t] = Accepted[t] + 1
    BY <1>9, <2>1
  <2> DEFINE x == Accepted  y == Accepted'
  <2>5. /\ x = [c \in Callers |-> x[c]] /\ y = [c \in Callers |-> y[c]]
        /\ y[t] = x[t] + 1 /\ \A c \in Callers : c # t => y[c] = x[c]
    BY <2>2, <2>3, <2>4
  <2> HIDE DEF x, y
  <2>6. y = [x EXCEPT ![t] = @ + 1]
    BY <1>9, <2>5
  <2> QED BY <2>1, <2>6 DEF x, y
<1>11. Stream!IsNext(m)
  BY <1>2, <1>9, <1>10 DEF Stream!IsNext
<1>12. Stream!Units(m) = Units(m)
  BY DEF Stream!Units, Units
<1> HIDE DEF m
<1>13. Stream!Accept(m)
  BY <1>1, <1>2, <1>8, <1>10, <1>11, <1>12 DEF Stream!Accept
<1> QED BY <1>3, <1>13 DEF Stream!Next

(* Before the scheduler runs, a message is accepted and stored at once.    *)
LEMMA LogBeforeOsMoves ==
  ASSUME NEW len \in 1 .. BufferSize, NEW j \in 0 .. len, StreamInv, LogBeforeOs(len, j)
  PROVE  [Stream!Next]_(Stream!vars)
<1> DEFINE m == [by |-> Boot, n |-> calls[Boot] + 1, len |-> len]
<1>1. /\ UNCHANGED <<writeQ, pc, lpc, cache>> /\ calls' = [calls EXCEPT ![Boot] = @ + 1]
      /\ calls[Boot] < MaxCalls[Boot] /\ WriteToFile(Units(m), j) /\ ~ osRunning
  BY DEF LogBeforeOs
<1>2. writeQ = <<>> /\ lpc = "receive" /\ cache = <<>>
  BY <1>1 DEF StreamInv, FlIInv, QuietBeforeOs, CacheBeforeOs
<1>3. /\ Boot \in Callers /\ Boot \notin Tasks /\ calls \in [Callers -> Nat]
      /\ calls[Boot] \in Nat /\ MaxCalls[Boot] \in Nat /\ failures \in Nat
  BY LoggerAssumption DEF StreamInv, FlIInv, FlTypeOK, Callers
<1>4. m \in LoggedMessage
  <2>1. calls[Boot] + 1 \in 1 .. MaxCalls[Boot]
    BY <1>1, <1>3
  <2> QED BY <1>3, <2>1, LoggedIs
<1>5. Pending = <<>> /\ Pending' = <<>>
  <2>1. InHand = <<>> /\ InHand' = <<>>
    BY <1>1, <1>2 DEF InHand
  <2>2. Queued = <<>> /\ Queued' = <<>>
    BY <1>1, <1>2 DEF Queued
  <2> QED BY <1>1, <1>2, <2>1, <2>2, FlattenEmpty DEF Pending
<1>6. Accepted[Boot] = calls[Boot] /\ Accepted' = [Accepted EXCEPT ![Boot] = @ + 1]
  BY <1>1, <1>3 DEF Accepted
<1>7. m.by = Boot /\ m.n = calls[Boot] + 1 /\ m.len = len
  OBVIOUS
<1>8. Stream!Units(m) = Units(m) /\ Len(Units(m)) = len
  BY <1>7 DEF Stream!Units, Units
<1> HIDE DEF m
<1>9. Stream!IsNext(m)
  BY <1>3, <1>6, <1>7 DEF Stream!IsNext
<1>10. /\ file' = file \o SubSeq(Units(m), 1, j)
       /\ (failures' > 0) = (failures > 0 \/ j < m.len)
  BY <1>1, <1>3, <1>7, <1>8 DEF WriteToFile, FirstUnits
<1>11. Stream!AcceptAndStore(m, j)
  BY <1>5, <1>6, <1>7, <1>8, <1>9, <1>10 DEF Stream!AcceptAndStore
<1> QED BY <1>4, <1>7, <1>11 DEF Stream!Next

LEMMA StepMoves == StreamInv /\ [FlNext]_flVars => [Stream!Next]_(Stream!vars)
<1> SUFFICES ASSUME StreamInv, [FlNext]_flVars PROVE [Stream!Next]_(Stream!vars)
  OBVIOUS
<1>1. Still => [Stream!Next]_(Stream!vars)
  BY StillIsStutter
<1>2. CASE StartScheduler
  BY <1>1, <1>2, StartSchedulerMoves
<1>3. ASSUME NEW len \in Lengths[Boot], NEW j \in 0 .. len, LogBeforeOs(len, j)
      PROVE  [Stream!Next]_(Stream!vars)
  <2>1. len \in 1 .. BufferSize
    BY LengthsInBuffer DEF Callers
  <2> QED BY <1>3, <2>1, LogBeforeOsMoves
<1>4. ASSUME NEW t \in Tasks, NEW len \in Lengths[t], Log(t, len)
      PROVE  [Stream!Next]_(Stream!vars)
  BY <1>1, <1>4, LogMoves
<1>5. ASSUME NEW t \in Tasks, RequestFlush(t)
      PROVE  [Stream!Next]_(Stream!vars)
  BY <1>1, <1>5, RequestFlushMoves
<1>6. ASSUME NEW t \in Tasks, Caller(t)
      PROVE  [Stream!Next]_(Stream!vars)
  BY <1>1, <1>6, GetBufferMoves, FormatMoves, SendBufferMoves, PrintMessageMoves DEF Caller
<1>7. ASSUME LoggerTask
      PROVE  [Stream!Next]_(Stream!vars)
  BY <1>1, <1>7, ReceiveMoves, ReceiveFlushMoves, FlushTimeoutMoves, FlushMoves, CopyMoves,
     WriteFullMoves, ReturnBufferMoves DEF LoggerTask
<1>8. CASE UNCHANGED flVars
  BY <1>1, <1>8, StutterMoves
<1> QED BY <1>2, <1>3, <1>4, <1>5, <1>6, <1>7, <1>8 DEF FlNext

LEMMA InitMoves == FlInit => Stream!Init
<1> SUFFICES ASSUME FlInit PROVE Stream!Init
  OBVIOUS
<1>1. InHand = <<>> /\ Queued = <<>>
  BY DEF FlInit, InHand, Queued
<1>2. Pending = <<>>
  BY <1>1, FlattenEmpty DEF FlInit, Pending
<1>3. Accepted = [c \in Callers |-> 0]
  BY DEF FlInit, Accepted, Callers
<1> QED BY <1>2, <1>3 DEF FlInit, Stream!Init

(* With any tasks, buffers and lengths of messages, whatever the           *)
(* interleaving of callers and logger task, the file is the stream of the  *)
(* logged messages: in order, complete, cut nowhere but where a write      *)
(* failed.                                                                 *)
THEOREM FileIsTheStream == FlSpec => ImplementsStream
<1>1. FlInit => Stream!Init
  BY InitMoves
<1>2. StreamInv /\ [FlNext]_flVars => [Stream!Next]_(Stream!vars)
  BY StepMoves
<1>3. FlSpec => []StreamInv
  BY StreamInvariance
<1> QED BY <1>1, <1>2, <1>3, PTL DEF FlSpec, ImplementsStream, Stream!Spec

-----------------------------------------------------------------------------
(* The volume: the invariant.                                              *)

(* The chains as sequences.  Owner of a chain is a file, or Nobody while a *)
(* call unlinks the chain or has not linked it yet.                        *)
Nobody == CHOOSE x : x \notin Names
Owners == Names \cup {Nobody}

IsChain(table, first, s) ==
  /\ s \in Seq(Clusters)
  /\ first = IF s = <<>> THEN 0 ELSE s[1]
  /\ \A i \in 1 .. Len(s) : table[s[i]] = IF i = Len(s) THEN LastLink ELSE s[i + 1]
  /\ \A i, j \in 1 .. Len(s) : s[i] = s[j] => i = j

Apart(s, t) == \A i \in 1 .. Len(s), j \in 1 .. Len(t) : s[i] # t[j]

Chains(table, heads, ch) ==
  /\ \A o \in DOMAIN heads : IsChain(table, heads[o], ch[o]) /\ \A i \in 1 .. Len(ch[o]) : ch[o][i] # Root
  /\ \A o, q \in DOMAIN heads : o # q => Apart(ch[o], ch[q])

Orphan ==
  IF step \in {"remove", "replace"} THEN cur.clust
  ELSE IF step = "link" \/ (step = "got" /\ File.sclust = 0) THEN cur.new ELSE 0

Heads == [o \in Owners |-> IF o = Nobody THEN Orphan ELSE FirstOf[o]]
HeadsOf(d) == [f \in Names |-> d[f].first]

Steppings ==
  {"rest", "open", "unlink", "write", "read", "seek", "sync", "remove", "flush", "replace", "opened",
   "chain", "link", "got", "store", "fit", "written", "fetch", "pick", "follow", "fill", "fsinfo"}

DirEntries == {e \in [size : Nat, first : {0} \cup Clusters, used : BOOLEAN] : ~ e.used => e = NoEntry}
Tables == [Clusters -> {0} \cup Clusters \cup {LastLink}]
Sectors == {FatSector(c) : c \in Clusters} \cup {DirSector, InfoSector}

Starts == {0} \cup Clusters

FilFields == {"open", "write", "written", "dirty", "sclust", "clust", "fsize", "fptr", "dsect", "buf"}
FilType(h) ==
  /\ DOMAIN h = FilFields
  /\ h.open \in BOOLEAN /\ h.write \in BOOLEAN /\ h.written \in BOOLEAN /\ h.dirty \in BOOLEAN
  /\ h.sclust \in Starts /\ h.clust \in Starts /\ h.fsize \in Nat /\ h.fptr \in Nat

CurType(c) ==
  /\ DOMAIN c = {"call", "left", "clust", "new", "out"}
  /\ c.left \in Nat /\ c.clust \in Starts \cup {LastLink} /\ c.new \in Starts

TypesW ==
  /\ fat \in Tables /\ dir \in [Names -> DirEntries]
  /\ disk \in [fat : Tables, dir : [Names -> DirEntries], free : Int, last : 1 .. LastCluster]
  /\ winsect \in Sectors /\ wflag \in BOOLEAN
TypesF == DOMAIN fil = Names /\ \A f \in Names : FilType(fil[f])
TypesC == fsiFlag \in BOOLEAN /\ freeClust \in Int /\ lastClust \in 1 .. LastCluster
TypesN == fatCalls \in 0 .. MaxFatCalls /\ restarts \in 0 .. MaxRestarts
Types == TypesW /\ TypesF /\ TypesC /\ TypesN /\ step \in Steppings /\ CurType(cur)

(* The FAT and the directory differ from the disk in the window only.      *)
WindowInv ==
  /\ \A c \in Clusters : disk.fat[c] # fat[c] => wflag /\ FatSector(c) = winsect
  /\ disk.dir # dir => wflag /\ winsect = DirSector
  /\ step = "fsinfo" => ~ wflag

DiskInv ==
  \E cd \in [Names -> Seq(Clusters)] :
    /\ Chains(disk.fat, HeadsOf(disk.dir), cd)
    /\ \A f \in Names : disk.dir[f].size <= Len(cd[f]) * ClusterUnits

(* Which calls are in which steps.                                         *)
OpenOps == {"create", "openAlways", "openExisting"}
Chaining == {"chain", "link", "got"}
Opening == {"open", "replace", "opened"}
WriteSteps == {"write", "store", "fit", "written"}
ReadSteps == {"read", "fetch", "pick"}
SeekSteps == {"seek", "follow", "fill"}
CallInv ==
  ~ Idle =>
    /\ cur.call.f \in Names
    /\ step \in Opening => cur.call.op \in OpenOps /\ ~ File.open
    /\ step \in {"replace", "opened"} => cur.new \in Clusters \ {Root} /\ dir[cur.call.f] = Entry(0, 0)
    /\ step \in {"unlink", "remove"} => cur.call.op = "unlink" /\ ~ File.open
    /\ step \in {"sync", "flush", "fsinfo"} => cur.call.op \in {"sync", "close", "unlink"}
    /\ step = "sync" => File.open /\ cur.call.op # "unlink"
    /\ step \in {"flush", "fsinfo"} =>
         IF cur.call.op = "unlink" THEN ~ File.open ELSE File.open /\ ~ File.written
    /\ step \in WriteSteps => cur.call.op = "write"
    /\ step \in ReadSteps => cur.call.op = "read" /\ File.open
    /\ step \in SeekSteps => cur.call.op = "seek" /\ File.open
    /\ step \in Chaining => cur.call.op \in {"write", "seek"}
    /\ step \in WriteSteps \cup Chaining => File.open /\ File.write
    /\ step = "opened" => ~ File.dirty
    /\ step \in {"remove", "replace"} => cur.clust # 0

Busy(f) == ~ Idle /\ cur.call.f = f

(* Where the file is, and how its entry says so: s is its chain.           *)
(* h.clust is the cluster of the last unit before the position ...         *)
Behind(h, s) == h.fptr > 0 => h.clust = s[((h.fptr - 1) \div ClusterUnits) + 1]
(* ... or of the next one.                                                 *)
Ahead(h, s) == h.fptr \div ClusterUnits + 1 <= Len(s) /\ h.clust = s[h.fptr \div ClusterUnits + 1]
AtEdge(h) == h.fptr % ClusterUnits = 0

PosInv(f, s) ==
  LET h == fil[f]
  IN  IF Busy(f) /\ step \in {"store", "fit", "fetch", "pick", "follow"} THEN Ahead(h, s)
      ELSE IF Busy(f) /\ step \in Chaining /\ cur.call.op = "seek" THEN s # <<>> => Ahead(h, s)
      ELSE h.fptr <= Len(s) * ClusterUnits /\ Behind(h, s)

(* A file that is open, and its entry.                                     *)
UnusedInv(f) == ~ dir[f].used => dir[f] = NoEntry /\ ~ fil[f].open
DirtyInv(f) == fil[f].dirty => fil[f].open /\ (fil[f].written \/ (Busy(f) /\ cur.call.op = "write"))
RoomInv(f, s) ==
  /\ dir[f].size <= Len(s) * ClusterUnits
  /\ fil[f].open => fil[f].fsize <= Len(s) * ClusterUnits
PlaceInv(f, s) ==
  fil[f].open =>
    /\ PosInv(f, s)
    /\ ~ (Busy(f) /\ cur.call.op \in {"write", "seek"}) => fil[f].fptr <= fil[f].fsize
EntryInv(f) ==
  fil[f].open =>
    /\ dir[f].first # fil[f].sclust => dir[f].first = 0 /\ dir[f].size = 0
    /\ ~ fil[f].written =>
         /\ dir[f].size = fil[f].fsize
         /\ dir[f].first # fil[f].sclust =>
              /\ Busy(f) /\ cur.call.op \in {"write", "seek"} /\ step # "seek"
              /\ step = "fill" => fil[f].fptr > 0
FileInv(f, s) == UnusedInv(f) /\ DirtyInv(f) /\ RoomInv(f, s) /\ PlaceInv(f, s) /\ EntryInv(f)

(* The calls that follow a chain, with what is left of them: s is the     *)
(* file's chain.                                                           *)
LeftInv == step \in {"fetch", "pick", "store", "fit", "follow"} \cup Chaining => cur.left > 0
ReadInv == step \in ReadSteps => File.fptr + cur.left <= File.fsize
SectorInv == step \in {"store", "fetch", "fit"} => AtSector
SeekInv ==
  /\ step = "seek" => File.fptr <= File.fsize /\ (~ File.write => cur.left <= File.fsize)
  /\ step = "follow" =>
       /\ AtEdge(File) /\ cur.clust = File.clust
       /\ ~ File.write => File.fptr + cur.left <= File.fsize
(* A cluster is asked for because the chain s ends here, or may.           *)
ChainInv(s) ==
  step \in Chaining =>
    /\ AtEdge(File)
    /\ s = <<>> <=> cur.clust = 0
    /\ cur.call.op = "write" =>
         cur.clust = IF File.fptr = 0 THEN 0 ELSE s[File.fptr \div ClusterUnits]
    /\ cur.call.op = "seek" =>
         /\ cur.clust = File.clust
         /\ IF s = <<>> THEN File.fptr = 0 ELSE cur.left > ClusterUnits
LinkInv(s) ==
  step = "link" => cur.new # 0 /\ fat[cur.new] = LastLink /\ (s # <<>> => cur.clust = s[Len(s)])
(* The cluster that was got is the one asked for; there is none after the  *)
(* last.                                                                   *)
GotInv(s) ==
  step = "got" /\ s # <<>> =>
    LET n == Len(s) - (IF cur.call.op = "seek" THEN 1 ELSE 0)
        k == File.fptr \div ClusterUnits + (IF cur.call.op = "seek" THEN 2 ELSE 1)
    IN  IF cur.new = 0 THEN n * ClusterUnits = File.fptr ELSE k <= Len(s) /\ cur.new = s[k]
ProgressInv(s) ==
  LeftInv /\ ReadInv /\ SectorInv /\ SeekInv /\ ChainInv(s) /\ LinkInv(s) /\ GotInv(s)

(* Clusters in use, and the count of the free ones.                        *)
Free == {c \in Clusters : fat[c] = 0}
Loose == IF step = "link" THEN 1 ELSE 0
Owned(table, ch) ==
  \A c \in Clusters : table[c] # 0 <=> c = Root \/ \E o \in Owners : \E i \in 1 .. Len(ch[o]) : ch[o][i] = c
AccountInv(ch) ==
  restarts = 0 => Owned(fat, ch) /\ freeClust = Cardinality(Free) + Loose

CountInv ==
  /\ freeClust >= Unknown /\ freeClust <= Cardinality(Free) + Loose + restarts * (LastCluster - 1)
  /\ disk.free >= Unknown /\ disk.free <= (restarts + 1) * (LastCluster - 1)

FatInvOf(ch) ==
  /\ Chains(fat, Heads, ch)
  /\ \A f \in Names : FileInv(f, ch[f])
  /\ ~ Idle => ProgressInv(ch[cur.call.f])
  /\ AccountInv(ch)

WInv == TypesW /\ fat[Root] # 0 /\ disk.fat[Root] # 0 /\ WindowInv

FatInv ==
  /\ Types /\ WInv /\ DiskInv /\ CallInv /\ CountInv
  /\ \E ch \in [Owners -> Seq(Clusters)] : FatInvOf(ch)

-----------------------------------------------------------------------------
(* Constants and arithmetic.                                               *)

LEMMA FatConstants ==
  /\ LastCluster \in Nat /\ LastCluster >= 3 /\ Root \in Clusters
  /\ \A c \in Clusters : c \in Nat /\ c >= 2 /\ c <= LastCluster /\ c # LastLink /\ c # 0
  /\ LastLink \notin Clusters /\ 0 \notin Clusters /\ LastLink # 0
  /\ SectorSize \in Nat /\ SectorSize > 0 /\ ClusterSize \in Nat /\ ClusterSize > 0
  /\ PerSector \in Nat /\ PerSector > 0
  /\ ClusterUnits \in Nat /\ ClusterUnits > 0
  /\ Nobody \notin Names
<1>1. Nobody \notin Names
  BY NoSetContainsEverything DEF Nobody
<1>2. /\ LastCluster \in Nat /\ LastCluster >= 3
      /\ SectorSize \in Nat /\ SectorSize > 0 /\ ClusterSize \in Nat /\ ClusterSize > 0
      /\ PerSector \in Nat /\ PerSector > 0
  BY FatAssumption, SMT
<1>3. ClusterUnits \in Nat /\ ClusterUnits > 0
  BY <1>2, SMT DEF ClusterUnits
<1> QED
  BY <1>1, <1>2, <1>3, SMT DEF Clusters, Root, LastLink

(* The n-th link of a chain that is the sequence s.                        *)
LinkOf(s, i) == IF i < Len(s) THEN s[i + 1] ELSE IF i = Len(s) /\ i # 0 THEN LastLink ELSE 0

LEMMA NthIsLink ==
  ASSUME NEW table, NEW first, NEW s, IsChain(table, first, s), NEW n \in Nat
  PROVE  Nth(table, first, n) = LinkOf(s, n)
<1> DEFINE step1(l, i) ==
             IF i = 0 THEN first ELSE LET c == l[i - 1] IN IF c \in Clusters THEN table[c] ELSE 0
           l == CHOOSE f : f = [i \in 0 .. n |-> step1(f, i)]
           g == [i \in 0 .. n |-> LinkOf(s, i)]
<1>1. Nth(table, first, n) = l[n]
  BY DEF Nth
<1>2. Len(s) \in Nat /\ \A i \in 1 .. Len(s) : s[i] \in Clusters
  BY ElementOfSeq, LenProperties DEF IsChain
<1>3. LinkOf(s, 0) = first
  <2>1. CASE s = <<>>
    BY <2>1, EmptySeq DEF LinkOf, IsChain
  <2>2. CASE s # <<>>
    <3>1. Len(s) # 0
      BY <2>2, EmptySeq DEF IsChain
    <3> QED
      BY <3>1, <2>2, <1>2, SMT DEF LinkOf, IsChain
  <2> QED
    BY <2>1, <2>2
<1>4. ASSUME NEW i \in Nat, i > 0
      PROVE  LinkOf(s, i) = IF LinkOf(s, i - 1) \in Clusters THEN table[LinkOf(s, i - 1)] ELSE 0
  <2>1. CASE i - 1 < Len(s)
    <3>1. i \in 1 .. Len(s) /\ LinkOf(s, i - 1) = s[i]
      BY <1>2, <1>4, <2>1, SMT DEF LinkOf
    <3>2. table[s[i]] = IF i = Len(s) THEN LastLink ELSE s[i + 1]
      BY <3>1 DEF IsChain
    <3>3. LinkOf(s, i) = IF i = Len(s) THEN LastLink ELSE s[i + 1]
      BY <1>2, <1>4, <3>1, SMT DEF LinkOf
    <3> QED
      BY <1>2, <3>1, <3>2, <3>3
  <2>2. CASE ~ (i - 1 < Len(s))
    <3>1. LinkOf(s, i - 1) \in {LastLink, 0} /\ LinkOf(s, i) = 0
      BY <1>2, <1>4, <2>2, SMT DEF LinkOf
    <3> QED
      BY <3>1, FatConstants
  <2> QED
    BY <2>1, <2>2
<1>5. g = [i \in 0 .. n |-> step1(g, i)]
  <2>1. ASSUME NEW i \in 0 .. n PROVE g[i] = step1(g, i)
    <3>1. CASE i = 0
      BY <3>1, <1>3
    <3>2. CASE i # 0
      <4>1. i \in Nat /\ i > 0 /\ i - 1 \in 0 .. n
        BY <3>2, SMT
      <4> QED
        BY <4>1, <1>4, <3>2
    <3> QED
      BY <3>1, <3>2
  <2> QED
    BY <2>1
<1>6. l = [i \in 0 .. n |-> step1(l, i)]
  BY <1>5
<1> HIDE DEF l
<1>7. ASSUME NEW k \in 0 .. n, l[k] # LinkOf(s, k)
      PROVE  FALSE
  <2> DEFINE Bad == {i \in 0 .. n : l[i] # LinkOf(s, i)}
  <2>1. k \in Bad /\ Bad \subseteq Nat
    BY <1>7
  <2>2. PICK m \in Bad : \A j \in Bad : ~ (<<j, m>> \in OpToRel(<, Nat))
    <3>1. IsWellFoundedOn(OpToRel(<, Nat), Nat)
      BY NatLessThanWellFounded
    <3> HIDE DEF Bad
    <3> QED
      BY <2>1, <3>1, WFMin
  <2>0. m \in 0 .. n /\ l[m] # LinkOf(s, m)
    BY <2>2
  <2>3. CASE m = 0
    BY <1>3, <1>6, <2>0, <2>3
  <2>4. CASE m # 0
    <3>1. m \in Nat /\ m > 0 /\ m - 1 \in 0 .. n /\ m - 1 < m /\ m \in 0 .. n /\ m - 1 \in Nat
      BY <2>0, <2>4, SMT
    <3>2. <<m - 1, m>> \in OpToRel(<, Nat)
      BY <3>1 DEF OpToRel
    <3>3. l[m - 1] = LinkOf(s, m - 1)
      BY <2>2, <3>1, <3>2 DEF Bad
    <3>4. l[m] = IF l[m - 1] \in Clusters THEN table[l[m - 1]] ELSE 0
      BY <1>6, <3>1, <2>4
    <3>5. l[m] = LinkOf(s, m)
      BY <1>4, <3>1, <3>3, <3>4
    <3> QED
      BY <2>0, <3>5
  <2> QED
    BY <2>3, <2>4
<1> QED
  BY <1>1, <1>7

LEMMA ChainFacts ==
  ASSUME NEW table, NEW first, NEW s, IsChain(table, first, s)
  PROVE  /\ Len(s) \in Nat /\ \A i \in 1 .. Len(s) : s[i] \in Clusters
         /\ first = 0 <=> s = <<>>
         /\ s = <<>> <=> Len(s) = 0
         /\ s # <<>> => 1 \in 1 .. Len(s) /\ Len(s) \in 1 .. Len(s) /\ first = s[1] /\ first \in Clusters
<1>1. s \in Seq(Clusters)
  BY DEF IsChain
<1>2. Len(s) \in Nat /\ \A i \in 1 .. Len(s) : s[i] \in Clusters
  BY <1>1, ElementOfSeq, LenProperties
<1>3. s = <<>> <=> Len(s) = 0
  BY <1>1, EmptySeq, <1>2
<1>4. s # <<>> => 1 \in 1 .. Len(s) /\ Len(s) \in 1 .. Len(s)
  BY <1>2, <1>3, SMT
<1>5. first = IF s = <<>> THEN 0 ELSE s[1]
  BY DEF IsChain
<1> QED
  BY <1>2, <1>3, <1>4, <1>5, FatConstants

LEMMA ClustersFinite ==
  IsFiniteSet(Clusters) /\ Cardinality(Clusters) = LastCluster - 1
<1>1. 2 \in Int /\ LastCluster \in Int /\ LastCluster \in Nat /\ LastCluster >= 3
  BY FatConstants
<1>2. Cardinality(2 .. LastCluster) = IF 2 > LastCluster THEN 0 ELSE LastCluster - 2 + 1
  BY <1>1, FS_Interval
<1>3. (IF 2 > LastCluster THEN 0 ELSE LastCluster - 2 + 1) = LastCluster - 1
  BY <1>1, SMT
<1> QED
  BY <1>1, <1>2, <1>3, FS_Interval DEF Clusters

(* A chain has no more clusters than there are.                            *)
LEMMA ChainIsShort ==
  ASSUME NEW table, NEW first, NEW s, IsChain(table, first, s)
  PROVE  Len(s) <= LastCluster - 1
<1>1. IsFiniteSet(1 .. Len(s)) /\ Cardinality(1 .. Len(s)) = Len(s) /\ Len(s) \in Nat
  <2>1. Len(s) \in Nat /\ Len(s) \in Int /\ 1 \in Int
    BY ChainFacts
  <2>2. Cardinality(1 .. Len(s)) = IF 1 > Len(s) THEN 0 ELSE Len(s) - 1 + 1
    BY <2>1, FS_Interval
  <2>3. (IF 1 > Len(s) THEN 0 ELSE Len(s) - 1 + 1) = Len(s)
    BY <2>1, SMT
  <2> QED
    BY <2>1, <2>2, <2>3, FS_Interval
<1>2. IsFiniteSet(Clusters) /\ Cardinality(Clusters) = LastCluster - 1
  BY ClustersFinite
<1>3. s \in Injection(1 .. Len(s), Clusters)
  <2>1. s \in [1 .. Len(s) -> Clusters]
    BY LenProperties DEF IsChain
  <2> QED
    BY <2>1 DEF IsChain, Injection, IsInjective
<1> QED
  BY <1>1, <1>2, <1>3, FS_Injection

LEMMA ChainIsWellFormed ==
  ASSUME NEW table, NEW first, NEW s, IsChain(table, first, s),
         NEW size \in Nat, size <= Len(s) * ClusterUnits
  PROVE  WellFormed(table, first, size)
<1>1. Len(s) \in 0 .. LastCluster /\ Len(s) \in Nat
  BY ChainIsShort, ChainFacts, FatConstants, SMT
<1>2. Len(s) * ClusterUnits >= size
  BY <1>1, FatConstants, SMT
<1>3. ASSUME NEW i \in 0 .. Len(s) - 1 PROVE Nth(table, first, i) \in Clusters
  <2>1. i \in Nat /\ i < Len(s) /\ i + 1 \in 1 .. Len(s)
    BY <1>1, SMT
  <2> QED
    BY <2>1, NthIsLink, ChainFacts DEF LinkOf
<1>4. Nth(table, first, Len(s)) = IF Len(s) = 0 THEN 0 ELSE LastLink
  BY <1>1, NthIsLink, SMT DEF LinkOf
<1> QED
  BY <1>1, <1>2, <1>3, <1>4 DEF WellFormed

LEMMA ChainOfIs ==
  ASSUME NEW table, NEW first, NEW s, IsChain(table, first, s), NEW c
  PROVE  c \in ChainOf(table, first) <=> \E i \in 1 .. Len(s) : s[i] = c
<1>1. Len(s) \in Nat /\ Len(s) <= LastCluster - 1 /\ LastCluster \in Nat
  BY ChainIsShort, ChainFacts, FatConstants
<1>2. ASSUME c \in ChainOf(table, first) PROVE \E i \in 1 .. Len(s) : s[i] = c
  <2>1. PICK i \in 0 .. LastCluster : Nth(table, first, i) = c /\ c \in Clusters
    BY <1>2 DEF ChainOf
  <2>2. i \in Nat
    BY SMT
  <2>3. c = LinkOf(s, i)
    BY <2>1, <2>2, NthIsLink
  <2>4. i < Len(s) /\ c = s[i + 1]
    BY <2>1, <2>3, FatConstants DEF LinkOf
  <2>5. i + 1 \in 1 .. Len(s)
    BY <1>1, <2>2, <2>4, SMT
  <2> QED
    BY <2>4, <2>5
<1>3. ASSUME NEW i \in 1 .. Len(s), s[i] = c PROVE c \in ChainOf(table, first)
  <2>1. i - 1 \in 0 .. LastCluster /\ i - 1 \in Nat /\ i - 1 < Len(s) /\ (i - 1) + 1 = i
    BY <1>1, SMT
  <2>2. Nth(table, first, i - 1) = c
    BY <1>3, <2>1, NthIsLink DEF LinkOf
  <2> QED
    BY <1>3, <2>1, <2>2, ChainFacts DEF ChainOf
<1> QED
  BY <1>2, <1>3

LEMMA ChainsAreSound ==
  ASSUME NEW table, NEW heads, NEW ch, Chains(table, heads, ch),
         NEW names, names \subseteq DOMAIN heads, NEW first, NEW size,
         \A f \in names : first[f] = heads[f] /\ size[f] \in Nat /\ size[f] <= Len(ch[f]) * ClusterUnits
  PROVE  Sound(table, first, size, names)
<1>1. \A f \in names : IsChain(table, first[f], ch[f])
  BY DEF Chains
<1>2. \A f \in names : WellFormed(table, first[f], size[f])
  BY <1>1, ChainIsWellFormed
<1>3. ASSUME NEW f \in names, NEW g \in names, f # g
      PROVE  ChainOf(table, first[f]) \cap ChainOf(table, first[g]) = {}
  <2>1. Apart(ch[f], ch[g])
    BY <1>3 DEF Chains
  <2> QED
    BY <1>1, <2>1, ChainOfIs DEF Apart
<1>4. ASSUME NEW f \in names PROVE Root \notin ChainOf(table, first[f])
  BY <1>1, ChainOfIs DEF Chains
<1> QED
  BY <1>2, <1>3, <1>4 DEF Sound

-----------------------------------------------------------------------------
(* What the changes of the table do to the chains.                         *)

LEMMA ChainNone ==
  ASSUME NEW table PROVE IsChain(table, 0, <<>>)
<1>1. <<>> \in Seq(Clusters) /\ Len(<<>>) = 0
  BY EmptySeq
<1>2. \A i \in 1 .. 0 : FALSE
  BY SMT
<1> HIDE DEF Clusters
<1> QED
  BY <1>1, <1>2 DEF IsChain

LEMMA OneCluster ==
  ASSUME NEW c \in Clusters
  PROVE  <<c>> \in Seq(Clusters) /\ Len(<<c>>) = 1 /\ <<c>>[1] = c /\ <<c>> # <<>>
<1> HIDE DEF Clusters
<1> QED
  BY SMT

LEMMA ChainOne ==
  ASSUME NEW table, NEW c \in Clusters, table[c] = LastLink
  PROVE  IsChain(table, c, <<c>>)
<1>1. \A i \in 1 .. 1 : i = 1
  BY SMT
<1> QED
  BY <1>1, OneCluster, Zenon DEF IsChain

LEMMA ChainKept ==
  ASSUME NEW table, NEW first, NEW s, IsChain(table, first, s), NEW tab,
         \A i \in 1 .. Len(s) : tab[s[i]] = table[s[i]]
  PROVE  IsChain(tab, first, s)
BY DEF IsChain

LEMMA ChainAppend ==
  ASSUME NEW table \in Tables, NEW first, NEW s, IsChain(table, first, s), s # <<>>,
         NEW c \in Clusters, \A i \in 1 .. Len(s) : s[i] # c, table[c] = LastLink,
         NEW tab, tab = [table EXCEPT ![s[Len(s)]] = c]
  PROVE  IsChain(tab, first, Append(s, c))
<1>1. Len(s) \in Nat /\ Len(s) \in 1 .. Len(s) /\ 1 \in 1 .. Len(s) /\ \A i \in 1 .. Len(s) : s[i] \in Clusters
  BY ChainFacts
<1>2. /\ Append(s, c) \in Seq(Clusters) /\ Append(s, c) # <<>> /\ Len(Append(s, c)) = Len(s) + 1
      /\ \A i \in 1 .. Len(s) : Append(s, c)[i] = s[i]
      /\ Append(s, c)[Len(s) + 1] = c
  BY AppendProperties DEF IsChain
<1>3. PICK n \in Nat : n = Len(s) /\ n \in 1 .. n
  BY <1>1
<1>4. \A i \in 1 .. n : i # n => s[i] # s[n]
  BY <1>1, <1>3 DEF IsChain
<1>5. DOMAIN table = Clusters
  BY DEF Tables
<1>6. tab[s[n]] = c /\ tab[c] = LastLink /\ \A i \in 1 .. n : i # n => tab[s[i]] = table[s[i]]
  BY <1>1, <1>3, <1>4, <1>5
<1>7. ASSUME NEW i \in 1 .. n + 1
      PROVE  tab[Append(s, c)[i]] = IF i = n + 1 THEN LastLink ELSE Append(s, c)[i + 1]
  <2>1. CASE i = n + 1
    BY <1>2, <1>3, <1>6, <2>1
  <2>2. CASE i = n
    BY <1>2, <1>3, <1>6, <2>2, SMT
  <2>3. CASE i \in 1 .. n /\ i # n
    <3>1. i + 1 \in 1 .. n /\ i # n + 1
      BY <1>3, <2>3, SMT
    <3>2. tab[Append(s, c)[i]] = table[s[i]] /\ Append(s, c)[i + 1] = s[i + 1]
      BY <1>2, <1>3, <1>6, <2>3, <3>1
    <3>3. table[s[i]] = s[i + 1]
      BY <1>3, <2>3 DEF IsChain
    <3> QED
      BY <3>1, <3>2, <3>3
  <2> QED
    BY <1>3, <2>1, <2>2, <2>3, SMT
<1>8. ASSUME NEW i \in 1 .. n + 1, NEW j \in 1 .. n + 1, Append(s, c)[i] = Append(s, c)[j]
      PROVE  i = j
  <2>1. \A k \in 1 .. n + 1 : (k \in 1 .. n /\ Append(s, c)[k] = s[k]) \/ (k = n + 1 /\ Append(s, c)[k] = c)
    BY <1>2, <1>3, SMT
  <2>2. \A k, l \in 1 .. n : s[k] = s[l] => k = l
    BY <1>3 DEF IsChain
  <2> QED
    BY <1>3, <1>8, <2>1, <2>2
<1>9. first = Append(s, c)[1]
  BY <1>1, <1>2 DEF IsChain
<1> QED
  BY <1>2, <1>3, <1>7, <1>8, <1>9 DEF IsChain

Shortened(table, first, s, tab) ==
  /\ table[first] # 0
  /\ IsChain(tab, IF table[first] \in Clusters THEN table[first] ELSE 0, Tail(s))
  /\ Tail(s) \in Seq(Clusters)
  /\ Len(Tail(s)) \in Nat /\ Len(s) = Len(Tail(s)) + 1 /\ first = s[1]
  /\ \A i \in 1 .. Len(Tail(s)) : Tail(s)[i] = s[i + 1] /\ i + 1 \in 1 .. Len(s)

LEMMA ChainTail ==
  ASSUME NEW table, NEW first, NEW s, IsChain(table, first, s), s # <<>>,
         NEW tab, \A i \in 1 .. Len(s) : s[i] # first => tab[s[i]] = table[s[i]]
  PROVE  Shortened(table, first, s, tab)
<1>1. Len(s) \in Nat /\ Len(s) \in 1 .. Len(s) /\ 1 \in 1 .. Len(s) /\ \A i \in 1 .. Len(s) : s[i] \in Clusters
  BY ChainFacts
<1>2. /\ Tail(s) \in Seq(Clusters) /\ Len(Tail(s)) = Len(s) - 1
      /\ \A i \in 1 .. Len(Tail(s)) : Tail(s)[i] = s[i + 1]
  BY HeadTailProperties DEF IsChain
<1>0. Len(Tail(s)) \in Nat /\ Len(Tail(s)) + 1 = Len(s)
  BY <1>1, <1>2, SMT
<1>3. PICK n \in Nat : n + 1 = Len(s) /\ n = Len(Tail(s))
  BY <1>0
<1>4. first = s[1] /\ first \in Clusters
  BY ChainFacts
<1>5. table[first] = IF n = 0 THEN LastLink ELSE s[2]
  <2>1. table[s[1]] = IF 1 = Len(s) THEN LastLink ELSE s[1 + 1]
    BY <1>1 DEF IsChain
  <2>2. (1 = n + 1 <=> n = 0) /\ 1 + 1 = 2
    BY SMT
  <2> QED
    BY <1>3, <1>4, <2>1, <2>2
<1>6. \A i \in 1 .. n : i + 1 \in 1 .. Len(s) /\ i + 1 # 1 /\ Tail(s)[i] = s[i + 1]
  BY <1>2, <1>3, SMT
<1>7. \A i \in 1 .. n : tab[Tail(s)[i]] = table[s[i + 1]]
  <2>1. \A i \in 1 .. n : s[i + 1] # s[1]
    BY <1>1, <1>6 DEF IsChain
  <2> QED
    BY <1>4, <1>6, <2>1
<1>8. ASSUME NEW i \in 1 .. n
      PROVE  tab[Tail(s)[i]] = IF i = n THEN LastLink ELSE Tail(s)[i + 1]
  <2>1. table[s[i + 1]] = IF i + 1 = Len(s) THEN LastLink ELSE s[(i + 1) + 1]
    BY <1>6 DEF IsChain
  <2>0. i \in Int
    BY SMT
  <2>2. i + 1 = Len(s) <=> i = n
    BY <1>3, <2>0, SMT
  <2>3. i # n => i + 1 \in 1 .. n
    BY <2>0, SMT
  <2> QED
    BY <1>6, <1>7, <2>1, <2>2, <2>3
<1>9. ASSUME NEW i \in 1 .. n, NEW j \in 1 .. n, Tail(s)[i] = Tail(s)[j]
      PROVE  i = j
  <2>1. s[i + 1] = s[j + 1] /\ i + 1 \in 1 .. Len(s) /\ j + 1 \in 1 .. Len(s)
    BY <1>6, <1>9
  <2>2. i + 1 = j + 1
    BY <2>1 DEF IsChain
  <2> QED
    BY <2>2, SMT
<1>10. (IF table[first] \in Clusters THEN table[first] ELSE 0) = IF Tail(s) = <<>> THEN 0 ELSE Tail(s)[1]
  <2>1. CASE n = 0
    <3>1. Tail(s) = <<>>
      BY <1>2, <1>3, <2>1, EmptySeq
    <3> QED
      BY <3>1, <1>5, <2>1, FatConstants
  <2>2. CASE n # 0
    <3>0. 1 \in 1 .. n
      BY <2>2, SMT
    <3>1. Tail(s) # <<>> /\ 1 \in 1 .. n
      BY <3>0, <1>3, <2>2, EmptySeq
    <3>2. Tail(s)[1] = s[2] /\ s[2] \in Clusters
      BY <1>1, <1>6, <3>1, SMT
    <3> QED
      BY <3>1, <3>2, <1>5, <2>2
  <2> QED
    BY <2>1, <2>2
<1>11. table[first] # 0
  BY <1>1, <1>4, <1>5, <1>3, FatConstants, SMT
<1>12. IsChain(tab, IF table[first] \in Clusters THEN table[first] ELSE 0, Tail(s))
  <2> DEFINE u == Tail(s)
  <2>1. u \in Seq(Clusters) /\ Len(u) = n
    BY <1>2, <1>3
  <2>2. \A i \in 1 .. n : tab[u[i]] = IF i = n THEN LastLink ELSE u[i + 1]
    BY <1>8
  <2>3. \A i, j \in 1 .. n : u[i] = u[j] => i = j
    BY <1>9
  <2>4. (IF table[first] \in Clusters THEN table[first] ELSE 0) = IF u = <<>> THEN 0 ELSE u[1]
    BY <1>10
  <2> HIDE DEF u
  <2>5. IsChain(tab, IF table[first] \in Clusters THEN table[first] ELSE 0, u)
    BY <2>1, <2>2, <2>3, <2>4 DEF IsChain
  <2> QED
    BY <2>5 DEF u
<1>13. \A i \in 1 .. Len(Tail(s)) : Tail(s)[i] = s[i + 1] /\ i + 1 \in 1 .. Len(s)
  BY <1>3, <1>6
<1> QED
  BY <1>0, <1>2, <1>4, <1>11, <1>12, <1>13 DEF Shortened

-----------------------------------------------------------------------------
(* Positions.                                                              *)

(* Positions in a file.                                                    *)

LEMMA DivMod ==
  ASSUME NEW p \in Nat, NEW d \in Nat, d > 0
  PROVE  /\ (p \div d) \in Nat /\ (p % d) \in Nat /\ (p % d) < d
         /\ p = (p \div d) * d + (p % d) /\ (p \div d) * d \in Nat
BY SMT

LEMMA DivIs ==
  ASSUME NEW p \in Nat, NEW d \in Nat, d > 0, NEW q \in Nat, NEW r \in Nat, r < d, p = q * d + r
  PROVE  (p \div d) = q /\ (p % d) = r
BY SMT

LEMMA Times ==
  ASSUME NEW m \in Nat, NEW n \in Nat, NEW d \in Nat, d > 0
  PROVE  /\ (m * d) \in Nat /\ (m + 1) * d = m * d + d
         /\ m < n => (m + 1) * d <= n * d
         /\ m <= n <=> m * d <= n * d
BY SMT

(* Sectors of ss units, clusters of cs sectors.                            *)
LEMMA SectorDigits ==
  ASSUME NEW p \in Nat, NEW ss \in Nat, ss > 0, NEW cs \in Nat, cs > 0
  PROVE  (p % (cs * ss)) = ((p \div ss) % cs) * ss + (p % ss)
<1> DEFINE a == p \div ss
           q == a \div cs
           w == a % cs
           r == p % ss
<1>1. a \in Nat /\ r \in Nat /\ r < ss /\ p = a * ss + r
  BY DivMod
<1>2. q \in Nat /\ w \in Nat /\ w < cs /\ a = q * cs + w
  BY <1>1, DivMod
<1> HIDE DEF a, q, w, r
<1>3. cs * ss \in Nat /\ cs * ss > 0 /\ w * ss \in Nat /\ q * (cs * ss) \in Nat
  BY <1>2, SMT
<1>4. (q * cs) * ss = q * (cs * ss) /\ (q * cs + w) * ss = (q * cs) * ss + w * ss
  BY <1>2, SMT
<1>5. p = q * (cs * ss) + (w * ss + r)
  BY <1>1, <1>2, <1>3, <1>4, SMT
<1>6. (w + 1) * ss <= cs * ss /\ (w + 1) * ss = w * ss + ss
  BY <1>2, Times
<1>7. w * ss + r \in Nat /\ w * ss + r < cs * ss
  BY <1>1, <1>2, <1>3, <1>6, SMT
<1>8. (p % (cs * ss)) = w * ss + r
  BY <1>2, <1>3, <1>5, <1>7, DivIs
<1> QED
  BY <1>8 DEF a, w, r

LEMMA Inside ==
  ASSUME NEW p \in Nat, NEW n \in Nat, p <= n * ClusterUnits, (p % ClusterUnits) # 0
  PROVE  p > 0 /\ (p \div ClusterUnits) + 1 <= n /\ ((p - 1) \div ClusterUnits) = (p \div ClusterUnits)
<1> DEFINE d == ClusterUnits
           q == p \div d
           r == p % d
<1>1. d \in Nat /\ d > 0
  BY FatConstants
<1>2. q \in Nat /\ r \in Nat /\ r < d /\ p = q * d + r /\ q * d \in Nat /\ r # 0
  BY <1>1, DivMod
<1> HIDE DEF d, q, r
<1>3. p > 0 /\ p - 1 = q * d + (r - 1) /\ r - 1 \in Nat /\ r - 1 < d /\ p - 1 \in Nat
  BY <1>1, <1>2, SMT
<1>4. ((p - 1) \div d) = q
  BY <1>1, <1>2, <1>3, DivIs
<1>5. q + 1 <= n
  <2>1. SUFFICES ASSUME ~ (q + 1 <= n) PROVE FALSE
    OBVIOUS
  <2>2. n <= q
    BY <2>1, <1>2, SMT
  <2>3. n * d <= q * d /\ n * d \in Nat
    BY <2>2, <1>1, <1>2, Times
  <2> QED
    BY <2>3, <1>2, SMT DEF d
<1> QED
  BY <1>3, <1>4, <1>5 DEF d, q

LEMMA Edge ==
  ASSUME NEW p \in Nat, NEW n \in Nat, p <= n * ClusterUnits, p > 0, (p % ClusterUnits) = 0
  PROVE  /\ (p \div ClusterUnits) \in 1 .. n /\ ((p - 1) \div ClusterUnits) + 1 = (p \div ClusterUnits)
         /\ p = (p \div ClusterUnits) * ClusterUnits
<1> DEFINE d == ClusterUnits
           q == p \div d
<1>1. d \in Nat /\ d > 0
  BY FatConstants
<1>2. q \in Nat /\ p = q * d + 0
  BY <1>1, DivMod
<1> HIDE DEF d, q
<1>3. p = q * d
  BY <1>1, <1>2, SMT
<1>4. q # 0
  BY <1>1, <1>3, SMT
<1>5. q - 1 \in Nat /\ (q - 1) * d \in Nat /\ q * d = (q - 1) * d + d
  <2>1. q - 1 \in Nat /\ (q - 1) + 1 = q
    BY <1>2, <1>4, SMT
  <2> QED
    BY <2>1, <1>1, Times
<1>6. p - 1 = (q - 1) * d + (d - 1) /\ d - 1 \in Nat /\ d - 1 < d /\ p - 1 \in Nat
  BY <1>1, <1>3, <1>5, SMT
<1>7. ((p - 1) \div d) = q - 1
  BY <1>1, <1>5, <1>6, DivIs
<1>8. q <= n
  BY <1>1, <1>2, <1>3, Times DEF d
<1>9. q \in 1 .. n /\ (q - 1) + 1 = q
  BY <1>2, <1>4, <1>8, SMT
<1> QED
  BY <1>3, <1>7, <1>9 DEF d, q

LEMMA MoveOn ==
  ASSUME NEW p \in Nat, NEW n \in Nat, (p \div ClusterUnits) + 1 <= n, NEW k \in Nat, k > 0,
         (p % ClusterUnits) + k <= ClusterUnits
  PROVE  /\ p + k \in Nat /\ p + k > 0 /\ p + k <= n * ClusterUnits
         /\ ((p + k - 1) \div ClusterUnits) = (p \div ClusterUnits)
<1> DEFINE d == ClusterUnits
           q == p \div d
           r == p % d
<1>1. d \in Nat /\ d > 0
  BY FatConstants
<1>2. q \in Nat /\ r \in Nat /\ r < d /\ p = q * d + r /\ q * d \in Nat /\ r + k <= d /\ q + 1 <= n
  BY <1>1, DivMod
<1> HIDE DEF d, q, r
<1>3. p + k - 1 = q * d + (r + k - 1) /\ r + k - 1 \in Nat /\ r + k - 1 < d /\ p + k - 1 \in Nat
  BY <1>1, <1>2, SMT
<1>4. ((p + k - 1) \div d) = q
  BY <1>1, <1>2, <1>3, DivIs
<1>5. (q + 1) * d <= n * d /\ (q + 1) * d = q * d + d /\ n * d \in Nat
  BY <1>1, <1>2, Times
<1>6. p + k \in Nat /\ p + k > 0 /\ p + k <= n * d
  BY <1>1, <1>2, <1>5, SMT
<1> QED
  BY <1>4, <1>6 DEF d, q

(* The next cluster.                                                       *)
LEMMA NextCluster ==
  ASSUME NEW p \in Nat, (p % ClusterUnits) = 0
  PROVE  /\ p + ClusterUnits \in Nat /\ ((p + ClusterUnits) % ClusterUnits) = 0
         /\ ((p + ClusterUnits) \div ClusterUnits) = (p \div ClusterUnits) + 1
<1> DEFINE d == ClusterUnits
           q == p \div d
<1>1. d \in Nat /\ d > 0
  BY FatConstants
<1>2. q \in Nat /\ p = q * d + 0 /\ q * d \in Nat
  BY <1>1, DivMod
<1> HIDE DEF d, q
<1>3. q + 1 \in Nat /\ (q + 1) * d = q * d + d
  BY <1>1, <1>2, Times
<1>4. p + d = (q + 1) * d + 0 /\ p + d \in Nat
  BY <1>1, <1>2, <1>3, SMT
<1>5. ((p + d) \div d) = q + 1 /\ ((p + d) % d) = 0
  BY <1>1, <1>3, <1>4, DivIs
<1> QED
  BY <1>4, <1>5 DEF d, q

(* There is something left, so there is a next cluster.                    *)
LEMMA MoreClusters ==
  ASSUME NEW p \in Nat, (p % ClusterUnits) = 0, NEW n \in Nat, p < n * ClusterUnits
  PROVE  (p \div ClusterUnits) + 1 <= n
<1> DEFINE d == ClusterUnits
           q == p \div d
<1>1. d \in Nat /\ d > 0
  BY FatConstants
<1>2. q \in Nat /\ p = q * d + 0 /\ q * d \in Nat
  BY <1>1, DivMod
<1> HIDE DEF d, q
<1>3. SUFFICES ASSUME ~ (q + 1 <= n) PROVE FALSE
  BY DEF d, q
<1>4. n <= q
  BY <1>2, <1>3, SMT
<1>5. n * d <= q * d /\ n * d \in Nat
  BY <1>4, <1>1, <1>2, Times
<1> QED
  BY <1>5, <1>2, SMT DEF d

(* f_lseek() goes back to the start of the cluster of the last unit.       *)
LEMMA BaseFacts ==
  ASSUME NEW p \in Nat, p > 0, NEW base, base = ((p - 1) \div ClusterUnits) * ClusterUnits
  PROVE  /\ base \in Nat /\ (base % ClusterUnits) = 0
         /\ (base \div ClusterUnits) = ((p - 1) \div ClusterUnits)
         /\ \A n \in Nat : p <= n * ClusterUnits => ((p - 1) \div ClusterUnits) + 1 <= n
         /\ \A x \in Nat : x > 0 /\ ((x - 1) \div ClusterUnits) >= ((p - 1) \div ClusterUnits) => x > base
<1> DEFINE d == ClusterUnits
           q == (p - 1) \div d
           r == (p - 1) % d
<1>1. d \in Nat /\ d > 0 /\ p - 1 \in Nat
  BY FatConstants, SMT
<1>2. q \in Nat /\ r \in Nat /\ r < d /\ p - 1 = q * d + r /\ q * d \in Nat
  BY <1>1, DivMod
<1>3. base = q * d /\ base = q * d + 0
  BY <1>2, SMT
<1> HIDE DEF d, q, r
<1>4. (base % d) = 0 /\ (base \div d) = q
  BY <1>1, <1>2, <1>3, DivIs
<1>5. ASSUME NEW n \in Nat, p <= n * d PROVE q + 1 <= n
  <2>1. SUFFICES ASSUME ~ (q + 1 <= n) PROVE FALSE
    OBVIOUS
  <2>2. n <= q
    BY <1>2, <2>1, SMT
  <2>3. n * d <= q * d /\ n * d \in Nat
    BY <2>2, <1>1, <1>2, Times
  <2> QED
    BY <2>3, <1>2, <1>5, SMT
<1>6. ASSUME NEW x \in Nat, x > 0, ((x - 1) \div d) >= q PROVE x > base
  <2> DEFINE q2 == (x - 1) \div d
             r2 == (x - 1) % d
  <2>1. x - 1 \in Nat
    BY <1>6, SMT
  <2>2. q2 \in Nat /\ r2 \in Nat /\ x - 1 = q2 * d + r2 /\ q2 * d \in Nat /\ q <= q2
    BY <1>1, <1>2, <1>6, <2>1, DivMod, SMT
  <2> HIDE DEF q2, r2
  <2>3. q * d <= q2 * d
    BY <1>1, <1>2, <2>2, Times
  <2> QED
    BY <1>2, <1>3, <2>2, <2>3, SMT
<1> QED
  BY <1>2, <1>3, <1>4, <1>5, <1>6 DEF d, q

(* What f_write() and f_read() do in one step stays within a cluster.      *)
LEMMA ChunkFacts ==
  ASSUME File.fptr \in Nat, cur.left \in Nat, cur.left > 0
  PROVE  /\ AtCluster <=> AtEdge(File)
         /\ ~ AtSector => ~ AtEdge(File)
         /\ Partial \in Nat /\ Partial > 0 /\ Partial <= cur.left
         /\ (File.fptr % ClusterUnits) + Partial <= ClusterUnits
         /\ Whole \in Nat
         /\ Whole > 0 /\ AtSector =>
              /\ Whole * SectorSize \in Nat /\ Whole * SectorSize > 0 /\ Whole * SectorSize <= cur.left
              /\ (File.fptr % ClusterUnits) + Whole * SectorSize <= ClusterUnits
<1> DEFINE p == File.fptr
           ss == SectorSize
           cs == ClusterSize
           w == SectorInCluster
           r == p % ss
           l == cur.left
           e == p % ClusterUnits
           n == Whole
<1>1. /\ ss \in Nat /\ ss > 0 /\ cs \in Nat /\ cs > 0 /\ p \in Nat /\ l \in Nat /\ l > 0
      /\ ClusterUnits = cs * ss
  BY FatConstants DEF ClusterUnits
<1>2. r \in Nat /\ r < ss /\ (p \div ss) \in Nat
  BY <1>1, DivMod
<1>3. w \in Nat /\ w < cs /\ w = ((p \div ss) % cs)
  BY <1>1, <1>2, DivMod DEF SectorInCluster
<1>4. e = w * ss + r
  BY <1>1, <1>3, SectorDigits
<1>5. n = Lesser(l \div ss, cs - w) /\ Partial = Lesser(ss - r, l)
  BY DEF Whole, Partial
<1>6. (AtSector <=> r = 0) /\ (AtCluster <=> r = 0 /\ w = 0) /\ (AtEdge(File) <=> e = 0)
  BY DEF AtCluster, AtSector, AtEdge
<1>7. (l \div ss) \in Nat /\ (l \div ss) * ss \in Nat /\ (l \div ss) * ss <= l
  <2>1. /\ (l \div ss) \in Nat /\ (l % ss) \in Nat
        /\ l = (l \div ss) * ss + (l % ss) /\ (l \div ss) * ss \in Nat
    BY <1>1, DivMod
  <2> DEFINE y == (l \div ss) * ss
             z == l % ss
  <2>2. y <= l
    <3>1. y \in Nat /\ z \in Nat /\ l = y + z
      BY <2>1
    <3> HIDE DEF y, z, l
    <3> QED
      BY <3>1, SMT
  <2> QED
    BY <2>1, <2>2
<1> DEFINE m == l \div ss
           x == Partial
<1>0. m \in Nat /\ m * ss \in Nat /\ m * ss <= l /\ n = Lesser(m, cs - w) /\ x = Lesser(ss - r, l)
  BY <1>5, <1>7
<1> HIDE DEF p, ss, cs, w, r, l, e, n, m, x
<1>8. w * ss \in Nat /\ (w + 1) * ss <= cs * ss /\ (w + 1) * ss = w * ss + ss /\ cs * ss \in Nat
  BY <1>1, <1>3, Times
<1>9. e = 0 <=> r = 0 /\ w = 0
  <2>1. w = 0 => w * ss = 0
    BY <1>1, SMT
  <2>2. w # 0 => w * ss > 0
    BY <1>1, <1>3, SMT
  <2> QED
    BY <1>1, <1>2, <1>3, <1>4, <1>8, <2>1, <2>2, SMT
<1>10. /\ x \in Nat /\ x > 0 /\ x <= l /\ x <= ss - r
  BY <1>0, <1>1, <1>2, SMT DEF Lesser
<1>11. e + x <= cs * ss
  BY <1>2, <1>4, <1>8, <1>10, <1>1, SMT
<1>12. n \in Nat /\ n <= m /\ n <= cs - w
  BY <1>0, <1>1, <1>3, SMT DEF Lesser
<1>13. n * ss \in Nat /\ n * ss <= m * ss /\ (n > 0 => n * ss > 0)
  BY <1>0, <1>1, <1>12, Times, SMT
<1>14. w + n \in Nat /\ (w + n) * ss <= cs * ss /\ (w + n) * ss = w * ss + n * ss
  <2>1. w + n \in Nat /\ w + n <= cs
    BY <1>3, <1>12, <1>1, SMT
  <2>2. (w + n) * ss <= cs * ss
    BY <1>1, <2>1, Times
  <2>3. (w + n) * ss = w * ss + n * ss
    BY <1>1, <1>3, <1>12, SMT
  <2> QED
    BY <2>1, <2>2, <2>3
<1>15. r = 0 => e + n * ss <= cs * ss
  BY <1>4, <1>8, <1>13, <1>14, SMT
<1>16. n * ss <= l
  BY <1>0, <1>1, <1>13, SMT
<1> QED
  BY <1>1, <1>6, <1>9, <1>10, <1>11, <1>12, <1>13, <1>15, <1>16 DEF p, ss, l, e, n, x

-----------------------------------------------------------------------------
(* The chains of all owners.                                               *)

(* What the steps do to the chains of all owners at once.                  *)

Families == [Owners -> Seq(Clusters)]
Away(s, u) == \A i \in 1 .. Len(s) : s[i] # Root /\ \A j \in 1 .. Len(u) : s[i] # u[j]

LEMMA FamilyFacts ==
  ASSUME NEW table, NEW heads, DOMAIN heads = Owners, NEW ch, Chains(table, heads, ch), NEW o \in Owners
  PROVE  /\ IsChain(table, heads[o], ch[o]) /\ Len(ch[o]) \in Nat /\ ch[o] \in Seq(Clusters)
         /\ \A i \in 1 .. Len(ch[o]) : ch[o][i] \in Clusters /\ ch[o][i] # Root /\ table[ch[o][i]] # 0
         /\ heads[o] = 0 <=> ch[o] = <<>>
         /\ ch[o] = <<>> <=> Len(ch[o]) = 0
         /\ ch[o] # <<>> => /\ 1 \in 1 .. Len(ch[o]) /\ Len(ch[o]) \in 1 .. Len(ch[o])
                            /\ heads[o] = ch[o][1] /\ heads[o] \in Clusters
<1>1. IsChain(table, heads[o], ch[o]) /\ \A i \in 1 .. Len(ch[o]) : ch[o][i] # Root
  BY DEF Chains
<1>2. /\ Len(ch[o]) \in Nat /\ \A i \in 1 .. Len(ch[o]) : ch[o][i] \in Clusters
      /\ heads[o] = 0 <=> ch[o] = <<>>
      /\ ch[o] = <<>> <=> Len(ch[o]) = 0
      /\ ch[o] # <<>> => /\ 1 \in 1 .. Len(ch[o]) /\ Len(ch[o]) \in 1 .. Len(ch[o])
                         /\ heads[o] = ch[o][1] /\ heads[o] \in Clusters
  BY <1>1, ChainFacts
<1>3. ASSUME NEW i \in 1 .. Len(ch[o]) PROVE table[ch[o][i]] # 0
  <2>1. table[ch[o][i]] = IF i = Len(ch[o]) THEN LastLink ELSE ch[o][i + 1]
    BY <1>1 DEF IsChain
  <2>2. CASE i = Len(ch[o])
    BY <2>1, <2>2, FatConstants
  <2>3. CASE i # Len(ch[o])
    <3>1. i + 1 \in 1 .. Len(ch[o])
      BY <1>2, <2>3, SMT
    <3> QED
      BY <2>1, <2>3, <3>1, <1>2, FatConstants
  <2> QED
    BY <2>2, <2>3
<1>4. ch[o] \in Seq(Clusters)
  BY <1>1 DEF IsChain
<1> QED
  BY <1>1, <1>2, <1>3, <1>4

(* create_chain() takes a free cluster.                                    *)
NewFamily(table, heads, ch, c, tab, h2, c2) ==
  /\ table \in Tables /\ DOMAIN heads = Owners /\ ch \in Families /\ Chains(table, heads, ch) /\ heads[Nobody] = 0
  /\ c \in Clusters /\ c # Root /\ table[c] = 0 /\ tab = [table EXCEPT ![c] = LastLink]
  /\ DOMAIN h2 = Owners /\ h2[Nobody] = c /\ (\A o \in Names : h2[o] = heads[o]) /\ c2 = [ch EXCEPT ![Nobody] = <<c>>]

LEMMA FamilyNew ==
  ASSUME NEW table, NEW heads, NEW ch, NEW c, NEW tab, NEW h2, NEW c2, NewFamily(table, heads, ch, c, tab, h2, c2)
  PROVE  c2 \in Families /\ Chains(tab, h2, c2) /\ (Owned(table, ch) => Owned(tab, c2))
<1>h. /\ table \in Tables /\ DOMAIN heads = Owners /\ ch \in Families /\ Chains(table, heads, ch) /\ heads[Nobody] = 0
      /\ c \in Clusters /\ c # Root /\ table[c] = 0 /\ tab = [table EXCEPT ![c] = LastLink]
      /\ DOMAIN h2 = Owners /\ h2[Nobody] = c /\ (\A o \in Names : h2[o] = heads[o]) /\ c2 = [ch EXCEPT ![Nobody] = <<c>>]
  BY DEF NewFamily
<1> USE <1>h
<1>0. DOMAIN ch = Owners /\ Nobody \in Owners /\ Nobody \notin Names /\ DOMAIN table = Clusters
  BY FatConstants DEF Families, Owners, Tables
<1>1. /\ c2[Nobody] = <<c>> /\ \A o \in Names : c2[o] = ch[o]
  BY <1>0 DEF Owners
<1>2. tab[c] = LastLink /\ \A x \in Clusters : x # c => tab[x] = table[x]
  BY <1>0
<1>3. <<c>> \in Seq(Clusters) /\ Len(<<c>>) = 1 /\ <<c>>[1] = c
  BY OneCluster
<1>4. c2 \in Families
  BY <1>3 DEF Families
<1>5. ASSUME NEW o \in Names
      PROVE  IsChain(tab, h2[o], c2[o]) /\ \A i \in 1 .. Len(c2[o]) : c2[o][i] # Root /\ c2[o][i] # c
  <2>1. o \in Owners
    BY DEF Owners
  <2>2. /\ IsChain(table, heads[o], ch[o])
        /\ \A i \in 1 .. Len(ch[o]) : ch[o][i] \in Clusters /\ ch[o][i] # Root /\ table[ch[o][i]] # 0
    BY <2>1, FamilyFacts
  <2>3. \A i \in 1 .. Len(ch[o]) : tab[ch[o][i]] = table[ch[o][i]]
    BY <2>2, <1>2
  <2>4. IsChain(tab, heads[o], ch[o])
    BY <2>2, <2>3, ChainKept
  <2> QED
    BY <2>2, <2>4, <1>1
<1>6. IsChain(tab, h2[Nobody], c2[Nobody])
  <2>1. IsChain(tab, c, <<c>>)
    BY <1>2, ChainOne
  <2> QED
    BY <2>1, <1>1, Zenon
<1>7. \A i \in 1 .. Len(c2[Nobody]) : c2[Nobody][i] = c
  BY <1>1, <1>3, SMT
<1>8. Chains(tab, h2, c2)
  <2>1. \A o \in Owners : IsChain(tab, h2[o], c2[o]) /\ \A i \in 1 .. Len(c2[o]) : c2[o][i] # Root
    BY <1>5, <1>6, <1>7 DEF Owners
  <2>2. ASSUME NEW o \in Owners, NEW q \in Owners, o # q PROVE Apart(c2[o], c2[q])
    <3>1. CASE o \in Names /\ q \in Names
      BY <3>1, <1>1, <2>2 DEF Chains
    <3>2. CASE o = Nobody /\ q \in Names
      BY <3>2, <1>5, <1>7 DEF Apart
    <3>3. CASE q = Nobody /\ o \in Names
      BY <3>3, <1>5, <1>7 DEF Apart
    <3> QED
      BY <3>1, <3>2, <3>3, <2>2 DEF Owners
  <2> QED
    BY <2>1, <2>2 DEF Chains
<1>9. ASSUME Owned(table, ch) PROVE Owned(tab, c2)
  <2>1. ASSUME NEW x \in Clusters
        PROVE  tab[x] # 0 <=> x = Root \/ \E o \in Owners : \E i \in 1 .. Len(c2[o]) : c2[o][i] = x
    <3>1. CASE x = c
      <4>1. 1 \in 1 .. Len(c2[Nobody]) /\ c2[Nobody][1] = c
        BY <1>1, <1>3, SMT
      <4> QED
        BY <3>1, <4>1, <1>0, <1>2, FatConstants
    <3>2. CASE x # c
      <4>1. (\E o \in Owners : \E i \in 1 .. Len(c2[o]) : c2[o][i] = x) <=> \E o \in Names : \E i \in 1 .. Len(ch[o]) : ch[o][i] = x
        BY <3>2, <1>1, <1>7 DEF Owners
      <4>2. (\E o \in Owners : \E i \in 1 .. Len(ch[o]) : ch[o][i] = x) <=> \E o \in Names : \E i \in 1 .. Len(ch[o]) : ch[o][i] = x
        <5>1. Len(ch[Nobody]) = 0
          BY <1>0, FamilyFacts
        <5>2. \A i \in 1 .. Len(ch[Nobody]) : FALSE
          BY <5>1, SMT
        <5> QED
          BY <5>2 DEF Owners
      <4>3. table[x] # 0 <=> x = Root \/ \E o \in Owners : \E i \in 1 .. Len(ch[o]) : ch[o][i] = x
        BY <1>9 DEF Owned
      <4> QED
        BY <4>1, <4>2, <4>3, <3>2, <1>2
    <3> QED
      BY <3>1, <3>2
  <2> QED
    BY <2>1 DEF Owned
<1> QED
  BY <1>4, <1>8, <1>9

(* A chain is handed from a to b, who has none.                            *)
LEMMA FamilyMove ==
  ASSUME NEW table, NEW heads, DOMAIN heads = Owners, NEW ch \in Families, Chains(table, heads, ch),
         NEW a \in Owners, NEW b \in Owners, a # b, heads[b] = 0,
         NEW h2, DOMAIN h2 = Owners, h2[a] = 0, h2[b] = heads[a], \A o \in Owners : o # a /\ o # b => h2[o] = heads[o],
         NEW c2, c2 = [ch EXCEPT ![a] = <<>>, ![b] = ch[a]]
  PROVE  c2 \in Families /\ Chains(table, h2, c2) /\ (Owned(table, ch) => Owned(table, c2))
<1>1. DOMAIN ch = Owners /\ \A o \in Owners : ch[o] \in Seq(Clusters)
  BY DEF Families
<1>2. c2[a] = <<>> /\ c2[b] = ch[a] /\ \A o \in Owners : o # a /\ o # b => c2[o] = ch[o]
  BY <1>1
<1>3. Len(ch[b]) = 0 /\ <<>> \in Seq(Clusters) /\ Len(<<>>) = 0
  <2>1. Len(ch[b]) = 0
    <3>1. IsChain(table, heads[b], ch[b])
      BY DEF Chains
    <3>2. (heads[b] = 0 <=> ch[b] = <<>>) /\ (ch[b] = <<>> <=> Len(ch[b]) = 0)
      BY <3>1, ChainFacts, Zenon
    <3> QED
      BY <3>2
  <2> HIDE DEF Clusters
  <2>2. <<>> \in Seq(Clusters) /\ Len(<<>>) = 0
    BY EmptySeq
  <2> QED
    BY <2>1, <2>2
<1>4. c2 \in Families
  <2> HIDE DEF Clusters
  <2> QED
    BY <1>1, <1>3 DEF Families
<1>5. (\A i \in 1 .. Len(c2[a]) : FALSE) /\ (\A i \in 1 .. Len(ch[b]) : FALSE)
  BY <1>2, <1>3, SMT
<1>6. \A o \in Owners : IsChain(table, h2[o], c2[o]) /\ \A i \in 1 .. Len(c2[o]) : c2[o][i] # Root
  <2>1. ASSUME NEW o \in Owners
        PROVE  IsChain(table, h2[o], c2[o]) /\ \A i \in 1 .. Len(c2[o]) : c2[o][i] # Root
    <3>0. \A q \in Owners : IsChain(table, heads[q], ch[q]) /\ \A i \in 1 .. Len(ch[q]) : ch[q][i] # Root
      BY DEF Chains
    <3>1. CASE o = a
      <4>1. IsChain(table, h2[a], c2[a])
        BY <1>2, ChainNone
      <4> QED
        BY <3>1, <4>1, <1>5
    <3>2. CASE o = b
      <4>1. h2[o] = heads[a] /\ c2[o] = ch[a]
        BY <3>2, <1>2
      <4> QED
        BY <4>1, <3>0
    <3>3. CASE o # a /\ o # b
      <4>1. h2[o] = heads[o] /\ c2[o] = ch[o]
        BY <3>3, <1>2
      <4> QED
        BY <4>1, <3>0
    <3> QED
      BY <3>1, <3>2, <3>3
  <2> QED
    BY <2>1
<1>7. ASSUME NEW o \in Owners, NEW q \in Owners, o # q PROVE Apart(c2[o], c2[q])
  <2>1. CASE o = a \/ q = a
    BY <2>1, <1>5 DEF Apart
  <2>2. CASE o = b /\ q # a
    BY <2>2, <1>2, <1>7 DEF Chains
  <2>3. CASE q = b /\ o # a
    BY <2>3, <1>2, <1>7 DEF Chains
  <2>4. CASE o # a /\ o # b /\ q # a /\ q # b
    BY <2>4, <1>2, <1>7 DEF Chains
  <2> QED
    BY <2>1, <2>2, <2>3, <2>4
<1>8. Chains(table, h2, c2)
  BY <1>6, <1>7 DEF Chains
<1>9. ASSUME Owned(table, ch) PROVE Owned(table, c2)
  <2>1. ASSUME NEW x
        PROVE  (\E o \in Owners : \E i \in 1 .. Len(c2[o]) : c2[o][i] = x) <=> \E o \in Owners : \E i \in 1 .. Len(ch[o]) : ch[o][i] = x
    <3>1. ASSUME NEW o \in Owners, NEW i \in 1 .. Len(c2[o]), c2[o][i] = x
          PROVE  \E q \in Owners : \E j \in 1 .. Len(ch[q]) : ch[q][j] = x
      <4>1. CASE o = b
        BY <3>1, <4>1, <1>2
      <4>2. CASE o # b
        BY <3>1, <4>2, <1>2, <1>5
      <4> QED
        BY <4>1, <4>2
    <3>2. ASSUME NEW o \in Owners, NEW i \in 1 .. Len(ch[o]), ch[o][i] = x
          PROVE  \E q \in Owners : \E j \in 1 .. Len(c2[q]) : c2[q][j] = x
      <4>1. CASE o = a
        BY <3>2, <4>1, <1>2
      <4>2. CASE o # a
        BY <3>2, <4>2, <1>2, <1>5
      <4> QED
        BY <4>1, <4>2
    <3> QED
      BY <3>1, <3>2
  <2> QED
    BY <2>1, <1>9 DEF Owned
<1> QED
  BY <1>4, <1>8, <1>9

(* remove_chain() frees the first cluster of the chain it unlinks.         *)
RemoveFamily(table, heads, ch, tab, h2, c2) ==
  /\ table \in Tables /\ DOMAIN heads = Owners /\ ch \in Families /\ Chains(table, heads, ch) /\ heads[Nobody] # 0
  /\ tab = [table EXCEPT ![heads[Nobody]] = 0] /\ DOMAIN h2 = Owners /\ (\A o \in Names : h2[o] = heads[o])
  /\ h2[Nobody] = IF table[heads[Nobody]] \in Clusters THEN table[heads[Nobody]] ELSE 0
  /\ c2 = [ch EXCEPT ![Nobody] = Tail(ch[Nobody])]

LEMMA FamilyRemove ==
  ASSUME NEW table, NEW heads, NEW ch, NEW tab, NEW h2, NEW c2, RemoveFamily(table, heads, ch, tab, h2, c2)
  PROVE  /\ c2 \in Families /\ Chains(tab, h2, c2) /\ (Owned(table, ch) => Owned(tab, c2))
         /\ table[heads[Nobody]] # 0 /\ heads[Nobody] \in Clusters /\ heads[Nobody] # Root
<1>h. /\ table \in Tables /\ DOMAIN heads = Owners /\ ch \in Families /\ Chains(table, heads, ch) /\ heads[Nobody] # 0
      /\ tab = [table EXCEPT ![heads[Nobody]] = 0] /\ DOMAIN h2 = Owners /\ (\A o \in Names : h2[o] = heads[o])
      /\ h2[Nobody] = IF table[heads[Nobody]] \in Clusters THEN table[heads[Nobody]] ELSE 0
      /\ c2 = [ch EXCEPT ![Nobody] = Tail(ch[Nobody])]
  BY DEF RemoveFamily
<1> USE <1>h
<1>0. DOMAIN ch = Owners /\ Nobody \in Owners /\ Nobody \notin Names /\ DOMAIN table = Clusters
  BY FatConstants DEF Families, Owners, Tables
<1> DEFINE s == ch[Nobody]
           u == Tail(s)
           c == heads[Nobody]
<1>1. c2[Nobody] = u /\ \A o \in Names : c2[o] = ch[o]
  BY <1>0 DEF Owners
<1>2. /\ IsChain(table, c, s) /\ s # <<>> /\ c \in Clusters /\ c = s[1] /\ 1 \in 1 .. Len(s) /\ Len(s) \in Nat
      /\ \A i \in 1 .. Len(s) : s[i] # Root
  BY <1>0, FamilyFacts
<1>3. /\ table[c] # 0 /\ IsChain(tab, h2[Nobody], u) /\ u \in Seq(Clusters) /\ Len(u) \in Nat /\ Len(s) = Len(u) + 1
      /\ \A i \in 1 .. Len(u) : u[i] = s[i + 1] /\ i + 1 \in 1 .. Len(s)
  <2> HIDE DEF s
  <2>1. h2[Nobody] = IF table[c] \in Clusters THEN table[c] ELSE 0
    OBVIOUS
  <2>2. \A i \in 1 .. Len(s) : s[i] # c => tab[s[i]] = table[s[i]]
    BY <1>2 DEF Tables
  <2> HIDE DEF c
  <2>3. /\ table[c] # 0
        /\ IsChain(tab, IF table[c] \in Clusters THEN table[c] ELSE 0, Tail(s))
        /\ Tail(s) \in Seq(Clusters)
        /\ Len(Tail(s)) \in Nat /\ Len(s) = Len(Tail(s)) + 1
        /\ \A i \in 1 .. Len(Tail(s)) : Tail(s)[i] = s[i + 1] /\ i + 1 \in 1 .. Len(s)
    <3>1. IsChain(table, c, s) /\ s # <<>>
      BY <1>2
    <3>2. Shortened(table, c, s, tab)
      BY <3>1, <2>2, ChainTail, Zenon
    <3> QED
      BY <3>2 DEF Shortened
  <2> QED
    BY <2>1, <2>3
<1>4. tab[c] = 0 /\ \A x \in Clusters : x # c => tab[x] = table[x]
  BY <1>0, <1>2
<1>5. c2 \in Families
  BY <1>3 DEF Families
<1>6. \A o \in Names : Apart(ch[o], s) /\ Apart(s, ch[o])
  BY <1>0 DEF Chains, Owners
<1> HIDE DEF s, u, c
<1>7. ASSUME NEW o \in Names
      PROVE  /\ IsChain(tab, h2[o], c2[o])
             /\ \A i \in 1 .. Len(c2[o]) : c2[o][i] # Root /\ c2[o][i] # c /\ \A j \in 1 .. Len(s) : c2[o][i] # s[j]
  <2>1. o \in Owners
    BY DEF Owners
  <2>2. /\ IsChain(table, heads[o], ch[o])
        /\ \A i \in 1 .. Len(ch[o]) : ch[o][i] \in Clusters /\ ch[o][i] # Root
    BY <2>1, FamilyFacts
  <2>3. \A i \in 1 .. Len(ch[o]) : \A j \in 1 .. Len(s) : ch[o][i] # s[j]
    BY <1>6 DEF Apart
  <2>4. \A i \in 1 .. Len(ch[o]) : ch[o][i] # c
    BY <2>3, <1>2
  <2>5. \A i \in 1 .. Len(ch[o]) : tab[ch[o][i]] = table[ch[o][i]]
    BY <2>2, <2>4, <1>4
  <2>6. IsChain(tab, heads[o], ch[o])
    BY <2>2, <2>5, ChainKept
  <2> QED
    BY <2>2, <2>3, <2>4, <2>6, <1>1
<1>8. \A i \in 1 .. Len(u) : u[i] # c /\ \E j \in 1 .. Len(s) : u[i] = s[j]
  <2>1. ASSUME NEW i \in 1 .. Len(u) PROVE u[i] # c /\ \E j \in 1 .. Len(s) : u[i] = s[j]
    <3>1. i + 1 \in 1 .. Len(s) /\ i + 1 # 1 /\ u[i] = s[i + 1]
      BY <1>3, SMT
    <3>2. s[i + 1] # s[1]
      BY <3>1, <1>2 DEF IsChain
    <3> QED
      BY <3>1, <3>2, <1>2
  <2> QED
    BY <2>1
<1>9. Chains(tab, h2, c2)
  <2>0. IsChain(tab, h2[Nobody], c2[Nobody]) /\ \A i \in 1 .. Len(c2[Nobody]) : c2[Nobody][i] # Root
    <3>1. \A i \in 1 .. Len(u) : u[i] # Root
      BY <1>2, <1>8
    <3> QED
      BY <3>1, <1>1, <1>3
  <2>1. \A o \in Owners : IsChain(tab, h2[o], c2[o]) /\ \A i \in 1 .. Len(c2[o]) : c2[o][i] # Root
    BY <2>0, <1>7 DEF Owners
  <2>9. \A o \in Names : Apart(c2[o], u) /\ Apart(u, c2[o])
    <3>1. \A o \in Names : \A i \in 1 .. Len(c2[o]) : \A j \in 1 .. Len(s) : c2[o][i] # s[j]
      BY <1>7
    <3>2. \A o \in Names : \A i \in 1 .. Len(c2[o]) : \A j \in 1 .. Len(u) : c2[o][i] # u[j]
      <4>1. ASSUME NEW o \in Names, NEW i \in 1 .. Len(c2[o]), NEW j \in 1 .. Len(u) PROVE c2[o][i] # u[j]
        <5>1. PICK k \in 1 .. Len(s) : u[j] = s[k]
          BY <1>8
        <5> QED
          BY <5>1, <3>1, Zenon
      <4> QED
        BY <4>1
    <3> QED
      BY <3>2 DEF Apart
  <2>2. ASSUME NEW o \in Owners, NEW q \in Owners, o # q PROVE Apart(c2[o], c2[q])
    <3>1. CASE o \in Names /\ q \in Names
      BY <3>1, <1>1, <2>2 DEF Chains
    <3>2. CASE o = Nobody /\ q \in Names
      BY <3>2, <1>1, <2>9
    <3>3. CASE q = Nobody /\ o \in Names
      BY <3>3, <1>1, <2>9
    <3> QED
      BY <3>1, <3>2, <3>3, <2>2 DEF Owners
  <2> QED
    BY <2>1, <2>2 DEF Chains
<1>10. ASSUME Owned(table, ch) PROVE Owned(tab, c2)
  <2>1. ASSUME NEW x \in Clusters
        PROVE  tab[x] # 0 <=> x = Root \/ \E o \in Owners : \E i \in 1 .. Len(c2[o]) : c2[o][i] = x
    <3>1. CASE x = c
      <4>1. tab[x] = 0 /\ x # Root
        BY <3>1, <1>2, <1>4
      <4>2. ASSUME NEW o \in Owners, NEW i \in 1 .. Len(c2[o]) PROVE c2[o][i] # x
        <5>1. CASE o \in Names
          BY <5>1, <3>1, <1>7
        <5>2. CASE o = Nobody
          BY <5>2, <3>1, <1>1, <1>8
        <5> QED
          BY <5>1, <5>2 DEF Owners
      <4> QED
        BY <4>1, <4>2, Zenon
    <3>2. CASE x # c
      <4>1. table[x] # 0 <=> x = Root \/ \E o \in Owners : \E i \in 1 .. Len(ch[o]) : ch[o][i] = x
        BY <1>10 DEF Owned
      <4>2. ASSUME NEW i \in 1 .. Len(s), s[i] = x PROVE \E j \in 1 .. Len(u) : u[j] = x
        <5>1. i # 1 /\ i \in Int
          BY <3>2, <4>2, <1>2, SMT
        <5>2. i - 1 \in 1 .. Len(u) /\ (i - 1) + 1 = i
          BY <5>1, <1>3, SMT
        <5> QED
          BY <5>2, <4>2, <1>3
      <4>3. ASSUME NEW i \in 1 .. Len(u), u[i] = x PROVE \E j \in 1 .. Len(s) : s[j] = x
        BY <4>3, <1>8
      <4>4. (\E o \in Owners : \E i \in 1 .. Len(c2[o]) : c2[o][i] = x) <=> \E o \in Owners : \E i \in 1 .. Len(ch[o]) : ch[o][i] = x
        <5>1. (\E i \in 1 .. Len(c2[Nobody]) : c2[Nobody][i] = x) <=> \E i \in 1 .. Len(ch[Nobody]) : ch[Nobody][i] = x
          <6>1. (\E i \in 1 .. Len(u) : u[i] = x) <=> \E i \in 1 .. Len(s) : s[i] = x
            BY <4>2, <4>3
          <6> QED
            BY <6>1, <1>1 DEF s
        <5>2. ASSUME NEW o \in Names
              PROVE  (\E i \in 1 .. Len(c2[o]) : c2[o][i] = x) <=> \E i \in 1 .. Len(ch[o]) : ch[o][i] = x
          BY <1>1
        <5> QED
          BY <5>1, <5>2, Zenon DEF Owners
      <4> QED
        BY <4>1, <4>4, <3>2, <1>4
    <3> QED
      BY <3>1, <3>2
  <2> QED
    BY <2>1 DEF Owned
<1> QED
  BY <1>2, <1>3, <1>5, <1>9, <1>10 DEF c

(* The new cluster is appended to the file's chain.                        *)
LinkFamily(table, heads, ch, f, c, tab, h2, c2) ==
  /\ table \in Tables /\ DOMAIN heads = Owners /\ ch \in Families /\ Chains(table, heads, ch)
  /\ f \in Names /\ heads[f] # 0 /\ c \in Clusters /\ heads[Nobody] = c /\ table[c] = LastLink
  /\ tab = [table EXCEPT ![ch[f][Len(ch[f])]] = c]
  /\ DOMAIN h2 = Owners /\ h2[Nobody] = 0 /\ (\A o \in Names : h2[o] = heads[o])
  /\ c2 = [ch EXCEPT ![f] = Append(ch[f], c), ![Nobody] = <<>>]

LEMMA FamilyLink ==
  ASSUME NEW table, NEW heads, NEW ch, NEW f, NEW c, NEW tab, NEW h2, NEW c2, LinkFamily(table, heads, ch, f, c, tab, h2, c2)
  PROVE  /\ c2 \in Families /\ Chains(tab, h2, c2) /\ (Owned(table, ch) => Owned(tab, c2))
         /\ c2[f] = Append(ch[f], c)
<1>h. /\ table \in Tables /\ DOMAIN heads = Owners /\ ch \in Families /\ Chains(table, heads, ch)
      /\ f \in Names /\ heads[f] # 0 /\ c \in Clusters /\ heads[Nobody] = c /\ table[c] = LastLink
      /\ tab = [table EXCEPT ![ch[f][Len(ch[f])]] = c]
      /\ DOMAIN h2 = Owners /\ h2[Nobody] = 0 /\ (\A o \in Names : h2[o] = heads[o])
      /\ c2 = [ch EXCEPT ![f] = Append(ch[f], c), ![Nobody] = <<>>]
  BY DEF LinkFamily
<1> USE <1>h
<1>0. /\ DOMAIN ch = Owners /\ Nobody \in Owners /\ Nobody \notin Names /\ DOMAIN table = Clusters
      /\ f \in Owners /\ f # Nobody
  BY FatConstants DEF Families, Owners, Tables
<1> DEFINE s == ch[f]
           u == Append(s, c)
           n == ch[Nobody]
<1>1. c2[Nobody] = <<>> /\ c2[f] = u /\ \A o \in Names : o # f => c2[o] = ch[o]
  BY <1>0 DEF Owners
<1>2. /\ IsChain(table, heads[f], s) /\ s # <<>> /\ Len(s) \in Nat /\ Len(s) \in 1 .. Len(s) /\ s \in Seq(Clusters)
      /\ \A i \in 1 .. Len(s) : s[i] \in Clusters /\ s[i] # Root
  BY <1>0, FamilyFacts
<1>3. /\ IsChain(table, c, n) /\ Len(n) \in Nat /\ 1 \in 1 .. Len(n) /\ n[1] = c
      /\ \A i \in 1 .. Len(n) : n[i] \in Clusters /\ n[i] # Root
  BY <1>0, FamilyFacts, FatConstants
<1>4. Len(n) = 1
  <2>1. table[n[1]] = IF 1 = Len(n) THEN LastLink ELSE n[1 + 1]
    BY <1>3 DEF IsChain
  <2>2. CASE 1 # Len(n)
    <3>1. 1 + 1 \in 1 .. Len(n)
      <4> HIDE DEF n
      <4> QED
        <5>1. PICK k \in Nat : k = Len(n)
          BY <1>3
        <5>2. 1 \in 1 .. k /\ 1 # k
          BY <1>3, <2>2, <5>1
        <5>3. 1 + 1 \in 1 .. k
          BY <5>2, SMT
        <5> QED
          BY <5>1, <5>3
    <3> QED
      BY <2>1, <2>2, <3>1, <1>3, FatConstants
  <2> QED
    BY <2>2
<1>5. \A i \in 1 .. Len(n) : n[i] = c
  BY <1>3, <1>4, SMT
<1>6. Apart(s, n) /\ \A o \in Names : Apart(ch[o], n) /\ (o # f => Apart(ch[o], s) /\ Apart(s, ch[o]))
  BY <1>0 DEF Chains, Owners
<1>7. \A i \in 1 .. Len(s) : s[i] # c
  BY <1>3, <1>6 DEF Apart
<1>8. /\ u \in Seq(Clusters) /\ Len(u) = Len(s) + 1
      /\ \A i \in 1 .. Len(s) : u[i] = s[i]
      /\ u[Len(s) + 1] = c
  BY <1>2, AppendProperties
<1>9. IsChain(tab, heads[f], u)
  BY <1>2, <1>7, ChainAppend
<1>10. <<>> \in Seq(Clusters) /\ Len(<<>>) = 0
  BY EmptySeq
<1>11. c2 \in Families
  <2>1. \A o \in Owners : ch[o] \in Seq(Clusters)
    BY DEF Families
  <2>2. c2 = [o \in Owners |-> IF o = Nobody THEN <<>> ELSE IF o = f THEN u ELSE ch[o]]
    BY <1>0
  <2> HIDE DEF u, Clusters
  <2>3. \A o \in Owners : (IF o = Nobody THEN <<>> ELSE IF o = f THEN u ELSE ch[o]) \in Seq(Clusters)
    BY <1>8, <1>10, <2>1
  <2> QED
    BY <2>2, <2>3 DEF Families
<1>12. PICK e \in Clusters : e = s[Len(s)] /\ tab = [table EXCEPT ![e] = c]
  BY <1>2
<1>13. \A x \in Clusters : x # e => tab[x] = table[x]
  BY <1>0, <1>12
<1> HIDE DEF s, u, n
<1>14. \A i \in 1 .. Len(u) : u[i] = c \/ \E j \in 1 .. Len(s) : u[i] = s[j]
  <2>1. ASSUME NEW i \in 1 .. Len(u) PROVE u[i] = c \/ \E j \in 1 .. Len(s) : u[i] = s[j]
    <3>1. i \in 1 .. Len(s) \/ i = Len(s) + 1
      BY <1>2, <1>8, SMT
    <3> QED
      BY <3>1, <1>8
  <2> QED
    BY <2>1
<1>15. \A i \in 1 .. Len(u) : u[i] # Root
  <2>1. c # Root
    BY <1>3
  <2>2. \A j \in 1 .. Len(s) : s[j] # Root
    BY <1>2
  <2> QED
    BY <1>14, <2>1, <2>2
<1>16. ASSUME NEW o \in Names, o # f
       PROVE  /\ IsChain(tab, h2[o], c2[o])
              /\ \A i \in 1 .. Len(c2[o]) : c2[o][i] # Root /\ \A j \in 1 .. Len(u) : c2[o][i] # u[j]
  <2>1. o \in Owners
    BY DEF Owners
  <2>2. /\ IsChain(table, heads[o], ch[o])
        /\ \A i \in 1 .. Len(ch[o]) : ch[o][i] \in Clusters /\ ch[o][i] # Root
    BY <2>1, FamilyFacts
  <2>3. \A i \in 1 .. Len(ch[o]) : \A j \in 1 .. Len(s) : ch[o][i] # s[j]
    BY <1>6, <1>16 DEF Apart
  <2>4. \A i \in 1 .. Len(ch[o]) : ch[o][i] # c
    BY <1>3, <1>6 DEF Apart
  <2>5. \A i \in 1 .. Len(ch[o]) : ch[o][i] # e
    BY <2>3, <1>2, <1>12
  <2>6. \A i \in 1 .. Len(ch[o]) : tab[ch[o][i]] = table[ch[o][i]]
    BY <2>2, <2>5, <1>13
  <2>7. IsChain(tab, heads[o], ch[o])
    BY <2>2, <2>6, ChainKept
  <2>8. \A i \in 1 .. Len(ch[o]) : \A j \in 1 .. Len(u) : ch[o][i] # u[j]
    BY <2>3, <2>4, <1>14
  <2>9. c2[o] = ch[o] /\ h2[o] = heads[o]
    BY <1>1, <1>16
  <2>10. IsChain(tab, h2[o], c2[o])
    BY <2>7, <2>9, Zenon
  <2>11. \A i \in 1 .. Len(c2[o]) : c2[o][i] # Root /\ \A j \in 1 .. Len(u) : c2[o][i] # u[j]
    <3>1. Away(ch[o], u)
      BY <2>2, <2>8 DEF Away
    <3>2. Away(c2[o], u)
      BY <3>1, <2>9, Zenon
    <3> QED
      BY <3>2, Zenon DEF Away
  <2> QED
    BY <2>10, <2>11, Zenon
<1>17. \A i \in 1 .. Len(c2[Nobody]) : FALSE
  BY <1>1, <1>10, SMT
<1>18. Chains(tab, h2, c2)
  <2>1. \A o \in Owners : IsChain(tab, h2[o], c2[o]) /\ \A i \in 1 .. Len(c2[o]) : c2[o][i] # Root
    <3>1. IsChain(tab, h2[Nobody], c2[Nobody])
      BY <1>1, ChainNone
    <3>2. IsChain(tab, h2[f], c2[f]) /\ \A i \in 1 .. Len(c2[f]) : c2[f][i] # Root
      BY <1>1, <1>9, <1>15
    <3> QED
      BY <3>1, <3>2, <1>16, <1>17 DEF Owners
  <2>2. ASSUME NEW o \in Owners, NEW q \in Owners, o # q PROVE Apart(c2[o], c2[q])
    <3>1. CASE o = Nobody \/ q = Nobody
      BY <3>1, <1>17 DEF Apart
    <3>0. \A x \in Names : x # f => Apart(c2[x], u) /\ Apart(u, c2[x])
      <4>1. ASSUME NEW x \in Names, x # f PROVE Apart(c2[x], u) /\ Apart(u, c2[x])
        <5>1. \A i \in 1 .. Len(c2[x]) : \A j \in 1 .. Len(u) : c2[x][i] # u[j]
          BY <1>16, <4>1, Zenon
        <5> QED
          BY <5>1, Zenon DEF Apart
      <4> QED
        BY <4>1
    <3>2. CASE o = f /\ q \in Names
      BY <3>0, <3>2, <2>2, <1>1
    <3>3. CASE q = f /\ o \in Names
      BY <3>0, <3>3, <2>2, <1>1
    <3>4. CASE o \in Names /\ q \in Names /\ o # f /\ q # f
      <4>1. o \in Owners /\ q \in Owners
        BY DEF Owners
      <4>2. Apart(ch[o], ch[q])
        BY <2>2, <4>1 DEF Chains
      <4> QED
        BY <3>4, <4>2, <1>1
    <3> QED
      BY <3>1, <3>2, <3>3, <3>4 DEF Owners
  <2> QED
    BY <2>1, <2>2 DEF Chains
<1>19. ASSUME Owned(table, ch) PROVE Owned(tab, c2)
  <2>1. ASSUME NEW x \in Clusters
        PROVE  tab[x] # 0 <=> x = Root \/ \E o \in Owners : \E i \in 1 .. Len(c2[o]) : c2[o][i] = x
    <3>1. table[x] # 0 <=> x = Root \/ \E o \in Owners : \E i \in 1 .. Len(ch[o]) : ch[o][i] = x
      BY <1>19 DEF Owned
    <3>2. (\E o \in Owners : \E i \in 1 .. Len(c2[o]) : c2[o][i] = x) <=> \E o \in Owners : \E i \in 1 .. Len(ch[o]) : ch[o][i] = x
      <4>1. ASSUME NEW o \in Owners, NEW i \in 1 .. Len(c2[o]), c2[o][i] = x
            PROVE  \E q \in Owners : \E j \in 1 .. Len(ch[q]) : ch[q][j] = x
        <5>1. CASE o = Nobody
          BY <5>1, <1>17
        <5>2. CASE o = f
          <6>1. i \in 1 .. Len(u) /\ u[i] = x
            BY <5>2, <4>1, <1>1
          <6>2. CASE x = c
            BY <6>2, <1>0, <1>3 DEF n
          <6>3. CASE \E j \in 1 .. Len(s) : x = s[j]
            BY <6>3, <1>0 DEF s
          <6> QED
            BY <6>1, <6>2, <6>3, <1>14
        <5>3. CASE o # Nobody /\ o # f
          BY <5>3, <4>1, <1>1 DEF Owners
        <5> QED
          BY <5>1, <5>2, <5>3
      <4>2. ASSUME NEW o \in Owners, NEW i \in 1 .. Len(ch[o]), ch[o][i] = x
            PROVE  \E q \in Owners : \E j \in 1 .. Len(c2[q]) : c2[q][j] = x
        <5>1. CASE o = Nobody
          <6>1. x = c
            BY <5>1, <4>2, <1>5 DEF n
          <6>2. Len(s) + 1 \in 1 .. Len(u)
            BY <1>2, <1>8, SMT
          <6> QED
            BY <6>1, <6>2, <1>0, <1>1, <1>8
        <5>2. CASE o = f
          <6>1. i \in 1 .. Len(u) /\ u[i] = x
            <7>1. i \in 1 .. Len(s) /\ s[i] = x
              BY <5>2, <4>2 DEF s
            <7>2. i \in 1 .. Len(u)
              BY <7>1, <1>2, <1>8, SMT
            <7> QED
              BY <7>1, <7>2, <1>8
          <6> QED
            BY <6>1, <1>0, <1>1
        <5>3. CASE o # Nobody /\ o # f
          BY <5>3, <4>2, <1>1 DEF Owners
        <5> QED
          BY <5>1, <5>2, <5>3
      <4> QED
        BY <4>1, <4>2
    <3>3. tab[x] # 0 <=> table[x] # 0
      <4>1. CASE x = e
        <5>1. tab[e] = c /\ c # 0
          BY <1>0, <1>12, FatConstants
        <5>2. table[e] # 0
          BY <1>0, <1>2, <1>12, FamilyFacts DEF s
        <5> QED
          BY <4>1, <5>1, <5>2
      <4>2. CASE x # e
        BY <4>2, <1>13
      <4> QED
        BY <4>1, <4>2
    <3> QED
      BY <3>1, <3>2, <3>3
  <2> QED
    BY <2>1 DEF Owned
<1> QED
  BY <1>1, <1>11, <1>18, <1>19 DEF u, s

-----------------------------------------------------------------------------
(* The window.                                                             *)

(* The window and the disk.                                                *)

DiskStep ==
  \/ disk'.fat = disk.fat /\ disk'.dir = disk.dir
  \/ disk'.fat = fat /\ disk'.dir = dir

DiskType == disk \in [fat : Tables, dir : [Names -> DirEntries], free : Int, last : 1 .. LastCluster]

LEMMA SectorFacts ==
  /\ \A c \in Clusters : FatSector(c) \in Sectors /\ FatSector(c) # DirSector /\ FatSector(c) # InfoSector
  /\ DirSector \in Sectors /\ InfoSector \in Sectors /\ DirSector # InfoSector
<1>1. \A c \in Clusters : FatSector(c) # DirSector /\ FatSector(c) # InfoSector
  BY SMT DEF FatSector, DirSector, InfoSector
<1>2. DirSector # InfoSector
  BY SMT DEF DirSector, InfoSector
<1> QED
  BY <1>1, <1>2 DEF Sectors

(* Once the window is written back the disk is what the calls see.         *)
LEMMA SyncedDisk ==
  ASSUME TypesW, WindowInv
  PROVE  /\ sync_window \in [fat : Tables, dir : [Names -> DirEntries], free : Int, last : 1 .. LastCluster]
         /\ sync_window.fat = fat /\ sync_window.dir = dir
         /\ sync_window.free = disk.free /\ sync_window.last = disk.last
<1> DEFINE ft == [c \in Clusters |-> IF wflag /\ FatSector(c) = winsect THEN fat[c] ELSE disk.fat[c]]
           d == IF wflag /\ winsect = DirSector THEN dir ELSE disk.dir
<1>1. ft = fat
  <2>1. \A c \in Clusters : (IF wflag /\ FatSector(c) = winsect THEN fat[c] ELSE disk.fat[c]) = fat[c]
    BY DEF WindowInv
  <2>2. ft = [c \in Clusters |-> fat[c]]
    BY <2>1
  <2>3. fat = [c \in Clusters |-> fat[c]]
    BY DEF TypesW, Tables
  <2> QED
    BY <2>2, <2>3
<1>2. d = dir
  BY DEF WindowInv
<1>3. /\ disk = [fat |-> disk.fat, dir |-> disk.dir, free |-> disk.free, last |-> disk.last]
      /\ disk.free \in Int /\ disk.last \in 1 .. LastCluster /\ fat \in Tables /\ dir \in [Names -> DirEntries]
  <2> HIDE DEF Tables, DirEntries
  <2> QED
    BY DEF TypesW
<1>4. sync_window = [disk EXCEPT !.fat = ft, !.dir = d]
  BY DEF sync_window
<1> HIDE DEF ft, d
<1>5. sync_window = [fat |-> ft, dir |-> d, free |-> disk.free, last |-> disk.last]
  BY <1>3, <1>4
<1> HIDE DEF Tables, DirEntries
<1> QED
  BY <1>1, <1>2, <1>3, <1>5

LEMMA MovedDisk ==
  ASSUME WInv, NEW v, NEW s, MoveOver(v, s)
  PROVE  /\ DiskStep /\ disk'.free = disk.free /\ disk'.last = disk.last /\ winsect' = s
         /\ disk' \in [fat : Tables, dir : [Names -> DirEntries], free : Int, last : 1 .. LastCluster]
         /\ disk'.fat[Root] # 0
         /\ ~ (v \subseteq {winsect}) => disk'.fat = fat /\ disk'.dir = dir
         /\ v \subseteq {winsect} => disk' = disk
<1>1. /\ winsect' = s
      /\ v \subseteq {winsect} => disk' = disk
      /\ ~ (v \subseteq {winsect}) => disk' = sync_window
  BY DEF MoveOver
<1> QED
  BY <1>1, SyncedDisk DEF WInv, DiskStep, TypesW

(* A sector is read.                                                       *)
LEMMA WindowRead ==
  ASSUME WInv, NEW v, NEW s \in Sectors, ReadOver(v, s), s \in v, step' # "fsinfo"
  PROVE  WInv' /\ DiskStep /\ disk'.free = disk.free /\ fat' = fat /\ dir' = dir
<1>1. MoveOver(v, s) /\ wflag' = (wflag /\ v \subseteq {winsect}) /\ fat' = fat /\ dir' = dir
  BY DEF ReadOver
<1>2. /\ DiskStep /\ disk'.free = disk.free /\ winsect' = s
      /\ disk' \in [fat : Tables, dir : [Names -> DirEntries], free : Int, last : 1 .. LastCluster]
      /\ disk'.fat[Root] # 0
      /\ ~ (v \subseteq {winsect}) => disk'.fat = fat /\ disk'.dir = dir
      /\ v \subseteq {winsect} => disk' = disk
  BY <1>1, MovedDisk
<1>3. v \subseteq {winsect} => s = winsect
  OBVIOUS
<1>4. TypesW'
  BY <1>1, <1>2 DEF TypesW, WInv
<1>5. WindowInv'
  <2>1. CASE v \subseteq {winsect}
    BY <2>1, <1>1, <1>2, <1>3 DEF WindowInv, WInv
  <2>2. CASE ~ (v \subseteq {winsect})
    BY <2>2, <1>1, <1>2 DEF WindowInv
  <2> QED
    BY <2>1, <2>2
<1> QED
  BY <1>1, <1>2, <1>4, <1>5 DEF WInv

(* The FAT is changed in the sector s of the window.                       *)
LEMMA WindowPut ==
  ASSUME WInv, NEW v, NEW c \in Clusters, NEW val \in {0} \cup Clusters \cup {LastLink}, c = Root => val # 0,
         MoveOver(v, FatSector(c)), FatSector(c) \in v,
         fat' = [fat EXCEPT ![c] = val], wflag' = TRUE, dir' = dir, step' # "fsinfo"
  PROVE  WInv' /\ DiskStep /\ disk'.free = disk.free
<1>2. /\ DiskStep /\ disk'.free = disk.free /\ winsect' = FatSector(c)
      /\ disk' \in [fat : Tables, dir : [Names -> DirEntries], free : Int, last : 1 .. LastCluster]
      /\ disk'.fat[Root] # 0
      /\ ~ (v \subseteq {winsect}) => disk'.fat = fat /\ disk'.dir = dir
      /\ v \subseteq {winsect} => disk' = disk
  BY MovedDisk
<1>3. v \subseteq {winsect} => FatSector(c) = winsect
  OBVIOUS
<1>4. fat' \in Tables /\ fat'[Root] # 0 /\ \A x \in Clusters : x # c => fat'[x] = fat[x]
  BY FatConstants DEF WInv, TypesW, Tables
<1>5. FatSector(c) \in Sectors /\ FatSector(c) # DirSector
  BY SectorFacts
<1>6. TypesW'
  BY <1>2, <1>4, <1>5 DEF TypesW, WInv
<1>7. WindowInv'
  <2>1. CASE v \subseteq {winsect}
    BY <2>1, <1>2, <1>3, <1>4, <1>5 DEF WindowInv, WInv
  <2>2. CASE ~ (v \subseteq {winsect})
    BY <2>2, <1>2, <1>4 DEF WindowInv
  <2> QED
    BY <2>1, <2>2
<1> QED
  BY <1>2, <1>4, <1>6, <1>7 DEF WInv

(* An entry is changed.                                                    *)
LEMMA WindowEntry ==
  ASSUME WInv, NEW f \in Names, NEW e \in DirEntries, PutEntry(f, e), step' # "fsinfo"
  PROVE  /\ WInv' /\ DiskStep /\ disk'.free = disk.free /\ fat' = fat
         /\ dir'[f] = e /\ \A g \in Names : g # f => dir'[g] = dir[g]
<1>1. MoveOver({DirSector}, DirSector) /\ dir' = [dir EXCEPT ![f] = e] /\ wflag' = TRUE /\ fat' = fat
  BY DEF PutEntry
<1>2. /\ DiskStep /\ disk'.free = disk.free /\ winsect' = DirSector
      /\ disk' \in [fat : Tables, dir : [Names -> DirEntries], free : Int, last : 1 .. LastCluster]
      /\ disk'.fat[Root] # 0
      /\ ~ ({DirSector} \subseteq {winsect}) => disk'.fat = fat /\ disk'.dir = dir
      /\ {DirSector} \subseteq {winsect} => disk' = disk
  BY <1>1, MovedDisk
<1>3. {DirSector} \subseteq {winsect} => DirSector = winsect
  OBVIOUS
<1>4. dir' \in [Names -> DirEntries] /\ dir'[f] = e /\ \A g \in Names : g # f => dir'[g] = dir[g]
  <2>1. dir \in [Names -> DirEntries]
    BY DEF WInv, TypesW
  <2> HIDE DEF DirEntries
  <2> QED
    BY <1>1, <2>1
<1>6. TypesW'
  BY <1>1, <1>2, <1>4, SectorFacts DEF TypesW, WInv
<1>7. WindowInv'
  <2>1. CASE {DirSector} \subseteq {winsect}
    <3>1. \A c \in Clusters : FatSector(c) # winsect
      BY <2>1, <1>3, SectorFacts
    <3>2. \A c \in Clusters : disk.fat[c] = fat[c]
      BY <3>1 DEF WindowInv, WInv
    <3> QED
      BY <2>1, <3>2, <1>1, <1>2 DEF WindowInv
  <2>2. CASE ~ ({DirSector} \subseteq {winsect})
    BY <2>2, <1>1, <1>2 DEF WindowInv
  <2> QED
    BY <2>1, <2>2
<1> QED
  BY <1>1, <1>2, <1>4, <1>6, <1>7 DEF WInv

LEMMA WindowSame ==
  ASSUME WInv, UNCHANGED windowVars, step' # "fsinfo"
  PROVE  WInv' /\ DiskStep /\ disk'.free = disk.free /\ fat' = fat /\ dir' = dir
BY DEF WInv, windowVars, TypesW, WindowInv, DiskStep

(* sync_fs() writes the window back, then FSINFO.                          *)
LEMMA WindowSynced ==
  ASSUME WInv, disk' = sync_window, wflag' = FALSE, UNCHANGED <<fat, dir, winsect>>
  PROVE  WInv' /\ DiskStep /\ disk'.free = disk.free
<1>1. /\ disk' \in [fat : Tables, dir : [Names -> DirEntries], free : Int, last : 1 .. LastCluster]
      /\ disk'.fat = fat /\ disk'.dir = dir /\ disk'.free = disk.free
  BY SyncedDisk DEF WInv
<1> QED
  BY <1>1 DEF WInv, TypesW, WindowInv, DiskStep

LEMMA WindowInfo ==
  ASSUME WInv, step = "fsinfo", step' # "fsinfo", UNCHANGED <<fat, dir, wflag>>,
         NEW n \in Int, NEW l \in 1 .. LastCluster,
         disk' = [disk EXCEPT !.free = n, !.last = l], winsect' = InfoSector
  PROVE  WInv' /\ DiskStep /\ disk'.free = n
<1>1. /\ disk = [fat |-> disk.fat, dir |-> disk.dir, free |-> disk.free, last |-> disk.last]
      /\ disk.fat \in Tables /\ disk.dir \in [Names -> DirEntries]
  <2> HIDE DEF Tables, DirEntries
  <2> QED
    BY DEF WInv, TypesW
<1>2. disk' = [fat |-> disk.fat, dir |-> disk.dir, free |-> n, last |-> l]
  BY <1>1
<1>3. disk' \in [fat : Tables, dir : [Names -> DirEntries], free : Int, last : 1 .. LastCluster]
  <2> HIDE DEF Tables, DirEntries
  <2> QED
    BY <1>1, <1>2
<1>4. disk'.fat = disk.fat /\ disk'.dir = disk.dir /\ disk'.free = n
  BY <1>2
<1>5. ~ wflag
  BY DEF WInv, WindowInv
<1> QED
  BY <1>3, <1>4, <1>5, SectorFacts DEF WInv, TypesW, WindowInv, DiskStep

-----------------------------------------------------------------------------
(* Records.                                                                *)

(* The fields of a file and of the locals.                                 *)
Fields(h, op, wr, wn, di, sc, cl, size, p) ==
  /\ FilType(h) /\ h.open = op /\ h.write = wr /\ h.written = wn /\ h.dirty = di
  /\ h.sclust = sc /\ h.clust = cl /\ h.fsize = size /\ h.fptr = p

Locals(c, call, lft, clust, new) ==
  CurType(c) /\ c.call = call /\ c.left = lft /\ c.clust = clust /\ c.new = new

LEMMA SetClust ==
  ASSUME NEW h, FilType(h), NEW sc \in Starts, NEW cl \in Starts
  PROVE  /\ Fields([h EXCEPT !.clust = cl], h.open, h.write, h.written, h.dirty, h.sclust, cl, h.fsize, h.fptr)
         /\ Fields([h EXCEPT !.clust = cl, !.sclust = sc], h.open, h.write, h.written, h.dirty, sc, cl, h.fsize, h.fptr)
         /\ Fields([h EXCEPT !.sclust = sc, !.clust = cl], h.open, h.write, h.written, h.dirty, sc, cl, h.fsize, h.fptr)
<1> HIDE DEF Starts
<1> QED
  BY SMT DEF FilType, FilFields, Fields

LEMMA SetClean ==
  ASSUME NEW h, FilType(h), NEW ds, NEW bf
  PROVE  /\ Fields([h EXCEPT !.dirty = FALSE], h.open, h.write, h.written, FALSE, h.sclust, h.clust, h.fsize, h.fptr)
         /\ Fields([h EXCEPT !.dsect = ds, !.buf = bf], h.open, h.write, h.written, h.dirty, h.sclust, h.clust, h.fsize, h.fptr)
<1> HIDE DEF Starts
<1> QED
  BY SMT DEF FilType, FilFields, Fields

LEMMA SetPlace ==
  ASSUME NEW h, FilType(h), NEW p \in Nat, NEW cl \in Starts
  PROVE  /\ Fields([h EXCEPT !.fptr = p], h.open, h.write, h.written, h.dirty, h.sclust, h.clust, h.fsize, p)
         /\ Fields([h EXCEPT !.clust = cl, !.fptr = p], h.open, h.write, h.written, h.dirty, h.sclust, cl, h.fsize, p)
         /\ Fields([h EXCEPT !.fptr = p, !.clust = cl], h.open, h.write, h.written, h.dirty, h.sclust, cl, h.fsize, p)
<1> HIDE DEF Starts
<1> QED
  BY SMT DEF FilType, FilFields, Fields

LEMMA SetStored ==
  ASSUME NEW h, FilType(h), NEW p \in Nat, NEW bf
  PROVE  /\ Fields([h EXCEPT !.fptr = p, !.buf = bf], h.open, h.write, h.written, h.dirty, h.sclust, h.clust, h.fsize, p)
         /\ Fields([h EXCEPT !.buf = bf, !.dirty = TRUE, !.fptr = p],
                   h.open, h.write, h.written, TRUE, h.sclust, h.clust, h.fsize, p)
<1> HIDE DEF Starts
<1> QED
  BY SMT DEF FilType, FilFields, Fields

LEMMA SetSize ==
  ASSUME NEW h, FilType(h), NEW size \in Nat, NEW wn \in BOOLEAN
  PROVE  /\ Fields([h EXCEPT !.fsize = size, !.written = wn], h.open, h.write, wn, h.dirty, h.sclust, h.clust, size, h.fptr)
         /\ Fields([h EXCEPT !.written = wn], h.open, h.write, wn, h.dirty, h.sclust, h.clust, h.fsize, h.fptr)
<1> HIDE DEF Starts
<1> QED
  BY SMT DEF FilType, FilFields, Fields

LEMMA SetOpen ==
  ASSUME NEW wr \in BOOLEAN, NEW wn \in BOOLEAN, NEW sc \in Starts, NEW size \in Nat
  PROVE  /\ Fields([Closed EXCEPT !.open = TRUE, !.write = wr, !.written = wn, !.sclust = sc, !.fsize = size],
                   TRUE, wr, wn, FALSE, sc, 0, size, 0)
         /\ Fields(Closed, FALSE, FALSE, FALSE, FALSE, 0, 0, 0, 0)
<1>0. 0 \in Starts /\ 0 \in Nat
  BY DEF Starts
<1>1. PICK h : h = Closed
  OBVIOUS
<1>2. /\ DOMAIN h = FilFields /\ h.open = FALSE /\ h.write = FALSE /\ h.written = FALSE
      /\ h.dirty = FALSE /\ h.sclust = 0 /\ h.clust = 0 /\ h.fsize = 0 /\ h.fptr = 0
  BY <1>1 DEF FilFields, Closed
<1> HIDE DEF Starts, Closed
<1>3. FilType(h)
  BY <1>0, <1>2, Zenon DEF FilType
<1>4. Fields(h, FALSE, FALSE, FALSE, FALSE, 0, 0, 0, 0)
  BY <1>2, <1>3, Zenon DEF Fields
<1>5. PICK k : k = [h EXCEPT !.open = TRUE, !.write = wr, !.written = wn, !.sclust = sc, !.fsize = size]
  OBVIOUS
<1>6. /\ DOMAIN k = FilFields /\ k.open = TRUE /\ k.write = wr /\ k.written = wn
      /\ k.sclust = sc /\ k.clust = h.clust /\ k.fsize = size /\ k.fptr = h.fptr
  BY <1>2, <1>5, SMT DEF FilFields
<1>7. k.dirty = h.dirty
  BY <1>2, <1>5, SMT DEF FilFields
<1>8. FilType(k)
  BY <1>0, <1>2, <1>6, <1>7, Zenon DEF FilType
<1>9. Fields(k, TRUE, wr, wn, FALSE, sc, 0, size, 0)
  BY <1>2, <1>6, <1>7, <1>8, Zenon DEF Fields
<1> QED
  BY <1>1, <1>4, <1>5, <1>9

LEMMA SetCur ==
  ASSUME NEW c, CurType(c), NEW lft \in Nat, NEW clust \in Starts \cup {LastLink}, NEW new \in Starts, NEW ou
  PROVE  /\ Locals([c EXCEPT !.clust = clust], c.call, c.left, clust, c.new)
         /\ Locals([c EXCEPT !.new = new], c.call, c.left, c.clust, new)
         /\ Locals([c EXCEPT !.clust = clust, !.new = new], c.call, c.left, clust, new)
         /\ Locals([c EXCEPT !.left = lft], c.call, lft, c.clust, c.new)
         /\ Locals([c EXCEPT !.left = lft, !.clust = clust], c.call, lft, clust, c.new)
         /\ Locals([c EXCEPT !.left = lft, !.out = ou], c.call, lft, c.clust, c.new)
         /\ Locals(c, c.call, c.left, c.clust, c.new)
<1> HIDE DEF Starts, LastLink
<1> QED
  BY SMT DEF CurType, Locals

LEMMA NoLocalsFacts ==
  /\ Locals(NoLocals, NoLocals.call, 0, 0, 0)
  /\ \A c : \A lft \in Nat : Locals([NoLocals EXCEPT !.call = c, !.left = lft], c, lft, 0, 0)
<1>1. 0 \in Starts /\ 0 \in Nat
  BY DEF Starts
<1>2. /\ DOMAIN NoLocals = {"call", "left", "clust", "new", "out"}
      /\ NoLocals.left = 0 /\ NoLocals.clust = 0 /\ NoLocals.new = 0
  BY DEF NoLocals
<1> HIDE DEF NoLocals, Starts
<1>3. Locals(NoLocals, NoLocals.call, 0, 0, 0)
  BY <1>1, <1>2 DEF Locals, CurType
<1>4. ASSUME NEW c, NEW lft \in Nat PROVE Locals([NoLocals EXCEPT !.call = c, !.left = lft], c, lft, 0, 0)
  BY <1>1, <1>2, SMT DEF Locals, CurType
<1> QED
  BY <1>3, <1>4

-----------------------------------------------------------------------------
(* Steps.                                                                  *)

(* What a step leaves alone, and what remains to be shown of it.           *)

Same(f) == DOMAIN fil' = Names /\ \A g \in Names : g # f => fil'[g] = fil[g] /\ dir'[g] = dir[g]

Lead(f) == IF fil[f].open THEN fil[f].sclust ELSE dir[f].first

LEMMA HeadsFacts ==
  /\ DOMAIN Heads = Owners /\ Heads[Nobody] = Orphan /\ \A f \in Names : Heads[f] = Lead(f)
  /\ Names \subseteq Owners /\ Nobody \in Owners /\ \A f \in Names : f # Nobody
BY FatConstants DEF Heads, Owners, FirstOf, Lead

LEMMA HeadsNext ==
  /\ DOMAIN Heads' = Owners /\ Heads'[Nobody] = Orphan' /\ \A f \in Names : Heads'[f] = Lead(f)'
BY FatConstants DEF Heads, Owners, FirstOf, Lead

LEMMA OthersKept ==
  ASSUME NEW f \in Names, Same(f), ~ Idle => cur.call.f = f, ~ Idle' => cur'.call.f = f,
         NEW g \in Names, g # f, NEW s, FileInv(g, s)
  PROVE  FileInv(g, s)'
<1>1. fil'[g] = fil[g] /\ dir'[g] = dir[g]
  BY DEF Same
<1>2. ~ Busy(g) /\ ~ Busy(g)'
  BY DEF Busy
<1>3. UnusedInv(g)' /\ DirtyInv(g)'
  BY <1>1, <1>2 DEF FileInv, UnusedInv, DirtyInv
<1>4. RoomInv(g, s)'
  BY <1>1, <1>2 DEF FileInv, RoomInv
<1>5. PlaceInv(g, s)'
  BY <1>1, <1>2 DEF FileInv, PlaceInv, PosInv, Behind
<1>6. EntryInv(g)'
  BY <1>1, <1>2 DEF FileInv, EntryInv
<1> QED
  BY <1>3, <1>4, <1>5, <1>6 DEF FileInv

LEMMA FileFacts ==
  ASSUME NEW ch \in Families, FatInvOf(ch), NEW f \in Names
  PROVE  /\ IsChain(fat, Lead(f), ch[f]) /\ Len(ch[f]) \in Nat /\ ch[f] \in Seq(Clusters)
         /\ \A i \in 1 .. Len(ch[f]) : ch[f][i] \in Clusters /\ ch[f][i] # Root /\ fat[ch[f][i]] # 0
         /\ Lead(f) = 0 <=> ch[f] = <<>>
         /\ ch[f] = <<>> <=> Len(ch[f]) = 0
         /\ ch[f] # <<>> => /\ 1 \in 1 .. Len(ch[f]) /\ Len(ch[f]) \in 1 .. Len(ch[f])
                            /\ Lead(f) = ch[f][1] /\ Lead(f) \in Clusters
<1>1. Chains(fat, Heads, ch) /\ DOMAIN Heads = Owners /\ f \in Owners
  BY HeadsFacts DEF FatInvOf
<1>2. Heads[f] = Lead(f)
  BY HeadsFacts
<1>3. /\ IsChain(fat, Heads[f], ch[f]) /\ Len(ch[f]) \in Nat /\ ch[f] \in Seq(Clusters)
      /\ \A i \in 1 .. Len(ch[f]) : ch[f][i] \in Clusters /\ ch[f][i] # Root /\ fat[ch[f][i]] # 0
      /\ Heads[f] = 0 <=> ch[f] = <<>>
      /\ ch[f] = <<>> <=> Len(ch[f]) = 0
      /\ ch[f] # <<>> => /\ 1 \in 1 .. Len(ch[f]) /\ Len(ch[f]) \in 1 .. Len(ch[f])
                         /\ Heads[f] = ch[f][1] /\ Heads[f] \in Clusters
  BY <1>1, FamilyFacts
<1> QED
  BY <1>2, <1>3

(* The image that the window holds would be a sound disk.                  *)
LEMMA ImageOnDisk ==
  ASSUME TypesW, TypesF, NEW ch \in Families, FatInvOf(ch)
  PROVE  \E cd \in [Names -> Seq(Clusters)] :
           /\ Chains(fat, HeadsOf(dir), cd)
           /\ \A f \in Names : dir[f].size <= Len(cd[f]) * ClusterUnits
<1> DEFINE cd == [f \in Names |-> IF dir[f].first = 0 THEN <<>> ELSE ch[f]]
<1>1. Chains(fat, Heads, ch) /\ \A f \in Names : FileInv(f, ch[f])
  BY DEF FatInvOf
<1>2. <<>> \in Seq(Clusters) /\ Len(<<>>) = 0
  BY EmptySeq
<1>3. ASSUME NEW f \in Names
      PROVE  /\ cd[f] \in Seq(Clusters) /\ IsChain(fat, dir[f].first, cd[f])
             /\ \A i \in 1 .. Len(cd[f]) : cd[f][i] # Root
             /\ dir[f].size <= Len(cd[f]) * ClusterUnits
             /\ cd[f] = <<>> \/ cd[f] = ch[f]
  <2>1. /\ IsChain(fat, Lead(f), ch[f]) /\ Len(ch[f]) \in Nat /\ ch[f] \in Seq(Clusters)
        /\ \A i \in 1 .. Len(ch[f]) : ch[f][i] # Root
        /\ Lead(f) = 0 <=> ch[f] = <<>>
        /\ ch[f] = <<>> <=> Len(ch[f]) = 0
    BY FileFacts
  <2>2. dir[f].size \in Nat /\ dir[f].size <= Len(ch[f]) * ClusterUnits
    BY <1>1 DEF FileInv, RoomInv, TypesW, DirEntries
  <2>3. fil[f].open /\ dir[f].first # fil[f].sclust => dir[f].first = 0 /\ dir[f].size = 0
    BY <1>1 DEF FileInv, EntryInv
  <2>4. CASE dir[f].first = 0
    <3>1. cd[f] = <<>>
      BY <2>4
    <3>2. Len(cd[f]) * ClusterUnits = 0
      BY <1>2, <3>1, FatConstants, SMT
    <3>3. dir[f].size <= 0
      <4>1. CASE fil[f].open /\ fil[f].sclust # 0
        BY <2>3, <2>4, <4>1
      <4>2. CASE ~ (fil[f].open /\ fil[f].sclust # 0)
        <5>1. Len(ch[f]) = 0
          BY <2>1, <2>4, <4>2 DEF Lead
        <5> QED
          BY <2>2, <5>1, FatConstants, SMT
      <4> QED
        BY <4>1, <4>2
    <3>4. \A i \in 1 .. 0 : FALSE
      BY SMT
    <3> HIDE DEF cd
    <3> QED
      BY <1>2, <3>1, <3>2, <3>3, <3>4, <2>4, ChainNone
  <2>5. CASE dir[f].first # 0
    <3>1. cd[f] = ch[f]
      BY <2>5
    <3>2. Lead(f) = dir[f].first
      BY <2>3, <2>5 DEF Lead
    <3> HIDE DEF cd
    <3> QED
      BY <2>1, <2>2, <3>1, <3>2
  <2> QED
    BY <2>4, <2>5
<1>4. ASSUME NEW f \in Names, NEW g \in Names, f # g PROVE Apart(cd[f], cd[g])
  <2>1. Apart(ch[f], ch[g])
    BY <1>1, <1>4, HeadsFacts DEF Chains
  <2>2. \A i \in 1 .. 0 : FALSE
    BY SMT
  <2>3. (cd[f] = <<>> \/ cd[f] = ch[f]) /\ (cd[g] = <<>> \/ cd[g] = ch[g])
    BY <1>3
  <2> HIDE DEF cd
  <2> QED
    BY <1>2, <2>1, <2>2, <2>3, Zenon DEF Apart
<1>5. cd \in [Names -> Seq(Clusters)]
  BY <1>3
<1>6. DOMAIN HeadsOf(dir) = Names /\ \A f \in Names : HeadsOf(dir)[f] = dir[f].first
  BY DEF HeadsOf
<1> HIDE DEF cd
<1>7. Chains(fat, HeadsOf(dir), cd)
  BY <1>3, <1>4, <1>6 DEF Chains
<1> QED
  BY <1>3, <1>5, <1>7

LEMMA DiskKept ==
  ASSUME TypesW, TypesF, DiskInv, NEW ch \in Families, FatInvOf(ch), DiskStep
  PROVE  DiskInv'
<1>1. CASE disk'.fat = disk.fat /\ disk'.dir = disk.dir
  BY <1>1 DEF DiskInv
<1>2. CASE disk'.fat = fat /\ disk'.dir = dir
  BY <1>2, ImageOnDisk DEF DiskInv
<1> QED
  BY <1>1, <1>2 DEF DiskStep

(* The free clusters.                                                      *)
LEMMA FreeFacts ==
  ASSUME TypesW, fat[Root] # 0
  PROVE  /\ IsFiniteSet(Free) /\ Cardinality(Free) \in Nat /\ Cardinality(Free) <= LastCluster - 2
         /\ Loose \in {0, 1} /\ Cardinality(Free) + Loose <= LastCluster - 1
<1>1. IsFiniteSet(Clusters) /\ Cardinality(Clusters) = LastCluster - 1 /\ Root \in Clusters
  BY ClustersFinite, FatConstants
<1>2. Free \subseteq Clusters \ {Root}
  BY DEF Free
<1>3. IsFiniteSet(Clusters \ {Root}) /\ Cardinality(Clusters \ {Root}) = LastCluster - 1 - 1
  BY <1>1, FS_RemoveElement, FatConstants, SMT
<1>4. IsFiniteSet(Free) /\ Cardinality(Free) <= Cardinality(Clusters \ {Root})
  BY <1>2, <1>3, FS_Subset
<1>5. Cardinality(Free) \in Nat
  BY <1>4, FS_CardinalityType
<1> QED
  BY <1>3, <1>4, <1>5, FatConstants, SMT DEF Loose

(* What is left to show of a step in the call of file f, or that starts it.*)
LEMMA Conclude ==
  ASSUME FatInv, NEW ch \in Families, FatInvOf(ch),
         NEW f \in Names, Same(f), ~ Idle => cur.call.f = f, ~ Idle' => cur'.call.f = f,
         FilType(fil'[f]), CurType(cur'), step' \in Steppings, TypesN',
         WInv', DiskStep, TypesC', CountInv', CallInv',
         NEW c2 \in Families, \A g \in Names : g # f => c2[g] = ch[g],
         Chains(fat', Heads', c2), FileInv(f, c2[f])', ~ Idle' => ProgressInv(c2[f])', AccountInv(c2)'
  PROVE  FatInv'
<1>1. TypesF'
  BY DEF Same, TypesF, FatInv, Types
<1>2. Types'
  BY <1>1 DEF Types, WInv
<1>3. DiskInv'
  BY DiskKept DEF FatInv, Types
<1>4. ASSUME NEW g \in Names PROVE FileInv(g, c2[g])'
  <2>1. CASE g = f
    BY <2>1
  <2>2. CASE g # f
    <3>1. c2[g] = ch[g] /\ FileInv(g, ch[g])
      BY <2>2 DEF FatInvOf
    <3>2. FileInv(g, ch[g])'
      BY <2>2, <3>1, OthersKept
    <3> QED
      BY <3>1, <3>2
  <2> QED
    BY <2>1, <2>2
<1>5. FatInvOf(c2)'
  BY <1>4 DEF FatInvOf
<1> QED
  BY <1>2, <1>3, <1>5 DEF FatInv, Families

(* A step that changes no chain.                                           *)
LEMMA ChainsSame ==
  ASSUME FatInv, NEW ch \in Families, FatInvOf(ch),
         NEW f \in Names, Same(f), Lead(f)' = Lead(f), Orphan' = Orphan, fat' = fat,
         Loose' = Loose, freeClust' = freeClust, restarts' = restarts
  PROVE  /\ Chains(fat', Heads', ch) /\ AccountInv(ch)'
         /\ disk'.free \in {disk.free, freeClust} => CountInv'
<1>1. Heads' = Heads
  <2>1. \A g \in Names : Lead(g)' = Lead(g)
    BY DEF Same, Lead
  <2> QED
    BY <2>1 DEF Heads, FirstOf, Lead, Owners
<1>2. Chains(fat', Heads', ch)
  BY <1>1 DEF FatInvOf
<1>3. Free' = Free
  BY DEF Free
<1>4. AccountInv(ch)'
  BY <1>3 DEF AccountInv, FatInvOf, Owned
<1>5. ASSUME disk'.free \in {disk.free, freeClust} PROVE CountInv'
  <2>1. Cardinality(Free) + Loose <= LastCluster - 1 /\ Cardinality(Free) \in Nat /\ Loose \in {0, 1}
    BY FreeFacts DEF FatInv, WInv
  <2>2. restarts \in Nat /\ LastCluster \in Nat /\ freeClust \in Int
    BY FatConstants, FatAssumption DEF FatInv, Types, TypesN, TypesC
  <2> DEFINE r == restarts * (LastCluster - 1)
  <2>3. r \in Int /\ (restarts + 1) * (LastCluster - 1) = r + (LastCluster - 1)
    BY <2>2, SMT
  <2>4. /\ freeClust >= Unknown /\ freeClust <= Cardinality(Free) + Loose + r
        /\ disk.free >= Unknown /\ disk.free <= (restarts + 1) * (LastCluster - 1)
    BY DEF FatInv, CountInv
  <2>5. freeClust <= (restarts + 1) * (LastCluster - 1)
    <3> HIDE DEF r
    <3> QED
      BY <2>1, <2>2, <2>3, <2>4, SMT
  <2> QED
    BY <1>3, <1>5, <2>4, <2>5 DEF CountInv
<1> QED
  BY <1>2, <1>4, <1>5

(* A step that changes no chain, and what it shows of its file.            *)
LEMMA KeepChains ==
  ASSUME FatInv, NEW ch \in Families, FatInvOf(ch),
         NEW f \in Names, Same(f), ~ Idle => cur.call.f = f, ~ Idle' => cur'.call.f = f,
         FilType(fil'[f]), CurType(cur'), step' \in Steppings,
         restarts' = restarts, fatCalls' \in 0 .. MaxFatCalls,
         WInv', DiskStep, disk'.free \in {disk.free, freeClust},
         freeClust' = freeClust, fsiFlag' \in BOOLEAN, lastClust' \in 1 .. LastCluster,
         fat' = fat, Lead(f)' = Lead(f), Orphan' = Orphan, Loose' = Loose,
         CallInv', FileInv(f, ch[f])', ~ Idle' => ProgressInv(ch[f])'
  PROVE  FatInv'
<1>1. Chains(fat', Heads', ch) /\ AccountInv(ch)' /\ CountInv'
  BY ChainsSame
<1>2. TypesC' /\ TypesN'
  BY DEF TypesC, TypesN, FatInv, Types
<1> QED
  BY <1>1, <1>2, Conclude

(* A step of a call that leaves the entry alone.                           *)
LEMMA FileStep ==
  ASSUME TypesW, NEW f \in Names, NEW s, Len(s) \in Nat, NEW s2, Len(s2) \in Nat, Len(s) <= Len(s2),
         FileInv(f, s), ~ Idle, ~ Idle', cur.call.f = f, cur'.call = cur.call,
         FilType(fil[f]), FilType(fil'[f]), fil[f].open, dir'[f] = dir[f],
         fil'[f].open = fil[f].open, fil'[f].written = fil[f].written, fil'[f].fsize = fil[f].fsize,
         \/ fil'[f].sclust = fil[f].sclust
         \/ fil[f].sclust = 0 /\ Len(s) = 0 /\ cur.call.op \in {"write", "seek"} /\ step' \notin {"fill", "seek"},
         fil'[f].dirty => fil[f].dirty \/ cur.call.op = "write",
         PosInv(f, s2)',
         cur.call.op \notin {"write", "seek"} => fil'[f].fptr <= fil[f].fsize,
         step' = "seek" => step = "seek",
         step' = "fill" => fil'[f].fptr > 0 \/ fil[f].written \/ dir[f].first = fil[f].sclust
  PROVE  FileInv(f, s2)'
<1>1. Busy(f) /\ Busy(f)' /\ cur'.call.op = cur.call.op
  BY DEF Busy
<1>2. UnusedInv(f)' /\ DirtyInv(f)'
  BY <1>1 DEF FileInv, UnusedInv, DirtyInv
<1>3. dir[f].size \in Nat /\ dir[f].first \in Starts /\ fil[f].fsize \in Nat
  BY DEF TypesW, DirEntries, FilType, Starts
<1>4. Len(s) * ClusterUnits <= Len(s2) * ClusterUnits /\ Len(s) * ClusterUnits \in Nat /\ Len(s2) * ClusterUnits \in Nat
  BY FatConstants, Times
<1>5. dir[f].size <= Len(s) * ClusterUnits /\ fil[f].fsize <= Len(s) * ClusterUnits
  BY DEF FileInv, RoomInv
<1>6. RoomInv(f, s2)'
  BY <1>3, <1>4, <1>5 DEF RoomInv
<1>7. PlaceInv(f, s2)'
  BY <1>1 DEF PlaceInv, FileInv
<1>8. EntryInv(f)'
  <2>1. CASE fil'[f].sclust = fil[f].sclust
    BY <1>1, <2>1 DEF FileInv, EntryInv
  <2>2. CASE fil'[f].sclust # fil[f].sclust
    <3>1. fil[f].sclust = 0 /\ Len(s) = 0 /\ cur.call.op \in {"write", "seek"} /\ step' \notin {"fill", "seek"}
      BY <2>2
    <3>2. dir[f].size = 0
      <4>1. Len(s) * ClusterUnits = 0
        BY <3>1, FatConstants, SMT
      <4> QED
        BY <1>3, <1>5, <4>1
    <3>3. dir[f].first = 0
      BY <3>1 DEF FileInv, EntryInv
    <3>4. ~ fil[f].written => dir[f].size = fil[f].fsize
      BY DEF FileInv, EntryInv
    <3> QED
      BY <1>1, <3>1, <3>2, <3>3, <3>4 DEF EntryInv
  <2> QED
    BY <2>1, <2>2
<1> QED
  BY <1>2, <1>6, <1>7, <1>8 DEF FileInv

LEMMA FileSame ==
  ASSUME TypesW, NEW f \in Names, NEW s, Len(s) \in Nat,
         FileInv(f, s), ~ Idle, ~ Idle', cur.call.f = f, cur'.call = cur.call,
         FilType(fil[f]), FilType(fil'[f]), fil[f].open, dir'[f] = dir[f],
         fil'[f].open = fil[f].open, fil'[f].written = fil[f].written, fil'[f].fsize = fil[f].fsize,
         fil'[f].sclust = fil[f].sclust,
         fil'[f].dirty => fil[f].dirty \/ cur.call.op = "write",
         PosInv(f, s)',
         cur.call.op \notin {"write", "seek"} => fil'[f].fptr <= fil[f].fsize,
         step' # "seek", step' # "fill"
  PROVE  FileInv(f, s)'
<1>1. Len(s) <= Len(s)
  OBVIOUS
<1> QED
  BY <1>1, FileStep

(* A call starts.                                                          *)
LEMMA StartKeeps ==
  ASSUME FatInv, NEW f \in Names, NEW c, c.f = f, NEW l \in Nat, NEW s \in {"open", "unlink", "write", "read", "seek", "sync"},
         Start(c, l, s), fatCalls' \in 0 .. MaxFatCalls,
         s = "open" => c.op \in OpenOps /\ ~ fil[f].open,
         s = "unlink" => c.op = "unlink" /\ ~ fil[f].open,
         s = "sync" => c.op \in {"sync", "close"} /\ fil[f].open,
         s = "write" => c.op = "write" /\ fil[f].open /\ fil[f].write,
         s = "read" => c.op = "read" /\ fil[f].open /\ fil[f].fptr + l <= fil[f].fsize,
         s = "seek" => c.op = "seek" /\ fil[f].open /\ (~ fil[f].write => l <= fil[f].fsize)
  PROVE  FatInv'
<1>1. PICK ch \in Families : FatInvOf(ch)
  BY DEF FatInv, Families
<1>2. /\ Idle /\ step' = s /\ cur' = [NoLocals EXCEPT !.call = c, !.left = l]
      /\ UNCHANGED <<disk, fat, dir, winsect, wflag, freeClust, lastClust, fsiFlag, fil, restarts>>
  BY DEF Start, Go, windowVars, fsiVars
<1>3. Locals(cur', c, l, 0, 0)
  BY <1>2, NoLocalsFacts
<1>4. CurType(cur') /\ cur'.call = c /\ cur'.left = l /\ cur'.clust = 0 /\ cur'.new = 0
  BY <1>3 DEF Locals
<1>5. step' \in Steppings /\ step' \notin {"rest", "fsinfo", "link", "got", "remove", "replace", "chain"} /\ step = "rest"
  BY <1>2 DEF Steppings, Idle
<1>6. ~ Idle' /\ cur'.call.f = f
  BY <1>4, <1>5 DEF Idle
<1>7. WInv' /\ DiskStep
  BY <1>2, <1>5, WindowSame DEF FatInv, windowVars
<1>8. Same(f) /\ FilType(fil'[f]) /\ FilType(fil[f]) /\ Lead(f)' = Lead(f)
  BY <1>2 DEF Same, FatInv, Types, TypesF, Lead
<1>9. Orphan' = Orphan /\ Loose' = Loose
  BY <1>5 DEF Orphan, Loose
<1>10. CallInv'
  BY <1>2, <1>4, <1>6 DEF CallInv, File, Opening, WriteSteps, ReadSteps, SeekSteps, Chaining
<1>11. FileInv(f, ch[f])
  BY <1>1 DEF FatInvOf
<1>12. FileInv(f, ch[f])'
  <2>1. ~ Busy(f)
    BY <1>2 DEF Busy
  <2>2. UnusedInv(f)' /\ DirtyInv(f)'
    BY <1>2, <1>11, <2>1 DEF FileInv, UnusedInv, DirtyInv
  <2>3. RoomInv(f, ch[f])'
    BY <1>2, <1>11 DEF FileInv, RoomInv
  <2>4. PlaceInv(f, ch[f])'
    BY <1>2, <1>11, <2>1 DEF FileInv, PlaceInv, PosInv, Behind, Chaining
  <2>5. EntryInv(f)'
    BY <1>2, <1>11, <2>1 DEF FileInv, EntryInv
  <2> QED
    BY <2>2, <2>3, <2>4, <2>5 DEF FileInv
<1>13. ProgressInv(ch[f])'
  <2>1. fil[f].open => fil[f].fptr <= fil[f].fsize
    BY <1>2, <1>11 DEF FileInv, PlaceInv, Busy
  <2>2. s = "seek" => fil[f].fptr <= fil[f].fsize
    BY <2>1
  <2>3. File' = fil[f] /\ l \in Nat
    BY <1>2, <1>4 DEF File
  <2>4. step' \in {"open", "unlink", "write", "read", "seek", "sync"}
    BY <1>2
  <2>5. LeftInv' /\ SectorInv' /\ ChainInv(ch[f])' /\ LinkInv(ch[f])' /\ GotInv(ch[f])'
    BY <2>4 DEF LeftInv, SectorInv, ChainInv, LinkInv, GotInv, Chaining
  <2>6. ReadInv' /\ SeekInv'
    BY <1>2, <1>4, <2>2, <2>3, <2>4 DEF ReadInv, SeekInv, ReadSteps
  <2> QED
    BY <2>5, <2>6 DEF ProgressInv
<1>14. /\ fsiFlag' \in BOOLEAN /\ lastClust' \in 1 .. LastCluster /\ disk'.free \in {disk.free, freeClust}
  BY <1>2 DEF FatInv, Types, TypesC
<1> QED
  BY <1>1, <1>2, <1>4, <1>5, <1>6, <1>7, <1>8, <1>9, <1>10, <1>12, <1>13, <1>14, KeepChains

LEMMA CallsKeep ==
  ASSUME FatInv, Calls
  PROVE  FatInv'
<1>0. fatCalls \in 0 .. MaxFatCalls /\ TypesF /\ MaxFatCalls \in Nat /\ (Counted => fatCalls' \in 0 .. MaxFatCalls)
  BY FatAssumption DEF FatInv, Types, TypesN, Counted
<1>1. ASSUME NEW f \in Names, NEW op \in {"create", "openAlways", "openExisting"}, CallOpen(f, op) PROVE FatInv'
  <2>1. /\ Start([op |-> op, f |-> f], 0, "open") /\ ~ fil[f].open /\ fatCalls' \in 0 .. MaxFatCalls
    BY <1>0, <1>1 DEF CallOpen
  <2> QED
    BY <2>1, StartKeeps DEF OpenOps
<1>2. ASSUME NEW f \in Names, NEW op \in {"sync", "close"}, CallSync(f, op) PROVE FatInv'
  <2>1. /\ Start([op |-> op, f |-> f], 0, "sync") /\ fil[f].open /\ fatCalls' \in 0 .. MaxFatCalls
    BY <1>0, <1>2 DEF CallSync
  <2> QED
    BY <2>1, StartKeeps
<1>3. ASSUME NEW f \in Names, CallUnlink(f) PROVE FatInv'
  <2>1. /\ Start([op |-> "unlink", f |-> f], 0, "unlink") /\ ~ fil[f].open /\ fatCalls' \in 0 .. MaxFatCalls
    BY <1>0, <1>3 DEF CallUnlink
  <2> QED
    BY <2>1, StartKeeps
<1>4. ASSUME NEW f \in Names, NEW n \in Sizes[f], CallWrite(f, n) PROVE FatInv'
  <2>1. /\ Start([op |-> "write", f |-> f, n |-> n, v |-> fatCalls'], n, "write")
        /\ fil[f].open /\ fil[f].write /\ fatCalls' \in 0 .. MaxFatCalls
    BY <1>0, <1>4 DEF CallWrite
  <2>2. n \in Nat
    BY <1>4, FatAssumption
  <2>3. PICK v : v = fatCalls'
    OBVIOUS
  <2>4. PICK c : c = [op |-> "write", f |-> f, n |-> n, v |-> v]
    OBVIOUS
  <2>5. c.op = "write" /\ c.f = f /\ Start(c, n, "write")
    BY <2>1, <2>3, <2>4
  <2> QED
    BY <2>1, <2>2, <2>5, StartKeeps
<1>5. ASSUME NEW f \in Names, NEW n \in ReadSizes, CallRead(f, n) PROVE FatInv'
  <2>1. /\ Start([op |-> "read", f |-> f, n |-> n], Lesser(n, fil[f].fsize - fil[f].fptr), "read")
        /\ fil[f].open /\ fatCalls' \in 0 .. MaxFatCalls
    BY <1>0, <1>5 DEF CallRead
  <2>2. fil[f].fptr <= fil[f].fsize
    <3>1. PICK ch \in Families : FatInvOf(ch)
      BY DEF FatInv, Families
    <3>2. Idle
      BY <2>1 DEF Start
    <3> QED
      BY <2>1, <3>1, <3>2 DEF FatInvOf, FileInv, PlaceInv, Busy
  <2>3. n \in Nat /\ fil[f].fptr \in Nat /\ fil[f].fsize \in Nat
    BY <1>0, FatAssumption DEF TypesF, FilType
  <2>4. PICK l : l = Lesser(n, fil[f].fsize - fil[f].fptr)
    OBVIOUS
  <2>5. l \in Nat /\ fil[f].fptr + l <= fil[f].fsize
    BY <2>2, <2>3, <2>4, SMT DEF Lesser
  <2>6. PICK c : c = [op |-> "read", f |-> f, n |-> n]
    OBVIOUS
  <2>7. c.op = "read" /\ c.f = f /\ Start(c, l, "read")
    BY <2>1, <2>4, <2>6
  <2> QED
    BY <2>1, <2>5, <2>7, StartKeeps
<1>6. ASSUME NEW f \in Names, NEW ofs \in Offsets[f], CallSeek(f, ofs) PROVE FatInv'
  <2>1. /\ Start([op |-> "seek", f |-> f, n |-> ofs], IF fil[f].write THEN ofs ELSE Lesser(ofs, fil[f].fsize), "seek")
        /\ fil[f].open /\ fatCalls' \in 0 .. MaxFatCalls
    BY <1>0, <1>6 DEF CallSeek
  <2>3. ofs \in Nat /\ fil[f].fsize \in Nat
    BY <1>0, <1>6, FatAssumption DEF TypesF, FilType
  <2>4. PICK l : l = IF fil[f].write THEN ofs ELSE Lesser(ofs, fil[f].fsize)
    OBVIOUS
  <2>5. l \in Nat /\ (~ fil[f].write => l <= fil[f].fsize)
    BY <2>3, <2>4, SMT DEF Lesser
  <2>6. PICK c : c = [op |-> "seek", f |-> f, n |-> ofs]
    OBVIOUS
  <2>7. c.op = "seek" /\ c.f = f /\ Start(c, l, "seek")
    BY <2>1, <2>4, <2>6
  <2> QED
    BY <2>1, <2>5, <2>7, StartKeeps
<1> QED
  BY <1>1, <1>2, <1>3, <1>4, <1>5, <1>6 DEF Calls

-----------------------------------------------------------------------------
(* The steps of a call.                                                    *)

(* What holds of the call in progress, of file f, when a step is taken.    *)
Now(f, ch) ==
  /\ ~ Idle /\ cur.call.f = f /\ File = fil[f] /\ FilType(fil[f]) /\ CurType(cur)
  /\ FatInvOf(ch) /\ FileInv(f, ch[f]) /\ ProgressInv(ch[f])
  /\ IsChain(fat, Lead(f), ch[f]) /\ Len(ch[f]) \in Nat
  /\ \A i \in 1 .. Len(ch[f]) : ch[f][i] \in Clusters
  /\ Lead(f) = 0 <=> ch[f] = <<>>
  /\ ch[f] = <<>> <=> Len(ch[f]) = 0
  /\ ch[f] # <<>> => Lead(f) = ch[f][1]

LEMMA InCall ==
  ASSUME FatInv, ~ Idle
  PROVE  \E f \in Names : \E ch \in Families : Now(f, ch)
<1>1. PICK ch \in Families : FatInvOf(ch)
  BY DEF FatInv, Families
<1>2. PICK f : f = cur.call.f
  OBVIOUS
<1>3. f \in Names
  BY <1>2 DEF FatInv, CallInv
<1>4. File = fil[f] /\ FilType(fil[f]) /\ CurType(cur)
  BY <1>2, <1>3 DEF File, FatInv, Types, TypesF
<1>5. FileInv(f, ch[f]) /\ ProgressInv(ch[f])
  BY <1>1, <1>2, <1>3 DEF FatInvOf
<1>6. /\ IsChain(fat, Lead(f), ch[f]) /\ Len(ch[f]) \in Nat
      /\ \A i \in 1 .. Len(ch[f]) : ch[f][i] \in Clusters
      /\ Lead(f) = 0 <=> ch[f] = <<>>
      /\ ch[f] = <<>> <=> Len(ch[f]) = 0
      /\ ch[f] # <<>> => Lead(f) = ch[f][1]
  BY <1>1, <1>3, FileFacts
<1> QED
  BY <1>1, <1>2, <1>3, <1>4, <1>5, <1>6 DEF Now

(* The window moves at most; FAT and directory stay.                       *)
Quiet == WInv' /\ DiskStep /\ disk'.free = disk.free /\ fat' = fat /\ dir' = dir

LEMMA QuietSame ==
  ASSUME FatInv, UNCHANGED windowVars, step' # "fsinfo"
  PROVE  Quiet
BY WindowSame DEF FatInv, Quiet

LEMMA QuietRead ==
  ASSUME FatInv, NEW v, NEW s \in Sectors, ReadOver(v, s), s \in v, step' # "fsinfo"
  PROVE  Quiet
BY WindowRead DEF FatInv, Quiet

LEMMA QuietGet ==
  ASSUME FatInv, NEW c \in Clusters, get_fat(c), step' # "fsinfo"
  PROVE  Quiet
<1>1. ReadOver({FatSector(c)}, FatSector(c)) /\ FatSector(c) \in Sectors
  BY SectorFacts DEF get_fat
<1> QED
  BY <1>1, QuietRead

LEMMA SetFileFacts ==
  ASSUME FatInv, NEW f \in Names, cur.call.f = f, NEW h, SetFile(h)
  PROVE  DOMAIN fil' = Names /\ fil'[f] = h /\ \A g \in Names : g # f => fil'[g] = fil[g]
BY DEF SetFile, FatInv, Types, TypesF

(* A step that neither changes nor begins or ends a chain.                 *)
LEMMA CallStep ==
  ASSUME FatInv, NEW f \in Names, NEW ch \in Families, Now(f, ch), Quiet,
         UNCHANGED fsiVars, restarts' = restarts, fatCalls' = fatCalls,
         DOMAIN fil' = Names, \A g \in Names : g # f => fil'[g] = fil[g],
         FilType(fil'[f]), fil'[f].open = fil[f].open, fil'[f].sclust = fil[f].sclust,
         CurType(cur'), step' \in Steppings, ~ Idle' => cur'.call = cur.call,
         Orphan' = Orphan, step # "link", step' # "link",
         CallInv', FileInv(f, ch[f])', ~ Idle' => ProgressInv(ch[f])'
  PROVE  FatInv'
<1>1. cur.call.f = f /\ FatInvOf(ch) /\ (~ Idle' => cur'.call.f = f)
  BY DEF Now
<1>2. /\ WInv' /\ DiskStep /\ disk'.free \in {disk.free, freeClust} /\ fat' = fat /\ dir' = dir
      /\ Same(f) /\ Lead(f)' = Lead(f) /\ Loose' = Loose
  BY DEF Quiet, Same, Lead, Loose
<1>3. /\ freeClust' = freeClust /\ fsiFlag' \in BOOLEAN /\ lastClust' \in 1 .. LastCluster
      /\ fatCalls' \in 0 .. MaxFatCalls
  BY DEF FatInv, Types, TypesC, TypesN, fsiVars
<1> QED
  BY <1>1, <1>2, <1>3, KeepChains

-----------------------------------------------------------------------------
(* Where a file's position is on its chain.                                *)

LEMMA Within ==
  ASSUME NEW h, FilType(h), NEW s, Len(s) \in Nat, h.fptr <= Len(s) * ClusterUnits, Behind(h, s), ~ AtEdge(h)
  PROVE  Ahead(h, s)
<1>1. h.fptr > 0 /\ (h.fptr \div ClusterUnits) + 1 <= Len(s) /\ ((h.fptr - 1) \div ClusterUnits) = (h.fptr \div ClusterUnits)
  BY Inside DEF FilType, AtEdge
<1> QED
  BY <1>1 DEF Behind, Ahead

LEMMA AtEnd ==
  ASSUME NEW h, FilType(h), NEW s, Len(s) \in Nat, h.fptr <= Len(s) * ClusterUnits, Behind(h, s), AtEdge(h), h.fptr > 0
  PROVE  /\ (h.fptr \div ClusterUnits) \in 1 .. Len(s) /\ h.clust = s[h.fptr \div ClusterUnits]
         /\ h.fptr = (h.fptr \div ClusterUnits) * ClusterUnits
<1>1. /\ (h.fptr \div ClusterUnits) \in 1 .. Len(s)
      /\ ((h.fptr - 1) \div ClusterUnits) + 1 = (h.fptr \div ClusterUnits)
      /\ h.fptr = (h.fptr \div ClusterUnits) * ClusterUnits
  BY Edge DEF FilType, AtEdge
<1> QED
  BY <1>1 DEF Behind

LEMMA Onward ==
  ASSUME NEW h, FilType(h), NEW s, Len(s) \in Nat, Ahead(h, s), NEW k \in Nat, k > 0,
         (h.fptr % ClusterUnits) + k <= ClusterUnits,
         NEW h2, h2.fptr = h.fptr + k, h2.clust = h.clust
  PROVE  h2.fptr \in Nat /\ h2.fptr <= Len(s) * ClusterUnits /\ Behind(h2, s)
<1>1. h.fptr \in Nat /\ (h.fptr \div ClusterUnits) + 1 <= Len(s)
  BY DEF Ahead, FilType
<1>2. h.fptr + k \in Nat /\ h.fptr + k <= Len(s) * ClusterUnits /\ ((h.fptr + k - 1) \div ClusterUnits) = (h.fptr \div ClusterUnits)
  BY <1>1, MoveOn
<1>3. ((h2.fptr - 1) \div ClusterUnits) = (h.fptr \div ClusterUnits)
  <2>1. h2.fptr - 1 = h.fptr + k - 1
    BY <1>1
  <2> QED
    BY <1>2, <2>1
<1>4. h2.clust = s[(h.fptr \div ClusterUnits) + 1]
  BY DEF Ahead
<1> QED
  BY <1>2, <1>3, <1>4, Zenon DEF Behind

LEMMA FirstOne ==
  ASSUME NEW h, h.fptr = 0, NEW s, Len(s) \in Nat, Len(s) # 0, h.clust = s[1]
  PROVE  Ahead(h, s) /\ AtEdge(h)
<1>1. (0 \div ClusterUnits) = 0 /\ (0 % ClusterUnits) = 0
  BY FatConstants, SMT
<1> QED
  BY <1>1 DEF Ahead, AtEdge

-----------------------------------------------------------------------------
(* f_write().                                                              *)

LEMMA WriteChunkKeeps ==
  ASSUME FatInv, NEW f \in Names, NEW ch \in Families, Now(f, ch), WriteChunk
  PROVE  FatInv'
<1> DEFINE s == ch[f]
<1>1. /\ step = "write" /\ cur.left > 0 /\ AtSector /\ UNCHANGED <<windowVars, fsiVars, historyVars>>
      /\ cur.call.f = f /\ File = fil[f] /\ FilType(fil[f]) /\ CurType(cur) /\ ~ Idle
  BY DEF WriteChunk, Now
<1>2. cur.call.op = "write" /\ fil[f].open /\ fil[f].write
  BY <1>1 DEF FatInv, CallInv, WriteSteps
<1>3. FileInv(f, s) /\ fil[f].fptr <= Len(s) * ClusterUnits /\ Behind(fil[f], s)
  BY <1>1, <1>2 DEF Now, FileInv, PlaceInv, PosInv, Chaining
<1>4. AtCluster <=> AtEdge(fil[f])
  BY <1>1, ChunkFacts DEF FilType, CurType
<1>5. Len(s) \in Nat /\ (s = <<>> <=> fil[f].sclust = 0) /\ (s = <<>> <=> Len(s) = 0) /\ (s # <<>> => fil[f].sclust = s[1])
      /\ \A i \in 1 .. Len(s) : s[i] \in Clusters
  BY <1>2 DEF Now, Lead
<1>6. CASE AtCluster /\ (File.fptr # 0 \/ File.sclust = 0)
  <2>1. /\ cur' = [cur EXCEPT !.clust = IF fil[f].fptr = 0 THEN 0 ELSE fil[f].clust]
        /\ step' = "chain" /\ fil' = fil
    BY <1>1, <1>6 DEF WriteChunk, Go
  <2>2. PICK c : c = IF fil[f].fptr = 0 THEN 0 ELSE fil[f].clust
    OBVIOUS
  <2>3. c \in Starts \cup {LastLink}
    BY <1>1, <2>2 DEF FilType, Starts
  <2>4. Locals(cur', cur.call, cur.left, c, cur.new)
    BY <1>1, <2>1, <2>2, <2>3, SetCur DEF CurType
  <2>5. CurType(cur') /\ cur'.call = cur.call /\ cur'.left = cur.left /\ cur'.clust = c /\ cur'.new = cur.new
    BY <2>4 DEF Locals
  <2>6. ~ Idle' /\ step' \in Steppings /\ File' = fil[f]
    BY <1>1, <2>1, <2>5 DEF Idle, Steppings, File
  <2>7. Quiet
    BY <1>1, <2>1, QuietSame
  <2>8. CallInv'
    BY <1>1, <1>2, <2>1, <2>5, <2>6 DEF CallInv, Opening, WriteSteps, ReadSteps, SeekSteps, Chaining
  <2>9. PosInv(f, s)'
    BY <1>1, <1>2, <1>3, <2>1, <2>5 DEF PosInv, Behind, Chaining
  <2>10. FileInv(f, s)'
    BY <1>1, <1>2, <1>3, <1>5, <2>1, <2>5, <2>6, <2>7, <2>9, FileStep DEF FatInv, WInv, Quiet
  <2>11. ChainInv(s)'
    <3>1. AtEdge(fil[f])
      BY <1>4, <1>6
    <3>2. CASE fil[f].fptr = 0
      BY <1>1, <1>2, <1>5, <1>6, <2>1, <2>2, <2>5, <2>6, <3>1, <3>2 DEF ChainInv, AtEdge
    <3>3. CASE fil[f].fptr # 0
      <4>1. (fil[f].fptr \div ClusterUnits) \in 1 .. Len(s) /\ fil[f].clust = s[fil[f].fptr \div ClusterUnits]
        BY <1>1, <1>3, <1>5, <3>1, <3>3, AtEnd DEF FilType
      <4>2. s # <<>> /\ c # 0 /\ c = s[fil[f].fptr \div ClusterUnits]
        BY <1>5, <2>2, <3>3, <4>1, FatConstants
      <4> QED
        BY <1>1, <1>2, <1>5, <2>1, <2>5, <2>6, <3>1, <3>3, <4>2 DEF ChainInv, AtEdge
    <3> QED
      BY <3>2, <3>3
  <2>12. ProgressInv(s)'
    BY <1>1, <2>1, <2>5, <2>11 DEF ProgressInv, LeftInv, ReadInv, SectorInv, SeekInv, LinkInv, GotInv, ReadSteps
  <2>13. Orphan' = Orphan
    BY <1>1, <2>1 DEF Orphan
  <2> QED
    BY <1>1, <2>1, <2>5, <2>6, <2>7, <2>8, <2>10, <2>12, <2>13, CallStep DEF historyVars, FatInv, Types, TypesF
<1>7. CASE ~ (AtCluster /\ (File.fptr # 0 \/ File.sclust = 0))
  <2>1. PICK c : c = IF AtCluster THEN fil[f].sclust ELSE fil[f].clust
    OBVIOUS
  <2>2. SetFile([fil[f] EXCEPT !.clust = c]) /\ step' = "store" /\ cur' = cur
    BY <1>1, <1>7, <2>1 DEF WriteChunk, Go
  <2>3. PICK h : h = [fil[f] EXCEPT !.clust = c]
    OBVIOUS
  <2>4. Fields(h, fil[f].open, fil[f].write, fil[f].written, fil[f].dirty, fil[f].sclust, c, fil[f].fsize, fil[f].fptr)
    BY <1>1, <2>1, <2>3, SetClust DEF FilType
  <2>5. DOMAIN fil' = Names /\ fil'[f] = h /\ \A g \in Names : g # f => fil'[g] = fil[g]
    BY <1>1, <2>2, <2>3, SetFileFacts
  <2>6. /\ FilType(h) /\ h.open = fil[f].open /\ h.write = fil[f].write /\ h.written = fil[f].written
        /\ h.dirty = fil[f].dirty /\ h.sclust = fil[f].sclust /\ h.clust = c /\ h.fsize = fil[f].fsize /\ h.fptr = fil[f].fptr
    BY <2>4 DEF Fields
  <2>7. ~ Idle' /\ step' \in Steppings /\ File' = h
    BY <1>1, <2>2, <2>5 DEF Idle, Steppings, File
  <2>8. Quiet
    BY <1>1, <2>2, QuietSame
  <2>9. CallInv'
    BY <1>1, <1>2, <2>2, <2>6, <2>7 DEF CallInv, Opening, WriteSteps, ReadSteps, SeekSteps, Chaining
  <2>10. Ahead(h, s)
    <3>1. CASE AtCluster
      BY <1>1, <1>5, <1>7, <2>1, <2>6, <3>1, FirstOne
    <3>2. CASE ~ AtCluster
      <4>1. Behind(h, s) /\ ~ AtEdge(h) /\ h.fptr <= Len(s) * ClusterUnits
        BY <1>3, <1>4, <2>1, <2>6, <3>2 DEF Behind, AtEdge
      <4> QED
        BY <1>5, <2>6, <4>1, Within
    <3> QED
      BY <3>1, <3>2
  <2>11. PosInv(f, s)'
    BY <1>1, <2>2, <2>5, <2>7, <2>10 DEF PosInv, Busy, Ahead
  <2>12. FileInv(f, s)'
    <3>1. /\ TypesW /\ fil[f].open /\ dir'[f] = dir[f] /\ FilType(fil'[f])
          /\ fil'[f].open = fil[f].open /\ fil'[f].written = fil[f].written /\ fil'[f].fsize = fil[f].fsize
          /\ fil'[f].sclust = fil[f].sclust /\ fil'[f].dirty = fil[f].dirty
          /\ cur'.call = cur.call /\ step' # "seek" /\ step' # "fill"
      BY <1>2, <2>2, <2>5, <2>6, <2>8 DEF FatInv, WInv, Quiet
    <3> QED
      BY <1>1, <1>2, <1>3, <1>5, <2>7, <2>11, <3>1, FileSame
  <2>13. ProgressInv(s)'
    BY <1>1, <2>2, <2>6, <2>7
       DEF ProgressInv, LeftInv, ReadInv, SectorInv, SeekInv, LinkInv, GotInv, ChainInv, ReadSteps, Chaining, AtSector
  <2>14. Orphan' = Orphan
    BY <1>1, <2>2 DEF Orphan
  <2> QED
    BY <1>1, <2>2, <2>5, <2>6, <2>7, <2>8, <2>9, <2>12, <2>13, <2>14, CallStep DEF historyVars
<1> QED
  BY <1>6, <1>7

(* A step within f_write(), f_read() or f_lseek().                         *)
Moves(f) ==
  \/ cur.call.op = "write" /\ fil[f].write /\ step' \in WriteSteps \cup {"chain", "got"}
  \/ cur.call.op = "read" /\ step' \in ReadSteps
  \/ cur.call.op = "seek" /\ step' \in {"follow", "fill", "chain", "got"} /\ (step' \in {"chain", "got"} => fil[f].write)

LEMMA MovesFacts ==
  ASSUME FatInv, NEW f \in Names, ~ Idle, cur.call.f = f, fil[f].open, cur'.call = cur.call,
         fil'[f].open = fil[f].open, fil'[f].write = fil[f].write, Moves(f)
  PROVE  /\ CallInv' /\ step' \in Steppings
         /\ step' \notin {"rest", "fsinfo", "link", "seek", "remove", "replace"} /\ ~ Idle'
<1>1. /\ step' \in {"write", "store", "fit", "written", "read", "fetch", "pick", "follow", "fill", "chain", "got"}
      /\ step' \in WriteSteps => cur.call.op = "write" /\ fil[f].write
      /\ step' \in ReadSteps => cur.call.op = "read"
      /\ step' \in SeekSteps => cur.call.op = "seek"
      /\ step' \in Chaining => cur.call.op \in {"write", "seek"} /\ fil[f].write
  BY DEF Moves, WriteSteps, ReadSteps, SeekSteps, Chaining
<1>2. File' = fil'[f] /\ cur'.call.f = f /\ cur'.call.op = cur.call.op
  BY DEF File
<1>3. CallInv'
  BY <1>1, <1>2 DEF CallInv, Opening
<1> QED
  BY <1>1, <1>3 DEF Steppings, Idle

LEMMA MoveStep ==
  ASSUME FatInv, NEW f \in Names, NEW ch \in Families, Now(f, ch), Quiet, fil[f].open,
         UNCHANGED fsiVars, restarts' = restarts, fatCalls' = fatCalls,
         DOMAIN fil' = Names, \A g \in Names : g # f => fil'[g] = fil[g],
         FilType(fil'[f]), fil'[f].open = fil[f].open, fil'[f].write = fil[f].write,
         fil'[f].written = fil[f].written, fil'[f].sclust = fil[f].sclust, fil'[f].fsize = fil[f].fsize,
         fil'[f].dirty => fil[f].dirty \/ cur.call.op = "write",
         CurType(cur'), cur'.call = cur.call, Moves(f),
         Orphan' = Orphan, step # "link",
         step' = "fill" => fil'[f].fptr > 0 \/ fil[f].written \/ dir[f].first = fil[f].sclust,
         PosInv(f, ch[f])', ProgressInv(ch[f])',
         cur.call.op \notin {"write", "seek"} => fil'[f].fptr <= fil[f].fsize
  PROVE  FatInv'
<1>1. ~ Idle /\ cur.call.f = f /\ FileInv(f, ch[f]) /\ Len(ch[f]) \in Nat /\ FilType(fil[f]) /\ Len(ch[f]) <= Len(ch[f])
  BY DEF Now
<1>2. /\ CallInv' /\ step' \in Steppings /\ ~ Idle'
      /\ step' \notin {"rest", "fsinfo", "link", "seek", "remove", "replace"}
  BY <1>1, MovesFacts
<1>3. TypesW /\ dir'[f] = dir[f] /\ step' # "seek" /\ step' # "link"
  BY <1>2 DEF FatInv, WInv, Quiet
<1>4. FileInv(f, ch[f])'
  BY <1>1, <1>2, <1>3, FileStep
<1> QED
  BY <1>2, <1>3, <1>4, CallStep

(* Nothing is to be linked, or removed, in these steps.                    *)
LEMMA NoOrphan ==
  ASSUME NEW f \in Names, cur.call.f = f, cur'.call = cur.call,
         step \notin {"remove", "replace", "link"}, step = "got" => fil[f].sclust # 0,
         step' \notin {"remove", "replace", "link"}, step' = "got" => fil'[f].sclust # 0
  PROVE  Orphan' = Orphan
BY DEF Orphan, File

LEMMA QuietVars ==
  ASSUME UNCHANGED historyVars
  PROVE  restarts' = restarts /\ fatCalls' = fatCalls
BY DEF historyVars

-----------------------------------------------------------------------------
(* What holds in f_write().                                                *)
LEMMA WritingFacts ==
  ASSUME FatInv, NEW f \in Names, NEW ch \in Families, Now(f, ch), step \in WriteSteps \cup {"got"}, cur.call.op = "write"
  PROVE  /\ cur.call.f = f /\ File = fil[f] /\ FilType(fil[f]) /\ CurType(cur) /\ ~ Idle
         /\ fil[f].fptr \in Nat /\ cur.left \in Nat
         /\ fil[f].open /\ fil[f].write
         /\ Len(ch[f]) \in Nat /\ (ch[f] = <<>> <=> fil[f].sclust = 0) /\ (ch[f] = <<>> <=> Len(ch[f]) = 0)
         /\ ch[f] # <<>> => fil[f].sclust = ch[f][1]
         /\ \A i \in 1 .. Len(ch[f]) : ch[f][i] \in Clusters
         /\ IF step \in {"store", "fit"} THEN Ahead(fil[f], ch[f])
            ELSE fil[f].fptr <= Len(ch[f]) * ClusterUnits /\ Behind(fil[f], ch[f])
<1>1. /\ cur.call.f = f /\ File = fil[f] /\ FilType(fil[f]) /\ CurType(cur) /\ ~ Idle
      /\ fil[f].fptr \in Nat /\ cur.left \in Nat
  BY DEF Now, FilType, CurType
<1>2. fil[f].open /\ fil[f].write
  BY <1>1 DEF FatInv, CallInv, Chaining
<1>3. PosInv(f, ch[f])
  BY <1>2 DEF Now, FileInv, PlaceInv
<1>4. IF step \in {"store", "fit"} THEN Ahead(fil[f], ch[f])
      ELSE fil[f].fptr <= Len(ch[f]) * ClusterUnits /\ Behind(fil[f], ch[f])
  BY <1>1, <1>3 DEF PosInv, Busy, WriteSteps, Chaining
<1> QED
  BY <1>1, <1>2, <1>4 DEF Now, Lead

LEMMA WriteStoreKeeps ==
  ASSUME FatInv, NEW f \in Names, NEW ch \in Families, Now(f, ch), WriteStore
  PROVE  FatInv'
<1> DEFINE s == ch[f]
<1>1. /\ step = "store" /\ UNCHANGED <<windowVars, fsiVars, historyVars>>
      /\ cur.call.op = "write"
  BY DEF WriteStore, Now, FatInv, CallInv, WriteSteps
<1>2. /\ cur.call.f = f /\ File = fil[f] /\ FilType(fil[f]) /\ CurType(cur) /\ ~ Idle
      /\ fil[f].fptr \in Nat /\ cur.left \in Nat
      /\ fil[f].open /\ fil[f].write /\ Len(s) \in Nat /\ Ahead(fil[f], s)
  BY <1>1, WritingFacts DEF WriteSteps
<1>3. cur.left > 0 /\ AtSector
  BY <1>1 DEF Now, ProgressInv, LeftInv, SectorInv
<1>4. restarts' = restarts /\ fatCalls' = fatCalls
  BY <1>1, QuietVars
<1>5. CASE WriteBack /\ UNCHANGED callVars
  <2>1. SetFile([fil[f] EXCEPT !.dirty = FALSE]) /\ step' = step /\ cur' = cur
    BY <1>2, <1>5 DEF WriteBack, callVars
  <2>2. PICK h : h = [fil[f] EXCEPT !.dirty = FALSE]
    OBVIOUS
  <2>3. DOMAIN fil' = Names /\ fil'[f] = h /\ \A g \in Names : g # f => fil'[g] = fil[g]
    BY <1>2, <2>1, <2>2, SetFileFacts
  <2>4. Fields(h, fil[f].open, fil[f].write, fil[f].written, FALSE, fil[f].sclust, fil[f].clust, fil[f].fsize, fil[f].fptr)
    BY <1>2, <2>2, SetClean
  <2>5. /\ FilType(fil'[f]) /\ fil'[f].open = fil[f].open /\ fil'[f].write = fil[f].write
        /\ fil'[f].written = fil[f].written /\ fil'[f].sclust = fil[f].sclust /\ fil'[f].fsize = fil[f].fsize
        /\ fil'[f].dirty = FALSE /\ fil'[f].clust = fil[f].clust /\ fil'[f].fptr = fil[f].fptr
    BY <2>3, <2>4 DEF Fields
  <2>6. Quiet
    BY <1>1, <2>1, QuietSame
  <2>7. Orphan' = Orphan
    BY <1>1, <1>2, <2>1, NoOrphan
  <2>8. Moves(f)
    BY <1>1, <1>2, <2>1 DEF Moves, WriteSteps
  <2>9. PosInv(f, s)'
    BY <1>1, <1>2, <2>1, <2>5 DEF PosInv, Busy, Idle, Ahead
  <2>10. ProgressInv(s)'
    <3>1. File' = fil'[f]
      BY <1>2, <2>1 DEF File
    <3> QED
      BY <1>1, <1>2, <1>3, <2>1, <2>5, <3>1
         DEF ProgressInv, LeftInv, ReadInv, SectorInv, SeekInv, LinkInv, GotInv, ChainInv, ReadSteps, Chaining, AtSector
  <2> QED
    BY <1>1, <1>2, <1>4, <2>1, <2>3, <2>5, <2>6, <2>7, <2>8, <2>9, <2>10, MoveStep
<1>6. CASE ~ File.dirty /\ Whole > 0
           /\ \E bf, ou : SetFile([File EXCEPT !.fptr = @ + Whole * SectorSize, !.buf = bf])
                          /\ cur' = [cur EXCEPT !.left = @ - Whole * SectorSize] /\ step' = "write"
  <2>0. PICK bf : SetFile([File EXCEPT !.fptr = @ + Whole * SectorSize, !.buf = bf])
                  /\ cur' = [cur EXCEPT !.left = @ - Whole * SectorSize] /\ step' = "write"
    BY <1>6
  <2> DEFINE n == Whole * SectorSize
  <2>1. /\ n \in Nat /\ n > 0 /\ n <= cur.left /\ (fil[f].fptr % ClusterUnits) + n <= ClusterUnits
    BY <1>2, <1>3, <1>6, ChunkFacts
  <2> HIDE DEF n
  <2>2. SetFile([fil[f] EXCEPT !.fptr = fil[f].fptr + n, !.buf = bf]) /\ cur' = [cur EXCEPT !.left = cur.left - n]
    BY <1>2, <2>0 DEF n
  <2>3. PICK h, p, l : h = [fil[f] EXCEPT !.fptr = p, !.buf = bf] /\ p = fil[f].fptr + n /\ l = cur.left - n
    OBVIOUS
  <2>4. p \in Nat /\ l \in Nat
    BY <1>2, <2>1, <2>3
  <2>5. DOMAIN fil' = Names /\ fil'[f] = h /\ \A g \in Names : g # f => fil'[g] = fil[g]
    BY <1>2, <2>2, <2>3, SetFileFacts
  <2>6. Fields(h, fil[f].open, fil[f].write, fil[f].written, fil[f].dirty, fil[f].sclust, fil[f].clust, fil[f].fsize, p)
    BY <1>2, <2>3, <2>4, SetStored
  <2>7. /\ FilType(fil'[f]) /\ fil'[f].open = fil[f].open /\ fil'[f].write = fil[f].write
        /\ fil'[f].written = fil[f].written /\ fil'[f].sclust = fil[f].sclust /\ fil'[f].fsize = fil[f].fsize
        /\ fil'[f].dirty = fil[f].dirty /\ fil'[f].clust = fil[f].clust /\ fil'[f].fptr = fil[f].fptr + n
    BY <2>3, <2>5, <2>6 DEF Fields
  <2>8. Locals(cur', cur.call, l, cur.clust, cur.new)
    BY <1>2, <2>2, <2>3, <2>4, SetCur DEF CurType
  <2>9. CurType(cur') /\ cur'.call = cur.call
    BY <2>8 DEF Locals
  <2>10. Quiet
    BY <1>1, <2>0, QuietSame
  <2>11. Orphan' = Orphan
    BY <1>1, <1>2, <2>0, <2>9, NoOrphan
  <2>12. Moves(f)
    BY <1>1, <1>2, <2>0 DEF Moves, WriteSteps
  <2>13. fil'[f].fptr <= Len(s) * ClusterUnits /\ Behind(fil'[f], s)
    BY <1>2, <2>1, <2>7, Onward
  <2>14. PosInv(f, s)'
    BY <1>1, <1>2, <2>0, <2>9, <2>13 DEF PosInv, Busy, Idle, Behind, Chaining
  <2>15. ProgressInv(s)'
    BY <2>0 DEF ProgressInv, LeftInv, ReadInv, SectorInv, SeekInv, LinkInv, GotInv, ChainInv, ReadSteps, Chaining
  <2> QED
    BY <1>1, <1>2, <1>4, <2>0, <2>5, <2>7, <2>9, <2>10, <2>11, <2>12, <2>14, <2>15, MoveStep
<1>7. CASE ~ File.dirty /\ \E ds, bf : SetFile([File EXCEPT !.dsect = ds, !.buf = bf])
           /\ cur' = cur /\ step' = "fit"
  <2>0. PICK ds, bf : SetFile([fil[f] EXCEPT !.dsect = ds, !.buf = bf]) /\ cur' = cur /\ step' = "fit"
    BY <1>2, <1>7
  <2>2. PICK h : h = [fil[f] EXCEPT !.dsect = ds, !.buf = bf]
    OBVIOUS
  <2>3. DOMAIN fil' = Names /\ fil'[f] = h /\ \A g \in Names : g # f => fil'[g] = fil[g]
    BY <1>2, <2>0, <2>2, SetFileFacts
  <2>4. Fields(h, fil[f].open, fil[f].write, fil[f].written, fil[f].dirty, fil[f].sclust, fil[f].clust, fil[f].fsize, fil[f].fptr)
    BY <1>2, <2>2, SetClean
  <2>5. /\ FilType(fil'[f]) /\ fil'[f].open = fil[f].open /\ fil'[f].write = fil[f].write
        /\ fil'[f].written = fil[f].written /\ fil'[f].sclust = fil[f].sclust /\ fil'[f].fsize = fil[f].fsize
        /\ fil'[f].dirty = fil[f].dirty /\ fil'[f].clust = fil[f].clust /\ fil'[f].fptr = fil[f].fptr
    BY <2>3, <2>4 DEF Fields
  <2>6. Quiet
    BY <1>1, <2>0, QuietSame
  <2>7. Orphan' = Orphan
    BY <1>1, <1>2, <2>0, NoOrphan
  <2>8. Moves(f)
    BY <1>1, <1>2, <2>0 DEF Moves, WriteSteps
  <2>9. PosInv(f, s)'
    BY <1>1, <1>2, <2>0, <2>5 DEF PosInv, Busy, Idle, Ahead
  <2>10. ProgressInv(s)'
    <3>1. File' = fil'[f]
      BY <1>2, <2>0 DEF File
    <3> QED
      BY <1>1, <1>2, <1>3, <2>0, <2>5, <3>1
         DEF ProgressInv, LeftInv, ReadInv, SectorInv, SeekInv, LinkInv, GotInv, ChainInv, ReadSteps, Chaining, AtSector
  <2> QED
    BY <1>1, <1>2, <1>4, <2>0, <2>3, <2>5, <2>6, <2>7, <2>8, <2>9, <2>10, MoveStep
<1> QED
  BY <1>5, <1>6, <1>7 DEF WriteStore, Go

Becomes(f, h) == DOMAIN fil' = Names /\ fil'[f] = h /\ \A g \in Names : g # f => fil'[g] = fil[g]

LEMMA BecomesFacts ==
  ASSUME FatInv, NEW f \in Names
  PROVE  /\ cur.call.f = f => \A h : SetFile(h) => Becomes(f, h)
         /\ fil' = fil => Becomes(f, fil[f])
BY DEF SetFile, Becomes, FatInv, Types, TypesF

LEMMA OwnFields ==
  ASSUME NEW h, FilType(h)
  PROVE  Fields(h, h.open, h.write, h.written, h.dirty, h.sclust, h.clust, h.fsize, h.fptr)
BY DEF Fields

LEMMA OwnLocals ==
  ASSUME NEW c, CurType(c)
  PROVE  Locals(c, c.call, c.left, c.clust, c.new)
BY SetCur DEF CurType

LEMMA CountSame ==
  ASSUME FatInv, fat' = fat, Loose' = Loose, freeClust' = freeClust, restarts' = restarts
  PROVE  /\ Free' = Free
         /\ disk'.free \in {disk.free, freeClust} => CountInv'
<1>3. Free' = Free
  BY DEF Free
<1>5. ASSUME disk'.free \in {disk.free, freeClust} PROVE CountInv'
  <2>1. Cardinality(Free) + Loose <= LastCluster - 1 /\ Cardinality(Free) \in Nat /\ Loose \in {0, 1}
    BY FreeFacts DEF FatInv, WInv
  <2>2. restarts \in Nat /\ LastCluster \in Nat /\ freeClust \in Int
    BY FatConstants, FatAssumption DEF FatInv, Types, TypesN, TypesC
  <2> DEFINE r == restarts * (LastCluster - 1)
  <2>3. r \in Int /\ (restarts + 1) * (LastCluster - 1) = r + (LastCluster - 1)
    BY <2>2, SMT
  <2>4. /\ freeClust >= Unknown /\ freeClust <= Cardinality(Free) + Loose + r
        /\ disk.free >= Unknown /\ disk.free <= (restarts + 1) * (LastCluster - 1)
    BY DEF FatInv, CountInv
  <2>5. freeClust <= (restarts + 1) * (LastCluster - 1)
    <3> HIDE DEF r
    <3> QED
      BY <2>1, <2>2, <2>3, <2>4, SMT
  <2> QED
    BY <1>3, <1>5, <2>4, <2>5 DEF CountInv
<1> QED
  BY <1>3, <1>5

LEMMA NobodyFacts ==
  ASSUME NEW ch \in Families, FatInvOf(ch)
  PROVE  /\ IsChain(fat, Orphan, ch[Nobody]) /\ Len(ch[Nobody]) \in Nat
         /\ \A i \in 1 .. Len(ch[Nobody]) : ch[Nobody][i] \in Clusters
         /\ Orphan = 0 <=> ch[Nobody] = <<>>
         /\ ch[Nobody] = <<>> <=> Len(ch[Nobody]) = 0
         /\ ch[Nobody] # <<>> => Orphan = ch[Nobody][1]
<1>1. Chains(fat, Heads, ch) /\ DOMAIN Heads = Owners /\ Nobody \in Owners
  BY HeadsFacts DEF FatInvOf
<1>2. PICK o : o = Nobody
  OBVIOUS
<1>3. o \in Owners /\ Heads[o] = Orphan
  BY <1>1, <1>2, HeadsFacts
<1>4. /\ IsChain(fat, Heads[o], ch[o]) /\ Len(ch[o]) \in Nat /\ ch[o] \in Seq(Clusters)
      /\ \A i \in 1 .. Len(ch[o]) : ch[o][i] \in Clusters /\ ch[o][i] # Root /\ fat[ch[o][i]] # 0
      /\ Heads[o] = 0 <=> ch[o] = <<>>
      /\ ch[o] = <<>> <=> Len(ch[o]) = 0
      /\ ch[o] # <<>> => /\ 1 \in 1 .. Len(ch[o]) /\ Len(ch[o]) \in 1 .. Len(ch[o])
                         /\ Heads[o] = ch[o][1] /\ Heads[o] \in Clusters
  BY <1>1, <1>3, FamilyFacts
<1> QED
  BY <1>2, <1>3, <1>4

(* Nobody's chain becomes the file's.                                      *)
LEMMA TakeChain ==
  ASSUME FatInv, NEW ch \in Families, FatInvOf(ch), NEW f \in Names, Same(f),
         ~ Idle => cur.call.f = f, ~ Idle' => cur'.call.f = f,
         FilType(fil'[f]), CurType(cur'), step' \in Steppings, restarts' = restarts, fatCalls' = fatCalls,
         WInv', DiskStep, disk'.free \in {disk.free, freeClust}, UNCHANGED fsiVars, fat' = fat, Loose' = Loose,
         Lead(f) = 0, Orphan' = 0, Lead(f)' = Orphan,
         CallInv', FileInv(f, ch[Nobody])', ~ Idle' => ProgressInv(ch[Nobody])'
  PROVE  FatInv'
<1> DEFINE c2 == [ch EXCEPT ![Nobody] = <<>>, ![f] = ch[Nobody]]
<1>1. Chains(fat, Heads, ch) /\ AccountInv(ch)
  BY DEF FatInvOf
<1>2. /\ DOMAIN Heads = Owners /\ DOMAIN Heads' = Owners /\ Nobody \in Owners /\ f \in Owners /\ f # Nobody
      /\ Heads[f] = 0 /\ Heads'[Nobody] = 0 /\ Heads'[f] = Heads[Nobody]
  BY HeadsFacts, HeadsNext
<1>3. ASSUME NEW o \in Owners, o # Nobody, o # f PROVE Heads'[o] = Heads[o]
  <2>1. o \in Names
    BY <1>3 DEF Owners
  <2>2. Lead(o)' = Lead(o)
    BY <1>3, <2>1 DEF Lead, Same
  <2> QED
    BY <2>1, <2>2, HeadsFacts, HeadsNext
<1>4. c2 \in Families /\ Chains(fat, Heads', c2) /\ (Owned(fat, ch) => Owned(fat, c2))
  BY <1>1, <1>2, <1>3, FamilyMove
<1>5. c2[f] = ch[Nobody] /\ \A g \in Names : g # f => c2[g] = ch[g]
  BY <1>2, HeadsFacts DEF Families
<1> HIDE DEF c2
<1>6. Free' = Free /\ CountInv' /\ freeClust' = freeClust
  BY CountSame DEF fsiVars
<1>7. AccountInv(c2)'
  BY <1>1, <1>4, <1>6 DEF AccountInv, Owned
<1>8. TypesC' /\ TypesN'
  BY DEF TypesC, TypesN, fsiVars, FatInv, Types
<1>9. /\ FileInv(f, c2[f])'  /\ (~ Idle' => ProgressInv(c2[f])') /\ Chains(fat', Heads', c2)
  BY <1>4, <1>5
<1> QED
  BY <1>4, <1>5, <1>6, <1>7, <1>8, <1>9, Conclude

(* The file's chain becomes Nobody's.                                      *)
LEMMA LoseChain ==
  ASSUME FatInv, NEW ch \in Families, FatInvOf(ch), NEW f \in Names, Same(f),
         ~ Idle => cur.call.f = f, ~ Idle' => cur'.call.f = f,
         FilType(fil'[f]), CurType(cur'), step' \in Steppings, restarts' = restarts, fatCalls' = fatCalls,
         WInv', DiskStep, disk'.free \in {disk.free, freeClust}, UNCHANGED fsiVars, fat' = fat, Loose' = Loose,
         Orphan = 0, Lead(f)' = 0, Orphan' = Lead(f),
         CallInv', FileInv(f, <<>>)', ~ Idle' => ProgressInv(<<>>)'
  PROVE  FatInv'
<1> DEFINE c2 == [ch EXCEPT ![f] = <<>>, ![Nobody] = ch[f]]
<1>1. Chains(fat, Heads, ch) /\ AccountInv(ch)
  BY DEF FatInvOf
<1>2. /\ DOMAIN Heads = Owners /\ DOMAIN Heads' = Owners /\ Nobody \in Owners /\ f \in Owners /\ f # Nobody
      /\ Heads[Nobody] = 0 /\ Heads'[f] = 0 /\ Heads'[Nobody] = Heads[f]
  BY HeadsFacts, HeadsNext
<1>3. ASSUME NEW o \in Owners, o # Nobody, o # f PROVE Heads'[o] = Heads[o]
  <2>1. o \in Names
    BY <1>3 DEF Owners
  <2>2. Lead(o)' = Lead(o)
    BY <1>3, <2>1 DEF Lead, Same
  <2> QED
    BY <2>1, <2>2, HeadsFacts, HeadsNext
<1>4. c2 \in Families /\ Chains(fat, Heads', c2) /\ (Owned(fat, ch) => Owned(fat, c2))
  BY <1>1, <1>2, <1>3, FamilyMove
<1>5. c2[f] = <<>> /\ \A g \in Names : g # f => c2[g] = ch[g]
  BY <1>2, HeadsFacts DEF Families
<1> HIDE DEF c2
<1>6. Free' = Free /\ CountInv' /\ freeClust' = freeClust
  BY CountSame DEF fsiVars
<1>7. AccountInv(c2)'
  BY <1>1, <1>4, <1>6 DEF AccountInv, Owned
<1>8. TypesC' /\ TypesN'
  BY DEF TypesC, TypesN, fsiVars, FatInv, Types
<1>9. /\ FileInv(f, c2[f])'  /\ (~ Idle' => ProgressInv(c2[f])') /\ Chains(fat', Heads', c2)
  BY <1>4, <1>5
<1> QED
  BY <1>4, <1>5, <1>6, <1>7, <1>8, <1>9, Conclude

(* The end of a call that leaves its file's chain as it is.                *)
LEMMA EndStep ==
  ASSUME FatInv, NEW f \in Names, NEW ch \in Families, Now(f, ch), Quiet, EndCall, UNCHANGED fsiVars,
         NEW h, Becomes(f, h), FilType(h), h.open = fil[f].open, h.sclust = fil[f].sclust,
         step \notin {"link", "got", "remove", "replace"}, FileInv(f, ch[f])'
  PROVE  FatInv'
<1>1. step' = "rest" /\ cur' = NoLocals /\ restarts' = restarts /\ fatCalls' = fatCalls /\ Idle'
  BY DEF EndCall, Go, Idle
<1>2. CurType(cur') /\ step' \in Steppings /\ step' # "link"
  BY <1>1, NoLocalsFacts DEF Locals, Steppings
<1>3. Orphan' = Orphan
  BY <1>1 DEF Orphan
<1>4. CallInv'
  BY <1>1 DEF CallInv
<1>5. DOMAIN fil' = Names /\ fil'[f] = h /\ \A g \in Names : g # f => fil'[g] = fil[g]
  BY DEF Becomes
<1> QED
  BY <1>1, <1>2, <1>3, <1>4, <1>5, CallStep

LEMMA WriteGotKeeps ==
  ASSUME FatInv, NEW f \in Names, NEW ch \in Families, Now(f, ch), WriteGot
  PROVE  FatInv'
<1> DEFINE s == ch[f]
<1>1. /\ step = "got" /\ cur.call.op = "write" /\ UNCHANGED <<windowVars, fsiVars, historyVars, cur>>
      /\ restarts' = restarts /\ fatCalls' = fatCalls
  BY QuietVars DEF WriteGot
<1>2. /\ cur.call.f = f /\ File = fil[f] /\ FilType(fil[f]) /\ CurType(cur) /\ ~ Idle
      /\ fil[f].fptr \in Nat /\ cur.left \in Nat
      /\ fil[f].open /\ fil[f].write
      /\ Len(s) \in Nat /\ (s = <<>> <=> fil[f].sclust = 0) /\ (s = <<>> <=> Len(s) = 0)
      /\ s # <<>> => fil[f].sclust = s[1]
      /\ \A i \in 1 .. Len(s) : s[i] \in Clusters
      /\ fil[f].fptr <= Len(s) * ClusterUnits /\ Behind(fil[f], s)
  BY <1>1, WritingFacts
<1>3. cur.left > 0 /\ AtEdge(fil[f]) /\ GotInv(s)
  BY <1>1, <1>2 DEF Now, ProgressInv, LeftInv, ChainInv, Chaining
<1>4. AtSector
  BY <1>2, <1>3, ChunkFacts
<1>5. Locals(cur', cur.call, cur.left, cur.clust, cur.new)
  BY <1>1, <1>2, OwnLocals
<1>6. CASE cur.new = 0
  <2>1. step' = "written" /\ fil' = fil
    BY <1>1, <1>6 DEF WriteGot, Go
  <2>2. Becomes(f, fil[f])
    BY <2>1, BecomesFacts
  <2>3. Fields(fil[f], fil[f].open, fil[f].write, fil[f].written, fil[f].dirty, fil[f].sclust, fil[f].clust, fil[f].fsize, fil[f].fptr)
    BY <1>2, OwnFields
  <2>4. /\ DOMAIN fil' = Names /\ (\A g \in Names : g # f => fil'[g] = fil[g])
        /\ File' = fil'[f] /\ FilType(fil'[f]) /\ fil'[f].open = fil[f].open /\ fil'[f].write = fil[f].write
        /\ fil'[f].written = fil[f].written /\ fil'[f].dirty = fil[f].dirty /\ fil'[f].sclust = fil[f].sclust
        /\ fil'[f].clust = fil[f].clust /\ fil'[f].fsize = fil[f].fsize /\ fil'[f].fptr = fil[f].fptr
        /\ CurType(cur') /\ cur'.call = cur.call
    BY <1>2, <1>5, <2>2, <2>3 DEF Becomes, Fields, Locals, File
  <2>5. Quiet
    BY <1>1, <2>1, QuietSame
  <2>6. Orphan' = Orphan
    BY <1>1, <1>6, <2>1 DEF Orphan
  <2>7. Moves(f)
    BY <1>1, <1>2, <2>1 DEF Moves, WriteSteps
  <2>8. PosInv(f, s)'
    BY <1>1, <1>2, <2>1, <2>4 DEF PosInv, Behind, Chaining
  <2>9. ProgressInv(s)'
    BY <2>1 DEF ProgressInv, LeftInv, ReadInv, SectorInv, SeekInv, LinkInv, GotInv, ChainInv, ReadSteps, Chaining
  <2> QED
    BY <1>1, <1>2, <2>1, <2>4, <2>5, <2>6, <2>7, <2>8, <2>9, MoveStep
<1>7. CASE cur.new # 0
  <2>0. cur.new \in Starts /\ step' = "store"
    BY <1>1, <1>2, <1>7 DEF CurType, WriteGot, Go
  <2>1. PICK sc : sc = IF fil[f].sclust = 0 THEN cur.new ELSE fil[f].sclust
    OBVIOUS
  <2>2. sc \in Starts
    BY <1>2, <2>0, <2>1 DEF FilType
  <2>3. PICK h : h = [fil[f] EXCEPT !.clust = cur.new, !.sclust = sc]
    OBVIOUS
  <2>4. SetFile(h)
    BY <1>2, <1>7, <2>1, <2>3 DEF WriteGot
  <2>5. Becomes(f, h)
    BY <1>2, <2>4, BecomesFacts
  <2>6. Fields(h, fil[f].open, fil[f].write, fil[f].written, fil[f].dirty, sc, cur.new, fil[f].fsize, fil[f].fptr)
    BY <1>2, <2>0, <2>2, <2>3, SetClust
  <2>7. /\ DOMAIN fil' = Names /\ (\A g \in Names : g # f => fil'[g] = fil[g])
        /\ File' = fil'[f] /\ FilType(fil'[f]) /\ fil'[f].open = fil[f].open /\ fil'[f].write = fil[f].write
        /\ fil'[f].written = fil[f].written /\ fil'[f].dirty = fil[f].dirty /\ fil'[f].sclust = sc
        /\ fil'[f].clust = cur.new /\ fil'[f].fsize = fil[f].fsize /\ fil'[f].fptr = fil[f].fptr
        /\ CurType(cur') /\ cur'.call = cur.call /\ cur'.left = cur.left
    BY <1>2, <1>5, <2>5, <2>6 DEF Becomes, Fields, Locals, File
  <2>8. Quiet
    BY <1>1, <2>0, QuietSame
  <2>9. Moves(f)
    BY <1>1, <1>2, <2>0 DEF Moves, WriteSteps
  <2>10. AtSector' /\ cur'.left > 0
    BY <1>2, <1>3, <1>4, <2>7 DEF AtSector
  <2>11. ASSUME NEW t, Ahead(fil'[f], t) PROVE PosInv(f, t)' /\ ProgressInv(t)'
    <3>1. PosInv(f, t)'
      <4>1. Busy(f)'
        BY <1>2, <2>0, <2>7 DEF Busy, Idle
      <4> QED
        BY <2>0, <2>11, <4>1 DEF PosInv, Ahead
    <3>2. ProgressInv(t)'
      BY <2>0, <2>10 DEF ProgressInv, LeftInv, ReadInv, SectorInv, SeekInv, LinkInv, GotInv, ChainInv, ReadSteps, Chaining
    <3> QED
      BY <3>1, <3>2
  <2>12. CASE fil[f].sclust # 0
    <3>1. s # <<>> /\ (fil[f].fptr \div ClusterUnits) + 1 <= Len(s) /\ cur.new = s[(fil[f].fptr \div ClusterUnits) + 1]
      BY <1>1, <1>2, <1>3, <1>7, <2>12 DEF GotInv
    <3>2. Ahead(fil'[f], s)
      BY <2>7, <3>1 DEF Ahead
    <3>3. Orphan' = Orphan
      BY <1>1, <1>2, <2>0, <2>7, <2>12, NoOrphan
    <3>4. sc = fil[f].sclust
      BY <2>1, <2>12
    <3> QED
      BY <1>1, <1>2, <2>0, <2>7, <2>8, <2>9, <2>11, <3>2, <3>3, <3>4, MoveStep
  <2>13. CASE fil[f].sclust = 0
    <3>1. Orphan = cur.new /\ Orphan' = 0 /\ Lead(f) = 0 /\ Lead(f)' = cur.new
      BY <1>1, <1>2, <2>0, <2>1, <2>7, <2>13 DEF Orphan, Lead
    <3>2. PICK t : t = ch[Nobody]
      OBVIOUS
    <3>3. /\ Len(t) \in Nat /\ t # <<>> /\ Len(t) # 0 /\ t[1] = cur.new
      <4>1. FatInvOf(ch)
        BY DEF Now
      <4>2. /\ Len(ch[Nobody]) \in Nat
            /\ Orphan = 0 <=> ch[Nobody] = <<>>
            /\ ch[Nobody] = <<>> <=> Len(ch[Nobody]) = 0
            /\ ch[Nobody] # <<>> => Orphan = ch[Nobody][1]
        BY <4>1, NobodyFacts
      <4> QED
        BY <1>7, <3>1, <3>2, <4>2
    <3>4. Len(s) = 0 /\ fil[f].fptr = 0
      <4>1. Len(s) = 0
        BY <1>2, <2>13
      <4>2. Len(s) * ClusterUnits = 0
        BY <4>1, FatConstants, SMT
      <4> QED
        BY <1>2, <4>1, <4>2
    <3>5. Ahead(fil'[f], t)
      BY <2>7, <3>3, <3>4, FirstOne
    <3>6. PosInv(f, t)' /\ ProgressInv(t)'
      BY <2>11, <3>5
    <3>7. /\ CallInv' /\ step' \in Steppings
          /\ step' \notin {"rest", "fsinfo", "link", "seek", "remove", "replace"} /\ ~ Idle'
      BY <1>2, <2>7, <2>9, MovesFacts
    <3>8. FileInv(f, t)'
      <4>1. /\ TypesW /\ dir'[f] = dir[f] /\ FileInv(f, s) /\ Len(s) <= Len(t)
            /\ step' \notin {"fill", "seek"} /\ cur.call.op \in {"write", "seek"}
        BY <1>1, <2>0, <2>8, <3>3, <3>4 DEF FatInv, WInv, Quiet, Now
      <4> QED
        BY <1>2, <2>7, <2>13, <3>3, <3>4, <3>6, <3>7, <4>1, FileStep
    <3>9. /\ WInv' /\ DiskStep /\ disk'.free \in {disk.free, freeClust} /\ fat' = fat /\ dir' = dir /\ FatInvOf(ch)
          /\ Same(f) /\ Loose' = Loose
      BY <1>1, <2>0, <2>7, <2>8 DEF Quiet, Same, Loose, Now
    <3>10. /\ ~ Idle => cur.call.f = f /\ (~ Idle' => cur'.call.f = f)
           /\ UNCHANGED fsiVars /\ Lead(f)' = Orphan
           /\ FileInv(f, ch[Nobody])' /\ (~ Idle' => ProgressInv(ch[Nobody])')
      BY <1>1, <1>2, <2>7, <3>1, <3>2, <3>6, <3>8
    <3> QED
      BY <1>1, <1>2, <2>7, <3>1, <3>7, <3>9, <3>10, TakeChain
  <2> QED
    BY <2>12, <2>13
<1> QED
  BY <1>6, <1>7

LEMMA WriteFitKeeps ==
  ASSUME FatInv, NEW f \in Names, NEW ch \in Families, Now(f, ch), WriteFit
  PROVE  FatInv'
<1> DEFINE s == ch[f]
<1>1. /\ step = "fit" \/ (step = "write" /\ cur.left > 0 /\ ~ AtSector)
      /\ UNCHANGED <<windowVars, fsiVars, historyVars>> /\ step' = "write"
      /\ restarts' = restarts /\ fatCalls' = fatCalls
      /\ cur.call.op = "write"
  BY QuietVars DEF WriteFit, Now, FatInv, CallInv, WriteSteps, Go
<1>2. /\ cur.call.f = f /\ File = fil[f] /\ FilType(fil[f]) /\ CurType(cur) /\ ~ Idle
      /\ fil[f].fptr \in Nat /\ cur.left \in Nat
      /\ fil[f].open /\ fil[f].write
      /\ Len(s) \in Nat
      /\ IF step \in {"store", "fit"} THEN Ahead(fil[f], s)
         ELSE fil[f].fptr <= Len(s) * ClusterUnits /\ Behind(fil[f], s)
  BY <1>1, WritingFacts DEF WriteSteps
<1>3. cur.left > 0
  BY <1>1 DEF Now, ProgressInv, LeftInv
<1>4. /\ Partial \in Nat /\ Partial > 0 /\ Partial <= cur.left
      /\ (fil[f].fptr % ClusterUnits) + Partial <= ClusterUnits
      /\ ~ AtSector => ~ AtEdge(fil[f])
  BY <1>2, <1>3, ChunkFacts
<1>5. Ahead(fil[f], s)
  <2>1. CASE step = "fit"
    BY <1>2, <2>1
  <2>2. CASE step = "write" /\ ~ AtSector
    BY <1>2, <1>4, <2>2, Within
  <2> QED
    BY <1>1, <2>1, <2>2
<1>6. PICK k : k = Partial
  OBVIOUS
<1>7. PICK bf : SetFile([fil[f] EXCEPT !.buf = bf, !.dirty = TRUE, !.fptr = fil[f].fptr + k])
  BY <1>2, <1>6 DEF WriteFit
<1>8. cur' = [cur EXCEPT !.left = cur.left - k]
  BY <1>6 DEF WriteFit
<1>9. PICK h, p, l : h = [fil[f] EXCEPT !.buf = bf, !.dirty = TRUE, !.fptr = p] /\ p = fil[f].fptr + k /\ l = cur.left - k
  OBVIOUS
<1>10. p \in Nat /\ l \in Nat
  BY <1>2, <1>4, <1>6, <1>9
<1>11. Becomes(f, h)
  BY <1>2, <1>7, <1>9, BecomesFacts
<1>12. Fields(h, fil[f].open, fil[f].write, fil[f].written, TRUE, fil[f].sclust, fil[f].clust, fil[f].fsize, p)
  BY <1>2, <1>9, <1>10, SetStored
<1>13. Locals(cur', cur.call, l, cur.clust, cur.new)
  BY <1>2, <1>8, <1>9, <1>10, SetCur DEF CurType
<1>14. /\ DOMAIN fil' = Names /\ (\A g \in Names : g # f => fil'[g] = fil[g])
       /\ File' = fil'[f] /\ FilType(fil'[f]) /\ fil'[f].open = fil[f].open /\ fil'[f].write = fil[f].write
       /\ fil'[f].written = fil[f].written /\ fil'[f].sclust = fil[f].sclust
       /\ fil'[f].clust = fil[f].clust /\ fil'[f].fsize = fil[f].fsize /\ fil'[f].fptr = p
       /\ CurType(cur') /\ cur'.call = cur.call
  BY <1>2, <1>11, <1>12, <1>13 DEF Becomes, Fields, Locals, File
<1>15. Quiet
  BY <1>1, QuietSame
<1>16. Orphan' = Orphan
  BY <1>1 DEF Orphan
<1>17. Moves(f)
  BY <1>1, <1>2 DEF Moves, WriteSteps
<1>18. fil'[f].fptr <= Len(s) * ClusterUnits /\ Behind(fil'[f], s)
  BY <1>2, <1>4, <1>5, <1>6, <1>9, <1>14, Onward
<1>19. PosInv(f, s)'
  BY <1>1, <1>18 DEF PosInv, Behind, Chaining
<1>20. ProgressInv(s)'
  BY <1>1 DEF ProgressInv, LeftInv, ReadInv, SectorInv, SeekInv, LinkInv, GotInv, ChainInv, ReadSteps, Chaining
<1> QED
  BY <1>1, <1>2, <1>14, <1>15, <1>16, <1>17, <1>19, <1>20, MoveStep

LEMMA WriteKeeps ==
  ASSUME FatInv, NEW f \in Names, NEW ch \in Families, Now(f, ch), f_write
  PROVE  FatInv'
<1> DEFINE s == ch[f]
<1>1. /\ step \in {"written", "write"}
      /\ UNCHANGED <<windowVars, fsiVars>> /\ EndCall /\ step' = "rest"
      /\ cur.call.op = "write"
  BY DEF f_write, Now, FatInv, CallInv, WriteSteps, EndCall, Go
<1>2. /\ cur.call.f = f /\ File = fil[f] /\ FilType(fil[f]) /\ ~ Idle
      /\ fil[f].fptr \in Nat
      /\ fil[f].open /\ fil[f].write
      /\ Len(s) \in Nat
      /\ fil[f].fptr <= Len(s) * ClusterUnits /\ Behind(fil[f], s)
  BY <1>1, WritingFacts DEF WriteSteps
<1>3. PICK size : size = Greater(fil[f].fsize, fil[f].fptr)
  OBVIOUS
<1>4. PICK h : h = [fil[f] EXCEPT !.fsize = size, !.written = TRUE]
  OBVIOUS
<1>5. Becomes(f, h)
  BY <1>2, <1>3, <1>4, BecomesFacts DEF f_write
<1>6. FileInv(f, s) /\ fil[f].fsize \in Nat /\ fil[f].fsize <= Len(s) * ClusterUnits
  BY <1>2 DEF Now, FileInv, RoomInv, FilType
<1>7. size \in Nat /\ fil[f].fptr <= size /\ size <= Len(s) * ClusterUnits
  BY <1>2, <1>3, <1>6 DEF Greater
<1>8. Fields(h, fil[f].open, fil[f].write, TRUE, fil[f].dirty, fil[f].sclust, fil[f].clust, size, fil[f].fptr)
  BY <1>2, <1>4, <1>7, SetSize
<1>9. /\ fil'[f] = h /\ FilType(h) /\ h.open = fil[f].open /\ h.written = TRUE /\ h.dirty = fil[f].dirty
      /\ h.sclust = fil[f].sclust /\ h.clust = fil[f].clust /\ h.fsize = size /\ h.fptr = fil[f].fptr
  BY <1>5, <1>8 DEF Becomes, Fields
<1>10. Quiet
  BY <1>1, QuietSame
<1>11. dir' = dir /\ ~ Busy(f)'
  BY <1>1, <1>10 DEF Quiet, Busy, Idle
<1>12. PosInv(f, s)'
  BY <1>2, <1>9, <1>11 DEF PosInv, Behind
<1>13. FileInv(f, s)'
  <2>1. UnusedInv(f)' /\ DirtyInv(f)'
    BY <1>2, <1>6, <1>9, <1>11 DEF FileInv, UnusedInv, DirtyInv
  <2>2. RoomInv(f, s)'
    BY <1>6, <1>7, <1>9, <1>11 DEF FileInv, RoomInv
  <2>3. PlaceInv(f, s)'
    BY <1>7, <1>9, <1>12 DEF PlaceInv
  <2>4. EntryInv(f)'
    BY <1>2, <1>6, <1>9, <1>11 DEF FileInv, EntryInv
  <2> QED
    BY <2>1, <2>2, <2>3, <2>4 DEF FileInv
<1> QED
  BY <1>1, <1>5, <1>9, <1>10, <1>13, EndStep

-----------------------------------------------------------------------------
(* create_chain().                                                         *)

(* What holds while a cluster is got.                                      *)
LEMMA ChainingFacts ==
  ASSUME FatInv, NEW f \in Names, NEW ch \in Families, Now(f, ch), step \in Chaining
  PROVE  /\ cur.call.f = f /\ File = fil[f] /\ FilType(fil[f]) /\ CurType(cur) /\ ~ Idle
         /\ fil[f].fptr \in Nat /\ cur.left \in Nat /\ cur.left > 0
         /\ fil[f].open /\ fil[f].write /\ cur.call.op \in {"write", "seek"}
         /\ Len(ch[f]) \in Nat /\ (ch[f] = <<>> <=> fil[f].sclust = 0) /\ (ch[f] = <<>> <=> Len(ch[f]) = 0)
         /\ ch[f] # <<>> => fil[f].sclust = ch[f][1]
         /\ \A i \in 1 .. Len(ch[f]) : ch[f][i] \in Clusters
         /\ IsChain(fat, fil[f].sclust, ch[f])
         /\ AtEdge(fil[f]) /\ ChainInv(ch[f])
         /\ IF cur.call.op = "seek" THEN ch[f] # <<>> => Ahead(fil[f], ch[f])
            ELSE fil[f].fptr <= Len(ch[f]) * ClusterUnits /\ Behind(fil[f], ch[f])
<1>1. /\ cur.call.f = f /\ File = fil[f] /\ FilType(fil[f]) /\ CurType(cur) /\ ~ Idle
      /\ fil[f].fptr \in Nat /\ cur.left \in Nat
  BY DEF Now, FilType, CurType
<1>2. fil[f].open /\ fil[f].write /\ cur.call.op \in {"write", "seek"}
  BY <1>1 DEF FatInv, CallInv
<1>3. PosInv(f, ch[f])
  BY <1>2 DEF Now, FileInv, PlaceInv
<1>4. IF cur.call.op = "seek" THEN ch[f] # <<>> => Ahead(fil[f], ch[f])
      ELSE fil[f].fptr <= Len(ch[f]) * ClusterUnits /\ Behind(fil[f], ch[f])
  BY <1>1, <1>3 DEF PosInv, Busy, Chaining
<1>5. AtEdge(fil[f]) /\ ChainInv(ch[f]) /\ cur.left > 0
  BY <1>1 DEF Now, ProgressInv, ChainInv, LeftInv
<1> QED
  BY <1>1, <1>2, <1>4, <1>5 DEF Now, Lead

(* It is the one that follows cluster i of the chain.                      *)
Asked(f) == (fil[f].fptr \div ClusterUnits) + (IF cur.call.op = "seek" THEN 1 ELSE 0)

LEMMA AskedFacts ==
  ASSUME FatInv, NEW f \in Names, NEW ch \in Families, Now(f, ch), step \in Chaining, ch[f] # <<>>
  PROVE  /\ Asked(f) \in 1 .. Len(ch[f]) /\ cur.clust = ch[f][Asked(f)] /\ cur.clust \in Clusters
         /\ fat[cur.clust] = IF Asked(f) = Len(ch[f]) THEN LastLink ELSE ch[f][Asked(f) + 1]
         /\ fil[f].fptr = (fil[f].fptr \div ClusterUnits) * ClusterUnits /\ (fil[f].fptr \div ClusterUnits) \in Nat
<1> DEFINE s == ch[f]
           i == Asked(f)
<1>1. /\ File = fil[f] /\ FilType(fil[f])
      /\ fil[f].fptr \in Nat
      /\ cur.call.op \in {"write", "seek"}
      /\ Len(s) \in Nat
      /\ \A j \in 1 .. Len(s) : s[j] \in Clusters
      /\ IsChain(fat, fil[f].sclust, s)
      /\ AtEdge(fil[f]) /\ ChainInv(s)
      /\ IF cur.call.op = "seek" THEN s # <<>> => Ahead(fil[f], s)
         ELSE fil[f].fptr <= Len(s) * ClusterUnits /\ Behind(fil[f], s)
  BY ChainingFacts
<1>2. /\ cur.clust # 0
      /\ cur.call.op = "write" => cur.clust = IF fil[f].fptr = 0 THEN 0 ELSE s[fil[f].fptr \div ClusterUnits]
      /\ cur.call.op = "seek" => cur.clust = fil[f].clust
  BY <1>1 DEF ChainInv
<1>3. fil[f].fptr = (fil[f].fptr \div ClusterUnits) * ClusterUnits /\ (fil[f].fptr \div ClusterUnits) \in Nat
  <2>1. /\ (fil[f].fptr \div ClusterUnits) \in Nat
        /\ fil[f].fptr = (fil[f].fptr \div ClusterUnits) * ClusterUnits + (fil[f].fptr % ClusterUnits)
        /\ (fil[f].fptr \div ClusterUnits) * ClusterUnits \in Nat
    BY <1>1, DivMod, FatConstants
  <2> QED
    BY <1>1, <2>1 DEF AtEdge
<1>4. i \in 1 .. Len(s) /\ cur.clust = s[i]
  <2>1. CASE cur.call.op = "seek"
    BY <1>1, <1>2, <1>3, <2>1 DEF Asked, Ahead
  <2>2. CASE cur.call.op = "write"
    <3>1. fil[f].fptr > 0 /\ cur.clust = s[fil[f].fptr \div ClusterUnits]
      BY <1>1, <1>2, <2>2
    <3>2. (fil[f].fptr \div ClusterUnits) \in 1 .. Len(s)
      BY <1>1, <2>2, <3>1, AtEnd
    <3>3. i = fil[f].fptr \div ClusterUnits
      BY <1>3, <2>2 DEF Asked
    <3> QED
      BY <3>1, <3>2, <3>3
  <2> QED
    BY <1>1, <2>1, <2>2
<1>5. fat[s[i]] = IF i = Len(s) THEN LastLink ELSE s[i + 1]
  BY <1>1, <1>4 DEF IsChain
<1> QED
  BY <1>1, <1>3, <1>4, <1>5

LEMMA FollowKeeps ==
  ASSUME FatInv, NEW f \in Names, NEW ch \in Families, Now(f, ch), Follow
  PROVE  FatInv'
<1> DEFINE s == ch[f]
<1>1. /\ step = "chain" /\ cur.clust # 0 /\ fat[cur.clust] \in Clusters /\ get_fat(cur.clust)
      /\ cur' = [cur EXCEPT !.new = fat[cur.clust]] /\ step' = "got" /\ fil' = fil
      /\ UNCHANGED <<data, fsiVars, fil, historyVars>> /\ restarts' = restarts /\ fatCalls' = fatCalls
      /\ step \in Chaining
  BY QuietVars DEF Follow, Go, Chaining
<1>2. /\ cur.call.f = f /\ File = fil[f] /\ FilType(fil[f]) /\ CurType(cur) /\ ~ Idle
      /\ fil[f].fptr \in Nat /\ cur.left \in Nat /\ cur.left > 0
      /\ fil[f].open /\ fil[f].write /\ cur.call.op \in {"write", "seek"}
      /\ Len(s) \in Nat /\ (s = <<>> <=> fil[f].sclust = 0) /\ (s = <<>> <=> Len(s) = 0)
      /\ AtEdge(fil[f]) /\ ChainInv(s)
      /\ IF cur.call.op = "seek" THEN s # <<>> => Ahead(fil[f], s)
         ELSE fil[f].fptr <= Len(s) * ClusterUnits /\ Behind(fil[f], s)
  BY <1>1, ChainingFacts
<1>3. s # <<>>
  BY <1>1, <1>2 DEF ChainInv
<1>4. /\ Asked(f) \in 1 .. Len(s) /\ cur.clust = s[Asked(f)] /\ cur.clust \in Clusters
      /\ fat[cur.clust] = IF Asked(f) = Len(s) THEN LastLink ELSE s[Asked(f) + 1]
      /\ (fil[f].fptr \div ClusterUnits) \in Nat
  BY <1>1, <1>3, AskedFacts
<1>5. Asked(f) + 1 <= Len(s) /\ fat[cur.clust] = s[Asked(f) + 1]
  BY <1>1, <1>2, <1>4, FatConstants
<1>6. PICK c : c = fat[cur.clust]
  OBVIOUS
<1>7. c \in Starts /\ c # 0
  BY <1>1, <1>6, FatConstants DEF Starts
<1>8. Locals(cur', cur.call, cur.left, cur.clust, c)
  BY <1>1, <1>2, <1>6, <1>7, SetCur DEF CurType
<1>9. Becomes(f, fil[f])
  BY <1>1, BecomesFacts
<1>10. Fields(fil[f], fil[f].open, fil[f].write, fil[f].written, fil[f].dirty, fil[f].sclust, fil[f].clust, fil[f].fsize, fil[f].fptr)
  BY <1>2, OwnFields
<1>11. /\ DOMAIN fil' = Names /\ (\A g \in Names : g # f => fil'[g] = fil[g])
       /\ File' = fil'[f] /\ FilType(fil'[f]) /\ fil'[f] = fil[f]
       /\ CurType(cur') /\ cur'.call = cur.call /\ cur'.left = cur.left /\ cur'.clust = cur.clust /\ cur'.new = c
  BY <1>1, <1>2, <1>8, <1>9, <1>10 DEF Becomes, Fields, Locals, File
<1>12. Quiet
  BY <1>1, <1>4, QuietGet
<1>13. Orphan' = Orphan
  BY <1>1, <1>2, <1>3, <1>11 DEF Orphan
<1>14. Moves(f)
  BY <1>1, <1>2 DEF Moves
<1>15. PosInv(f, s)'
  BY <1>1, <1>2, <1>11 DEF PosInv, Busy, Idle, Behind, Ahead, Chaining
<1>16. ProgressInv(s)'
  <2>1. ChainInv(s)'
    BY <1>1, <1>2, <1>11 DEF ChainInv, AtEdge, Chaining
  <2>2. GotInv(s)'
    <3>1. PICK k : k = (fil[f].fptr \div ClusterUnits) + (IF cur.call.op = "seek" THEN 2 ELSE 1)
      OBVIOUS
    <3>2. k = Asked(f) + 1
      BY <1>2, <1>4, <3>1 DEF Asked
    <3>3. k <= Len(s) /\ c = s[k]
      BY <1>5, <1>6, <3>2
    <3> QED
      BY <1>1, <1>7, <1>11, <3>1, <3>3 DEF GotInv
  <2> QED
    BY <1>1, <1>2, <1>11, <2>1, <2>2 DEF ProgressInv, LeftInv, ReadInv, SectorInv, SeekInv, LinkInv, ReadSteps
<1> QED
  BY <1>1, <1>2, <1>11, <1>12, <1>13, <1>14, <1>15, <1>16, MoveStep

-----------------------------------------------------------------------------
(* A free cluster is looked for.                                           *)

LEMMA ScanFacts ==
  /\ ScanFrom \in Int => DOMAIN Scan(ScanFrom) = 1 .. LastCluster - 1
  /\ ScanFrom \in Int => \A i \in 1 .. LastCluster - 1 : Scan(ScanFrom)[i] \in Clusters
  /\ LastCluster - 1 \in 1 .. LastCluster - 1
<1>1. LastCluster \in Nat /\ LastCluster >= 3
  BY FatConstants
<1>2. ASSUME NEW q \in Int PROVE (q % (LastCluster - 1)) + 2 \in Clusters
  <2>1. (q % (LastCluster - 1)) \in 0 .. LastCluster - 2
    BY <1>1, SMT
  <2> QED
    BY <1>1, <2>1, SMT DEF Clusters
<1>3. ASSUME ScanFrom \in Int
      PROVE  /\ DOMAIN Scan(ScanFrom) = 1 .. LastCluster - 1
             /\ \A i \in 1 .. LastCluster - 1 : Scan(ScanFrom)[i] \in Clusters
  <2>1. \A i \in 1 .. LastCluster - 1 : ScanFrom + i - 2 \in Int
    BY <1>1, <1>3
  <2> QED
    BY <1>2, <2>1 DEF Scan
<1> QED
  BY <1>1, <1>3

(* A step that takes free clusters as it takes count of them.              *)
LEMMA CountKept ==
  ASSUME FatInv, restarts' = restarts, disk'.free = disk.free, freeClust' = freeClust,
         Cardinality(Free)' + Loose' = Cardinality(Free) + Loose
  PROVE  CountInv'
BY DEF FatInv, CountInv

LEMMA FreeLess ==
  ASSUME TypesW, fat[Root] # 0, NEW c \in Clusters, fat[c] = 0, NEW v, v # 0, fat' = [fat EXCEPT ![c] = v]
  PROVE  Cardinality(Free)' = Cardinality(Free) - 1
<1>1. Free' = Free \ {c} /\ c \in Free
  BY DEF Free, TypesW, Tables
<1>2. IsFiniteSet(Free) /\ Cardinality(Free) \in Nat
  BY FreeFacts
<1>3. Cardinality(Free \ {c}) = Cardinality(Free) - 1
  BY <1>1, <1>2, FS_RemoveElement
<1> QED
  BY <1>1, <1>3

LEMMA NoneFree ==
  ASSUME FatInv, NEW f \in Names, NEW ch \in Families, Now(f, ch),
         step = "chain", cur.clust # 0 => fat[cur.clust] \notin Clusters,
         NEW e \in Clusters, ReadOver({FatSector(c) : c \in Clusters}, FatSector(e)),
         cur' = [cur EXCEPT !.new = 0], step' = "got", UNCHANGED <<fsiVars, fil, historyVars>>
  PROVE  FatInv'
<1> DEFINE s == ch[f]
<1>1. restarts' = restarts /\ fatCalls' = fatCalls /\ step \in Chaining
  BY QuietVars DEF Chaining
<1>2. /\ cur.call.f = f /\ File = fil[f] /\ FilType(fil[f]) /\ CurType(cur) /\ ~ Idle
      /\ fil[f].fptr \in Nat /\ cur.left \in Nat /\ cur.left > 0
      /\ fil[f].open /\ fil[f].write /\ cur.call.op \in {"write", "seek"}
      /\ Len(s) \in Nat /\ (s = <<>> <=> fil[f].sclust = 0) /\ (s = <<>> <=> Len(s) = 0)
      /\ AtEdge(fil[f]) /\ ChainInv(s)
      /\ \A i \in 1 .. Len(s) : s[i] \in Clusters
      /\ IF cur.call.op = "seek" THEN s # <<>> => Ahead(fil[f], s)
         ELSE fil[f].fptr <= Len(s) * ClusterUnits /\ Behind(fil[f], s)
  BY <1>1, ChainingFacts
<1>3. Locals(cur', cur.call, cur.left, cur.clust, 0)
  BY <1>2, SetCur, FatConstants DEF CurType, Starts
<1>4. Becomes(f, fil[f])
  BY BecomesFacts
<1>5. Fields(fil[f], fil[f].open, fil[f].write, fil[f].written, fil[f].dirty, fil[f].sclust, fil[f].clust, fil[f].fsize, fil[f].fptr)
  BY <1>2, OwnFields
<1>6. /\ DOMAIN fil' = Names /\ (\A g \in Names : g # f => fil'[g] = fil[g])
      /\ File' = fil'[f] /\ FilType(fil'[f]) /\ fil'[f] = fil[f]
      /\ CurType(cur') /\ cur'.call = cur.call /\ cur'.left = cur.left /\ cur'.clust = cur.clust /\ cur'.new = 0
  BY <1>2, <1>3, <1>4, <1>5 DEF Becomes, Fields, Locals, File
<1>7. Quiet
  <2>1. FatSector(e) \in Sectors /\ FatSector(e) \in {FatSector(c) : c \in Clusters}
    BY SectorFacts
  <2> QED
    BY <2>1, QuietRead
<1>8. Orphan' = Orphan
  BY <1>6 DEF Orphan
<1>9. Moves(f)
  BY <1>2 DEF Moves
<1>10. PosInv(f, s)'
  BY <1>2, <1>6 DEF PosInv, Busy, Idle, Behind, Ahead, Chaining
<1>11. ProgressInv(s)'
  <2>1. ChainInv(s)'
    BY <1>1, <1>2, <1>6 DEF ChainInv, AtEdge, Chaining
  <2>2. GotInv(s)'
    <3>1. CASE s = <<>>
      BY <3>1 DEF GotInv
    <3>2. CASE s # <<>>
      <4>1. /\ Asked(f) \in 1 .. Len(s) /\ cur.clust = s[Asked(f)] /\ cur.clust \in Clusters
            /\ fat[cur.clust] = IF Asked(f) = Len(s) THEN LastLink ELSE s[Asked(f) + 1]
            /\ fil[f].fptr = (fil[f].fptr \div ClusterUnits) * ClusterUnits /\ (fil[f].fptr \div ClusterUnits) \in Nat
        BY <1>1, <3>2, AskedFacts
      <4>2. Asked(f) = Len(s)
        <5>1. fat[cur.clust] \notin Clusters
          BY <4>1, FatConstants
        <5> QED
          BY <1>2, <4>1, <5>1
      <4>3. PICK n : n = Len(s) - (IF cur.call.op = "seek" THEN 1 ELSE 0)
        OBVIOUS
      <4>4. n = fil[f].fptr \div ClusterUnits
        <5>1. PICK d : d = fil[f].fptr \div ClusterUnits
          OBVIOUS
        <5>2. d \in Nat /\ Asked(f) = d + (IF cur.call.op = "seek" THEN 1 ELSE 0)
          BY <4>1, <5>1 DEF Asked
        <5>3. CASE cur.call.op = "seek"
          BY <1>2, <4>2, <4>3, <5>1, <5>2, <5>3
        <5>4. CASE cur.call.op # "seek"
          BY <1>2, <4>2, <4>3, <5>1, <5>2, <5>4
        <5> QED
          BY <5>3, <5>4
      <4>5. n * ClusterUnits = fil[f].fptr
        BY <4>1, <4>4
      <4> QED
        BY <1>6, <4>3, <4>5 DEF GotInv
    <3> QED
      BY <3>1, <3>2
  <2> QED
    BY <1>2, <1>6, <2>1, <2>2 DEF ProgressInv, LeftInv, ReadInv, SectorInv, SeekInv, LinkInv, ReadSteps
<1>12. UNCHANGED fsiVars /\ step # "link" /\ (step' = "fill" => fil'[f].fptr > 0 \/ fil[f].written \/ dir[f].first = fil[f].sclust)
  OBVIOUS
<1>13. /\ fil'[f].open = fil[f].open /\ fil'[f].write = fil[f].write /\ fil'[f].written = fil[f].written
       /\ fil'[f].sclust = fil[f].sclust /\ fil'[f].fsize = fil[f].fsize /\ (fil'[f].dirty => fil[f].dirty)
  BY <1>6
<1> QED
  BY <1>1, <1>2, <1>6, <1>7, <1>8, <1>9, <1>10, <1>11, <1>12, <1>13, MoveStep

LEMMA OneFree ==
  ASSUME FatInv, NEW f \in Names, NEW ch \in Families, Now(f, ch),
         step = "chain", cur.clust # 0 => fat[cur.clust] \notin Clusters,
         NEW n \in Clusters, fat[n] = 0, NEW v, FatSector(n) \in v, MoveOver(v, FatSector(n)),
         fat' = [fat EXCEPT ![n] = LastLink], wflag' = TRUE, dir' = dir,
         cur' = [cur EXCEPT !.new = n], step' = "link", UNCHANGED <<fsiVars, fil, historyVars>>
  PROVE  FatInv'
<1> DEFINE s == ch[f]
           c2 == [ch EXCEPT ![Nobody] = <<n>>]
<1>1. restarts' = restarts /\ fatCalls' = fatCalls /\ step \in Chaining
  BY QuietVars DEF Chaining
<1>2. /\ cur.call.f = f /\ File = fil[f] /\ FilType(fil[f]) /\ CurType(cur) /\ ~ Idle
      /\ fil[f].fptr \in Nat /\ cur.left \in Nat /\ cur.left > 0
      /\ fil[f].open /\ fil[f].write /\ cur.call.op \in {"write", "seek"}
      /\ Len(s) \in Nat /\ (s = <<>> <=> fil[f].sclust = 0) /\ (s = <<>> <=> Len(s) = 0)
      /\ AtEdge(fil[f]) /\ ChainInv(s)
      /\ \A i \in 1 .. Len(s) : s[i] \in Clusters
      /\ IF cur.call.op = "seek" THEN s # <<>> => Ahead(fil[f], s)
         ELSE fil[f].fptr <= Len(s) * ClusterUnits /\ Behind(fil[f], s)
  BY <1>1, ChainingFacts
<1>3. Locals(cur', cur.call, cur.left, cur.clust, n)
  BY <1>2, SetCur DEF CurType, Starts
<1>4. Becomes(f, fil[f])
  BY BecomesFacts
<1>5. Fields(fil[f], fil[f].open, fil[f].write, fil[f].written, fil[f].dirty, fil[f].sclust, fil[f].clust, fil[f].fsize, fil[f].fptr)
  BY <1>2, OwnFields
<1>6. /\ DOMAIN fil' = Names /\ (\A g \in Names : g # f => fil'[g] = fil[g])
      /\ File' = fil'[f] /\ FilType(fil'[f]) /\ fil'[f] = fil[f]
      /\ CurType(cur') /\ cur'.call = cur.call /\ cur'.left = cur.left /\ cur'.clust = cur.clust /\ cur'.new = n
  BY <1>2, <1>3, <1>4, <1>5 DEF Becomes, Fields, Locals, File
<1>7. n # Root /\ n # 0 /\ TypesW /\ fat[Root] # 0 /\ fat \in Tables
  BY FatConstants DEF FatInv, WInv, TypesW
<1>8. WInv' /\ DiskStep /\ disk'.free = disk.free
  BY <1>7, WindowPut DEF FatInv
<1>9. ~ Idle' /\ step' \in Steppings /\ Orphan = 0 /\ Orphan' = n /\ Loose = 0 /\ Loose' = 1
  BY <1>2, <1>6 DEF Idle, Steppings, Orphan, Loose
<1>10. /\ DOMAIN Heads = Owners /\ DOMAIN Heads' = Owners /\ Heads[Nobody] = 0 /\ Heads'[Nobody] = n
       /\ \A o \in Names : Heads'[o] = Heads[o]
  <2>1. \A o \in Names : Lead(o)' = Lead(o)
    BY DEF Lead
  <2> QED
    BY <1>9, <2>1, HeadsFacts, HeadsNext
<1>11. Chains(fat, Heads, ch) /\ AccountInv(ch)
  BY DEF Now, FatInvOf
<1>12. c2 \in Families /\ Chains(fat', Heads', c2) /\ (Owned(fat, ch) => Owned(fat', c2))
  <2>1. NewFamily(fat, Heads, ch, n, fat', Heads', c2)
    BY <1>7, <1>10, <1>11 DEF NewFamily
  <2> HIDE DEF c2
  <2> QED
    BY <2>1, FamilyNew
<1>13. \A g \in Names : c2[g] = ch[g]
  BY HeadsFacts DEF Families
<1> HIDE DEF c2
<1>14. Cardinality(Free)' = Cardinality(Free) - 1 /\ Cardinality(Free) \in Nat
  BY <1>7, FreeLess, FreeFacts, FatConstants
<1>15. Cardinality(Free)' + Loose' = Cardinality(Free) + Loose /\ freeClust' = freeClust
  BY <1>9, <1>14 DEF fsiVars
<1>16. AccountInv(c2)'
  BY <1>1, <1>11, <1>12, <1>15 DEF AccountInv, Owned
<1>17. CountInv'
  BY <1>1, <1>8, <1>15, CountKept
<1>18. TypesC' /\ TypesN'
  BY <1>1 DEF TypesC, TypesN, fsiVars, FatInv, Types
<1>19. CallInv'
  BY <1>2, <1>6 DEF CallInv, Opening, WriteSteps, ReadSteps, SeekSteps, Chaining
<1>20. PosInv(f, s)'
  BY <1>2, <1>6 DEF PosInv, Busy, Idle, Behind, Ahead, Chaining
<1>21. FileInv(f, s)'
  <2>1. FileInv(f, s) /\ Len(s) <= Len(s) /\ TypesW
    BY <1>2, <1>7 DEF Now
  <2> QED
    BY <1>2, <1>6, <1>9, <1>20, <2>1, FileStep
<1>22. ProgressInv(s)'
  <2>1. ChainInv(s)'
    BY <1>1, <1>2, <1>6 DEF ChainInv, AtEdge, Chaining
  <2>2. fat'[n] = LastLink
    BY <1>7 DEF Tables
  <2>3. LinkInv(s)'
    <3>1. CASE s = <<>>
      BY <1>6, <1>7, <2>2, <3>1 DEF LinkInv
    <3>2. CASE s # <<>>
      <4>1. /\ Asked(f) \in 1 .. Len(s) /\ cur.clust = s[Asked(f)] /\ cur.clust \in Clusters
            /\ fat[cur.clust] = IF Asked(f) = Len(s) THEN LastLink ELSE s[Asked(f) + 1]
        BY <1>1, <3>2, AskedFacts
      <4>2. Asked(f) = Len(s)
        <5>1. fat[cur.clust] \notin Clusters
          BY <4>1, FatConstants
        <5> QED
          BY <1>2, <4>1, <5>1
      <4> QED
        BY <1>6, <1>7, <2>2, <4>1, <4>2 DEF LinkInv
    <3> QED
      BY <3>1, <3>2
  <2> QED
    BY <1>2, <1>6, <2>1, <2>3 DEF ProgressInv, LeftInv, ReadInv, SectorInv, SeekInv, GotInv, ReadSteps
<1>23. Same(f) /\ FatInvOf(ch) /\ cur'.call.f = f
  BY <1>2, <1>6 DEF Same, Now
<1>24. FileInv(f, c2[f])' /\ ProgressInv(c2[f])' /\ \A g \in Names : g # f => c2[g] = ch[g]
  BY <1>13, <1>21, <1>22
<1> QED
  BY <1>2, <1>6, <1>8, <1>9, <1>12, <1>16, <1>17, <1>18, <1>19, <1>23, <1>24, Conclude

(* It goes over all of them.                                               *)
LEMMA ScanAll ==
  ASSUME NEW scl \in 1 .. LastCluster, NEW c \in Clusters
  PROVE  \E i \in 1 .. LastCluster - 1 : Scan(scl)[i] = c
<1> DEFINE N == LastCluster - 1
           k == IF c >= scl + 1 THEN c - 1 - scl ELSE c - 1 - scl + N
<1>1. LastCluster \in Nat /\ LastCluster >= 3 /\ c \in Nat /\ c >= 2 /\ c <= LastCluster /\ scl \in Nat
  BY FatConstants
<1>2. N \in Nat /\ N > 0 /\ k \in 0 .. N - 1 /\ k + 1 \in 1 .. N /\ c - 2 \in Nat /\ c - 2 < N
  BY <1>1
<1>3. scl + (k + 1) - 2 = (IF c >= scl + 1 THEN 0 ELSE 1) * N + (c - 2) /\ scl + (k + 1) - 2 \in Nat
  BY <1>1
<1>4. ((scl + (k + 1) - 2) % N) = c - 2
  <2> HIDE DEF N, k
  <2>1. PICK p, z : p = scl + (k + 1) - 2 /\ z = IF c >= scl + 1 THEN 0 ELSE 1
    OBVIOUS
  <2>2. p \in Nat /\ z \in Nat /\ p = z * N + (c - 2)
    BY <1>3, <2>1
  <2> QED
    BY <1>2, <2>1, <2>2, DivIs
<1>5. Scan(scl)[k + 1] = ((scl + (k + 1) - 2) % N) + 2
  <2> HIDE DEF k
  <2> QED
    BY <1>2 DEF Scan
<1> HIDE DEF k
<1> QED
  BY <1>1, <1>2, <1>4, <1>5

(* None is free, or one is taken.                                          *)
NoneIsFree ==
  /\ \A c \in Clusters : fat[c] # 0
  /\ cur' = [cur EXCEPT !.new = 0] /\ step' = "got"
  /\ \E e \in Clusters : ReadOver({FatSector(c) : c \in Clusters}, FatSector(e))
Taken(n) ==
  /\ fat[n] = 0 /\ fat' = [fat EXCEPT ![n] = LastLink] /\ wflag' = TRUE /\ dir' = dir
  /\ \E v : FatSector(n) \in v /\ MoveOver(v, FatSector(n))
  /\ cur' = [cur EXCEPT !.new = n] /\ step' = "link"

LEMMA NewClusterIs ==
  ASSUME FatInv, NEW f \in Names, NEW ch \in Families, Now(f, ch), NewCluster
  PROVE  /\ step = "chain" /\ (cur.clust # 0 => fat[cur.clust] \notin Clusters)
         /\ UNCHANGED <<data, fil, historyVars>> /\ UNCHANGED fsiVars
         /\ NoneIsFree \/ \E n \in Clusters : Taken(n)
<1> DEFINE Found(o, i) ==
             /\ MoveOver({FatSector(o[j]) : j \in 1 .. i}, FatSector(o[i]))
             /\ fat' = [fat EXCEPT ![o[i]] = LastLink] /\ wflag' = TRUE
             /\ cur' = [cur EXCEPT !.new = o[i]] /\ step' = "link" /\ UNCHANGED <<dir, fsiVars>>
           FreeOf(o) == {i \in DOMAIN o : fat[o[i]] = 0}
           FirstOf1(z) == CHOOSE i \in z : \A j \in z : i <= j
<1>1. PICK order : order = Scan(ScanFrom)
  OBVIOUS
<1>2. PICK free : free = {i \in DOMAIN order : fat[order[i]] = 0}
  OBVIOUS
<1>3. /\ step = "chain" /\ (cur.clust # 0 => fat[cur.clust] \notin Clusters)
      /\ UNCHANGED <<data, fil, historyVars>>
  BY DEF NewCluster
<1>4. ScanFrom \in Int /\ ScanFrom \in 1 .. LastCluster
  <2>1. cur.clust \in Starts \cup {LastLink} /\ lastClust \in 1 .. LastCluster
    BY DEF FatInv, Types, CurType, TypesC
  <2>2. LastLink \in Int /\ \A c \in Starts : c \in Int
    BY FatConstants DEF LastLink, Starts
  <2>3. cur.clust # 0 => cur.clust \in Clusters
    <3>1. step \in Chaining /\ ChainInv(ch[f])
      BY <1>3 DEF Now, ProgressInv, Chaining
    <3>2. cur.clust # 0 => ch[f] # <<>>
      BY <3>1 DEF ChainInv
    <3> QED
      BY <3>1, <3>2, AskedFacts
  <2>4. 1 \in 1 .. LastCluster /\ \A c \in Clusters : c \in 1 .. LastCluster
    BY FatConstants DEF Clusters
  <2> QED
    BY <2>1, <2>2, <2>3, <2>4 DEF ScanFrom
<1>5. /\ DOMAIN order = 1 .. LastCluster - 1
      /\ \A i \in 1 .. LastCluster - 1 : order[i] \in Clusters
      /\ LastCluster - 1 \in 1 .. LastCluster - 1
  BY <1>1, <1>4, ScanFacts
<1>6. CASE free = {}
  <2>1. PICK e : e = order[LastCluster - 1]
    OBVIOUS
  <2>2. e \in Clusters
    BY <1>5, <2>1
  <2>3. /\ ReadOver({FatSector(c) : c \in Clusters}, FatSector(e))
        /\ cur' = [cur EXCEPT !.new = 0] /\ step' = "got" /\ UNCHANGED fsiVars
    BY <1>1, <1>2, <1>6, <2>1 DEF NewCluster, Go
  <2>4. \A c \in Clusters : fat[c] # 0
    <3> TAKE c \in Clusters
    <3>1. PICK i \in 1 .. LastCluster - 1 : order[i] = c
      BY <1>1, <1>4, ScanAll
    <3> QED
      BY <1>2, <1>5, <1>6, <3>1
  <2> QED
    BY <1>3, <2>2, <2>3, <2>4 DEF NoneIsFree
<1>7. CASE free # {}
  <2>1. PICK n : n = CHOOSE i \in free : \A j \in free : i <= j
    OBVIOUS
  <2>2. n \in free
    <3>1. free \subseteq Int /\ \E lo \in Int : \A x \in free : x >= lo
      BY <1>2, <1>5
    <3>2. \E i \in free : \A j \in free : i <= j
      <4>1. free \subseteq Nat
        BY <1>2, <1>5
      <4>2. IsWellFoundedOn(OpToRel(<, Nat), Nat)
        BY NatLessThanWellFounded
      <4>3. PICK m \in free : \A j \in free : ~ (<<j, m>> \in OpToRel(<, Nat))
        BY <1>7, <4>1, <4>2, WFMin
      <4>4. \A j \in free : ~ (j < m)
        BY <4>1, <4>3 DEF OpToRel
      <4> QED
        BY <4>1, <4>4
    <3> QED
      BY <2>1, <3>2
  <2>3. PICK c, v : c = order[n] /\ v = {FatSector(order[i]) : i \in 1 .. n}
    OBVIOUS
  <2>4. c \in Clusters /\ fat[c] = 0 /\ FatSector(c) \in v
    BY <1>2, <1>5, <2>2, <2>3
  <2>5. /\ MoveOver(v, FatSector(c)) /\ fat' = [fat EXCEPT ![c] = LastLink] /\ wflag' = TRUE
        /\ cur' = [cur EXCEPT !.new = c] /\ step' = "link" /\ dir' = dir /\ UNCHANGED fsiVars
    <3>1. FreeOf(Scan(ScanFrom)) # {} => Found(Scan(ScanFrom), FirstOf1(FreeOf(Scan(ScanFrom))))
      BY DEF NewCluster, Go
    <3>2. free = FreeOf(Scan(ScanFrom)) /\ n = FirstOf1(free)
      BY <1>1, <1>2, <2>1
    <3>3. Found(order, n)
      <4> HIDE DEF Found, FreeOf, FirstOf1
      <4> QED
        BY <1>1, <1>7, <3>1, <3>2
    <3> QED
      BY <2>3, <3>3
  <2> QED
    BY <1>3, <2>4, <2>5 DEF Taken
<1> QED
  BY <1>6, <1>7

LEMMA NewClusterKeeps ==
  ASSUME FatInv, NEW f \in Names, NEW ch \in Families, Now(f, ch), NewCluster
  PROVE  FatInv'
<1>1. /\ step = "chain" /\ (cur.clust # 0 => fat[cur.clust] \notin Clusters)
      /\ UNCHANGED <<data, fil, historyVars>> /\ UNCHANGED fsiVars
      /\ NoneIsFree \/ \E n \in Clusters : Taken(n)
  BY NewClusterIs
<1>2. CASE NoneIsFree
  BY <1>1, <1>2, NoneFree DEF NoneIsFree
<1>3. ASSUME NEW n \in Clusters, Taken(n) PROVE FatInv'
  BY <1>1, <1>3, OneFree DEF Taken
<1> QED
  BY <1>1, <1>2, <1>3

(* A cluster is taken out of the count as it is linked, or given back.     *)
LEMMA FreeMoreFacts ==
  ASSUME FatInv, NEW n \in {-1, 1}, FreeMore(n), restarts' = restarts, fatCalls' = fatCalls,
         lastClust' \in 1 .. LastCluster, disk'.free = disk.free,
         n = -1 => Loose = 1, fat' # fat => Cardinality(Free)' \in Nat,
         Cardinality(Free)' + Loose' = Cardinality(Free) + Loose + n
  PROVE  /\ CountInv' /\ TypesC' /\ TypesN'
         /\ restarts = 0 /\ freeClust = Cardinality(Free) + Loose => freeClust' = Cardinality(Free)' + Loose'
<1>1. /\ Cardinality(Free) \in Nat /\ Loose \in {0, 1} /\ Loose' \in {0, 1}
  BY FreeFacts DEF FatInv, WInv, Loose
<1>2. Cardinality(Free)' \in Nat
  <2>1. CASE fat' = fat
    BY <1>1, <2>1 DEF Free
  <2> QED
    BY <2>1
<1>3. freeClust \in Int /\ fsiFlag \in BOOLEAN /\ restarts \in Nat /\ LastCluster - 1 \in Nat
  BY FatConstants, FatAssumption DEF FatInv, Types, TypesC, TypesN
<1>4. PICK r, q : r = restarts * (LastCluster - 1) /\ q = (restarts + 1) * (LastCluster - 1)
  OBVIOUS
<1>5. r \in Nat
  BY <1>3, <1>4, SMT
<1>6. /\ freeClust >= Unknown /\ freeClust <= Cardinality(Free) + Loose + r
      /\ disk.free >= Unknown /\ disk.free <= q
  BY <1>4 DEF FatInv, CountInv
<1>7. freeClust' = IF freeClust = Unknown THEN Unknown ELSE freeClust + n
  BY DEF FreeMore
<1>8. freeClust' \in Int /\ freeClust' >= Unknown /\ freeClust' <= Cardinality(Free)' + Loose' + r
  BY <1>1, <1>2, <1>3, <1>5, <1>6, <1>7, SMT DEF Unknown
<1>9. CountInv'
  BY <1>4, <1>6, <1>8 DEF CountInv
<1>10. TypesC' /\ TypesN'
  BY <1>3, <1>8 DEF TypesC, TypesN, FreeMore, FatInv, Types
<1>11. restarts = 0 /\ freeClust = Cardinality(Free) + Loose => freeClust' = Cardinality(Free)' + Loose'
  BY <1>1, <1>2, <1>3, <1>7, SMT DEF Unknown
<1> QED
  BY <1>9, <1>10, <1>11

(* What is left of a step that links the new cluster to chain s, now t.    *)
LEMMA LinkedFacts ==
  ASSUME FatInv, NEW f \in Names, NEW ch \in Families, Now(f, ch), step = "link", step' = "got",
         UNCHANGED <<fil, dir, cur>>, NEW t, Len(t) \in Nat,
         IF ch[f] = <<>> THEN t = <<>>
         ELSE /\ Len(t) = Len(ch[f]) + 1 /\ t[Len(t)] = cur.new /\ \A i \in 1 .. Len(ch[f]) : t[i] = ch[f][i]
              /\ t # <<>>
  PROVE  /\ CallInv' /\ FileInv(f, t)' /\ ProgressInv(t)' /\ Same(f) /\ ~ Idle' /\ cur'.call.f = f
         /\ FilType(fil'[f]) /\ CurType(cur') /\ step' \in Steppings
<1> DEFINE s == ch[f]
<1>1. step \in Chaining
  BY DEF Chaining
<1>2. /\ cur.call.f = f /\ File = fil[f] /\ FilType(fil[f]) /\ CurType(cur) /\ ~ Idle
      /\ fil[f].fptr \in Nat /\ cur.left \in Nat /\ cur.left > 0
      /\ fil[f].open /\ fil[f].write /\ cur.call.op \in {"write", "seek"}
      /\ Len(s) \in Nat /\ (s = <<>> <=> fil[f].sclust = 0) /\ (s = <<>> <=> Len(s) = 0)
      /\ AtEdge(fil[f]) /\ ChainInv(s)
      /\ IsChain(fat, fil[f].sclust, s)
      /\ IF cur.call.op = "seek" THEN s # <<>> => Ahead(fil[f], s)
         ELSE fil[f].fptr <= Len(s) * ClusterUnits /\ Behind(fil[f], s)
  BY <1>1, ChainingFacts
<1>3. File' = fil[f] /\ fil' = fil /\ cur' = cur /\ dir' = dir /\ ~ Idle'
  BY <1>2 DEF File, Idle
<1>4. CallInv'
  BY <1>2, <1>3 DEF CallInv, Opening, WriteSteps, ReadSteps, SeekSteps, Chaining
<1>5. s # <<>> => /\ Asked(f) = Len(s) /\ Len(s) \in 1 .. Len(s) /\ (fil[f].fptr \div ClusterUnits) \in Nat
  <2>1. ASSUME s # <<>> PROVE Asked(f) = Len(s) /\ Len(s) \in 1 .. Len(s) /\ (fil[f].fptr \div ClusterUnits) \in Nat
    <3>1. /\ Asked(f) \in 1 .. Len(s) /\ cur.clust = s[Asked(f)] /\ (fil[f].fptr \div ClusterUnits) \in Nat
      BY <1>1, <2>1, AskedFacts
    <3>2. cur.clust = s[Len(s)]
      BY <1>2, <2>1 DEF Now, ProgressInv, LinkInv
    <3>3. Len(s) \in 1 .. Len(s)
      BY <1>2, <2>1
    <3>4. \A i, j \in 1 .. Len(s) : s[i] = s[j] => i = j
      BY <1>2 DEF IsChain
    <3>5. s[Asked(f)] = s[Len(s)]
      BY <3>1, <3>2
    <3>6. Asked(f) = Len(s)
      BY <3>1, <3>3, <3>4, <3>5
    <3> QED
      BY <3>1, <3>3, <3>6
  <2> QED
    BY <2>1
<1>6. Len(s) <= Len(t)
  BY <1>2
<1>7. PosInv(f, t)'
  <2>1. Busy(f)'
    BY <1>2, <1>3 DEF Busy
  <2>2. CASE s = <<>>
    <3>1. t = s
      BY <2>2
    <3> QED
      BY <1>2, <1>3, <2>1, <2>2, <3>1 DEF PosInv, Behind, Chaining
  <2>3. CASE s # <<>> /\ cur.call.op = "seek"
    <3>1. (fil[f].fptr \div ClusterUnits) + 1 \in 1 .. Len(s) /\ fil[f].clust = s[(fil[f].fptr \div ClusterUnits) + 1]
      BY <1>2, <1>5, <2>3 DEF Ahead, Asked
    <3>2. (fil[f].fptr \div ClusterUnits) + 1 <= Len(t) /\ fil[f].clust = t[(fil[f].fptr \div ClusterUnits) + 1]
      BY <1>2, <1>6, <2>3, <3>1
    <3> QED
      BY <1>3, <2>1, <2>3, <3>2 DEF PosInv, Ahead, Chaining
  <2>4. CASE s # <<>> /\ cur.call.op # "seek"
    <3>1. fil[f].fptr <= Len(t) * ClusterUnits
      <4>1. Len(s) * ClusterUnits <= Len(t) * ClusterUnits /\ Len(s) * ClusterUnits \in Nat /\ Len(t) * ClusterUnits \in Nat
        BY <1>2, <1>6, FatConstants, Times
      <4> QED
        BY <1>2, <2>4, <4>1
    <3>2. Behind(fil[f], t)
      <4>1. ASSUME fil[f].fptr > 0 PROVE fil[f].clust = t[((fil[f].fptr - 1) \div ClusterUnits) + 1]
        <5>1. /\ (fil[f].fptr \div ClusterUnits) \in 1 .. Len(s)
              /\ ((fil[f].fptr - 1) \div ClusterUnits) + 1 = (fil[f].fptr \div ClusterUnits)
          BY <1>2, <2>4, <4>1, Edge DEF AtEdge
        <5>2. fil[f].clust = s[((fil[f].fptr - 1) \div ClusterUnits) + 1]
          BY <1>2, <2>4, <4>1 DEF Behind
        <5> QED
          BY <2>4, <5>1, <5>2
      <4> QED
        BY <4>1 DEF Behind
    <3> QED
      BY <1>3, <2>1, <2>4, <3>1, <3>2 DEF PosInv, Behind, Chaining
  <2> QED
    BY <2>2, <2>3, <2>4
<1>8. FileInv(f, t)'
  <2>1. FileInv(f, s) /\ TypesW
    BY DEF Now, FatInv, WInv
  <2> QED
    BY <1>2, <1>3, <1>6, <1>7, <2>1, FileStep
<1>9. ChainInv(t)'
  <2>1. CASE s = <<>>
    <3>1. t = s
      BY <2>1
    <3> QED
      BY <1>1, <1>2, <1>3, <2>1, <3>1 DEF ChainInv, AtEdge, Chaining
  <2>2. CASE s # <<>>
    <3>1. cur.call.op = "write" => (fil[f].fptr \div ClusterUnits) = Len(s)
      BY <1>5, <2>2 DEF Asked
    <3>2. t[Len(s)] = s[Len(s)]
      BY <1>5, <2>2
    <3> QED
      BY <1>1, <1>2, <1>3, <2>2, <3>1, <3>2 DEF ChainInv, AtEdge, Chaining
  <2> QED
    BY <2>1, <2>2
<1>10. GotInv(t)'
  <2>1. CASE s = <<>>
    BY <2>1 DEF GotInv
  <2>2. CASE s # <<>>
    <3>1. PICK k : k = (fil[f].fptr \div ClusterUnits) + (IF cur.call.op = "seek" THEN 2 ELSE 1)
      OBVIOUS
    <3>2. k = Asked(f) + 1
      BY <1>2, <1>5, <2>2, <3>1 DEF Asked
    <3>3. k <= Len(t) /\ cur.new = t[k]
      BY <1>2, <1>5, <2>2, <3>2
    <3>4. cur.new # 0
      BY DEF Now, ProgressInv, LinkInv
    <3> QED
      BY <1>3, <3>1, <3>3, <3>4 DEF GotInv
  <2> QED
    BY <2>1, <2>2
<1>11. ProgressInv(t)'
  BY <1>2, <1>3, <1>9, <1>10 DEF ProgressInv, LeftInv, ReadInv, SectorInv, SeekInv, LinkInv, ReadSteps
<1> QED
  BY <1>2, <1>3, <1>4, <1>8, <1>11 DEF Same, Steppings, FatInv, Types, TypesF

LEMMA LinkClusterKeeps ==
  ASSUME FatInv, NEW f \in Names, NEW ch \in Families, Now(f, ch), LinkCluster
  PROVE  FatInv'
<1> DEFINE s == ch[f]
<1>1. /\ step = "link" /\ step' = "got" /\ UNCHANGED <<fil, cur>> /\ lastClust' = cur.new /\ FreeMore(-1)
      /\ restarts' = restarts /\ fatCalls' = fatCalls /\ step \in Chaining
  BY QuietVars DEF LinkCluster, Go, Chaining
<1>2. /\ cur.call.f = f /\ File = fil[f] /\ FilType(fil[f]) /\ CurType(cur) /\ ~ Idle
      /\ fil[f].open
      /\ Len(s) \in Nat /\ (s = <<>> <=> fil[f].sclust = 0) /\ (s = <<>> <=> Len(s) = 0)
      /\ \A i \in 1 .. Len(s) : s[i] \in Clusters
      /\ s = <<>> <=> cur.clust = 0
  <2>1. ChainInv(s)
    BY <1>1, ChainingFacts
  <2> QED
    BY <1>1, <2>1, ChainingFacts DEF ChainInv
<1>3. PICK n : n = cur.new
  OBVIOUS
<1>4. n \in Clusters /\ fat[n] = LastLink /\ (s # <<>> => cur.clust = s[Len(s)])
  BY <1>1, <1>2, <1>3 DEF Now, ProgressInv, LinkInv, CurType, Starts
<1>5. Orphan = n /\ Loose = 1 /\ Loose' = 0
  BY <1>1, <1>3 DEF Orphan, Loose
<1>6. Chains(fat, Heads, ch) /\ AccountInv(ch) /\ FatInvOf(ch)
  BY DEF Now, FatInvOf
<1>7. lastClust' \in 1 .. LastCluster /\ TypesW /\ fat[Root] # 0 /\ fat \in Tables
  BY <1>1, <1>3, <1>4, FatConstants DEF FatInv, WInv, TypesW
<1>8. \A o \in Names : Lead(o)' = Lead(o)
  <2>1. dir' = dir
    <3>1. CASE cur.clust = 0
      BY <1>1, <3>1 DEF LinkCluster, windowVars
    <3>2. CASE cur.clust # 0
      BY <1>1, <3>2 DEF LinkCluster, put_fat
    <3> QED
      BY <3>1, <3>2
  <2> QED
    BY <1>1, <2>1 DEF Lead
<1>9. CASE cur.clust = 0
  <2>1. UNCHANGED windowVars /\ s = <<>>
    BY <1>2, <1>9 DEF LinkCluster
  <2>2. fat' = fat /\ dir' = dir /\ WInv' /\ DiskStep /\ disk'.free = disk.free
    <3>1. Quiet
      BY <1>1, <2>1, QuietSame
    <3> QED
      BY <3>1 DEF Quiet
  <2>3. Orphan' = n
    BY <1>1, <1>2, <1>3, <2>1 DEF Orphan, File
  <2>4. Heads' = Heads
    BY <1>5, <1>8, <2>3 DEF Heads, FirstOf, Lead
  <2>5. Chains(fat', Heads', ch)
    BY <1>6, <2>2, <2>4
  <2>6. Cardinality(Free)' = Cardinality(Free) /\ Cardinality(Free) \in Nat
    BY <1>7, <2>2, FreeFacts DEF Free
  <2>7. Cardinality(Free)' + Loose' = Cardinality(Free) + Loose + (-1)
    BY <1>5, <2>6
  <2>8. /\ CountInv' /\ TypesC' /\ TypesN'
        /\ restarts = 0 /\ freeClust = Cardinality(Free) + Loose => freeClust' = Cardinality(Free)' + Loose'
    BY <1>1, <1>5, <1>7, <2>2, <2>7, FreeMoreFacts
  <2>9. AccountInv(ch)'
    BY <1>1, <1>6, <2>2, <2>8 DEF AccountInv, Owned
  <2>10. /\ CallInv' /\ FileInv(f, s)' /\ ProgressInv(s)' /\ Same(f) /\ ~ Idle' /\ cur'.call.f = f
         /\ FilType(fil'[f]) /\ CurType(cur') /\ step' \in Steppings
    BY <1>1, <1>2, <2>1, <2>2, LinkedFacts
  <2> QED
    BY <1>2, <1>6, <2>2, <2>5, <2>8, <2>9, <2>10, Conclude
<1>10. CASE cur.clust # 0
  <2> DEFINE c2 == [ch EXCEPT ![f] = Append(ch[f], n), ![Nobody] = <<>>]
             t == Append(s, n)
  <2>1. s # <<>> /\ cur.clust = s[Len(s)] /\ s[Len(s)] \in Clusters /\ put_fat(s[Len(s)], n)
    <3>1. s # <<>> /\ cur.clust = s[Len(s)]
      BY <1>2, <1>4, <1>10
    <3>2. Len(s) \in 1 .. Len(s)
      BY <1>2, <3>1
    <3> QED
      BY <1>2, <1>3, <1>10, <3>1, <3>2 DEF LinkCluster
  <2>2. PICK e : e = s[Len(s)]
    OBVIOUS
  <2>3. /\ MoveOver({FatSector(e)}, FatSector(e)) /\ fat' = [fat EXCEPT ![e] = n] /\ wflag' = TRUE /\ dir' = dir
    BY <2>1, <2>2 DEF put_fat
  <2>4. WInv' /\ DiskStep /\ disk'.free = disk.free
    <3>1. n # 0 /\ n \in {0} \cup Clusters \cup {LastLink} /\ e \in Clusters /\ FatSector(e) \in {FatSector(e)}
      BY <1>4, <2>1, <2>2, FatConstants
    <3> QED
      BY <1>1, <2>3, <3>1, WindowPut DEF FatInv
  <2>5. Orphan' = 0
    BY <1>1, <1>2, <2>1 DEF Orphan, File
  <2>6. /\ DOMAIN Heads = Owners /\ DOMAIN Heads' = Owners /\ Heads[Nobody] = n /\ Heads'[Nobody] = 0
        /\ \A o \in Names : Heads'[o] = Heads[o]
    BY <1>5, <1>8, <2>5, HeadsFacts, HeadsNext
  <2>7. Heads[f] # 0
    BY <1>2, <2>1, HeadsFacts DEF Lead
  <2>8. LinkFamily(fat, Heads, ch, f, n, fat', Heads', c2)
    BY <1>4, <1>6, <1>7, <2>2, <2>3, <2>6, <2>7 DEF LinkFamily
  <2>9. c2 \in Families /\ Chains(fat', Heads', c2) /\ (Owned(fat, ch) => Owned(fat', c2)) /\ c2[f] = t
    <3> HIDE DEF c2
    <3> QED
      BY <2>8, FamilyLink
  <2>10. \A g \in Names : g # f => c2[g] = ch[g]
    BY HeadsFacts DEF Families
  <2> HIDE DEF c2
  <2>11. Free' = Free
    <3>1. fat[e] # 0
      <4>1. Len(s) \in 1 .. Len(s)
        BY <1>2, <2>1
      <4>2. \A i \in 1 .. Len(ch[f]) : ch[f][i] \in Clusters /\ ch[f][i] # Root /\ fat[ch[f][i]] # 0
        BY <1>6, FileFacts
      <4> QED
        BY <2>2, <4>1, <4>2
    <3>2. e \in Clusters /\ n # 0
      BY <1>4, <2>1, <2>2, FatConstants
    <3>3. \A x \in Clusters : fat'[x] = 0 <=> fat[x] = 0
      BY <1>7, <2>3, <3>1, <3>2 DEF Tables
    <3> QED
      BY <3>3 DEF Free
  <2>12. Cardinality(Free)' = Cardinality(Free) /\ Cardinality(Free) \in Nat
    BY <1>7, <2>11, FreeFacts
  <2>13. Cardinality(Free)' + Loose' = Cardinality(Free) + Loose + (-1)
    BY <1>5, <2>12
  <2>14. /\ CountInv' /\ TypesC' /\ TypesN'
         /\ restarts = 0 /\ freeClust = Cardinality(Free) + Loose => freeClust' = Cardinality(Free)' + Loose'
    BY <1>1, <1>5, <1>7, <2>4, <2>12, <2>13, FreeMoreFacts
  <2>15. AccountInv(c2)'
    BY <1>1, <1>6, <2>9, <2>14 DEF AccountInv, Owned
  <2>16. /\ Len(t) = Len(s) + 1 /\ t[Len(t)] = n /\ (\A i \in 1 .. Len(s) : t[i] = s[i]) /\ Len(t) \in Nat /\ t # <<>>
    <3>1. s \in Seq(Clusters)
      BY <1>6, FileFacts
    <3>2. t \in Seq(Clusters) /\ Len(t) = Len(s) + 1 /\ t[Len(s) + 1] = n /\ \A i \in 1 .. Len(s) : t[i] = s[i]
      BY <1>4, <3>1, AppendProperties
    <3> QED
      BY <1>2, <3>2, EmptySeq
  <2> HIDE DEF t
  <2>17. /\ CallInv' /\ FileInv(f, t)' /\ ProgressInv(t)' /\ Same(f) /\ ~ Idle' /\ cur'.call.f = f
         /\ FilType(fil'[f]) /\ CurType(cur') /\ step' \in Steppings
    BY <1>1, <1>3, <2>1, <2>3, <2>16, LinkedFacts
  <2>18. FileInv(f, c2[f])' /\ ProgressInv(c2[f])'
    BY <2>9, <2>17
  <2> QED
    BY <1>2, <1>6, <2>4, <2>9, <2>10, <2>14, <2>15, <2>17, <2>18, Conclude
<1> QED
  BY <1>9, <1>10

-----------------------------------------------------------------------------
(* f_read().                                                               *)

(* What holds in f_read().                                                 *)
LEMMA ReadingFacts ==
  ASSUME FatInv, NEW f \in Names, NEW ch \in Families, Now(f, ch), step \in ReadSteps
  PROVE  /\ cur.call.f = f /\ File = fil[f] /\ FilType(fil[f]) /\ CurType(cur) /\ ~ Idle
         /\ fil[f].fptr \in Nat /\ cur.left \in Nat /\ fil[f].fsize \in Nat
         /\ fil[f].open /\ cur.call.op = "read"
         /\ Len(ch[f]) \in Nat /\ (ch[f] = <<>> <=> fil[f].sclust = 0) /\ (ch[f] = <<>> <=> Len(ch[f]) = 0)
         /\ ch[f] # <<>> => fil[f].sclust = ch[f][1]
         /\ \A i \in 1 .. Len(ch[f]) : ch[f][i] \in Clusters
         /\ IsChain(fat, fil[f].sclust, ch[f])
         /\ fil[f].fptr + cur.left <= fil[f].fsize /\ fil[f].fsize <= Len(ch[f]) * ClusterUnits
         /\ IF step = "read" THEN fil[f].fptr <= Len(ch[f]) * ClusterUnits /\ Behind(fil[f], ch[f])
            ELSE Ahead(fil[f], ch[f])
<1>1. /\ cur.call.f = f /\ File = fil[f] /\ FilType(fil[f]) /\ CurType(cur) /\ ~ Idle
      /\ fil[f].fptr \in Nat /\ cur.left \in Nat /\ fil[f].fsize \in Nat
  BY DEF Now, FilType, CurType
<1>2. fil[f].open /\ cur.call.op = "read"
  BY <1>1 DEF FatInv, CallInv
<1>3. PosInv(f, ch[f]) /\ fil[f].fsize <= Len(ch[f]) * ClusterUnits
  BY <1>2 DEF Now, FileInv, PlaceInv, RoomInv
<1>4. IF step = "read" THEN fil[f].fptr <= Len(ch[f]) * ClusterUnits /\ Behind(fil[f], ch[f])
      ELSE Ahead(fil[f], ch[f])
  BY <1>1, <1>2, <1>3 DEF PosInv, Busy, ReadSteps, Chaining
<1>5. fil[f].fptr + cur.left <= fil[f].fsize
  BY <1>1 DEF Now, ProgressInv, ReadInv
<1> QED
  BY <1>1, <1>2, <1>3, <1>4, <1>5 DEF Now, Lead

LEMMA ReadChunkKeeps ==
  ASSUME FatInv, NEW f \in Names, NEW ch \in Families, Now(f, ch), ReadChunk
  PROVE  FatInv'
<1> DEFINE s == ch[f]
<1>1. /\ step = "read" /\ cur.left > 0 /\ AtSector /\ step' = "fetch" /\ cur' = cur
      /\ UNCHANGED <<data, fsiVars, historyVars>> /\ restarts' = restarts /\ fatCalls' = fatCalls /\ step \in ReadSteps
  BY QuietVars DEF ReadChunk, Go, ReadSteps
<1>2. /\ cur.call.f = f /\ File = fil[f] /\ FilType(fil[f]) /\ CurType(cur) /\ ~ Idle
      /\ fil[f].fptr \in Nat /\ cur.left \in Nat /\ fil[f].fsize \in Nat
      /\ fil[f].open /\ cur.call.op = "read"
      /\ Len(s) \in Nat /\ (s = <<>> <=> fil[f].sclust = 0) /\ (s = <<>> <=> Len(s) = 0)
      /\ s # <<>> => fil[f].sclust = s[1]
      /\ \A i \in 1 .. Len(s) : s[i] \in Clusters
      /\ IsChain(fat, fil[f].sclust, s)
      /\ fil[f].fptr + cur.left <= fil[f].fsize /\ fil[f].fsize <= Len(s) * ClusterUnits
      /\ fil[f].fptr <= Len(s) * ClusterUnits /\ Behind(fil[f], s)
  BY <1>1, ReadingFacts
<1>3. AtCluster <=> AtEdge(fil[f])
  BY <1>1, <1>2, ChunkFacts
<1>4. fil[f].fptr < Len(s) * ClusterUnits /\ Len(s) * ClusterUnits \in Nat
  BY <1>1, <1>2, FatConstants, Times
<1>5. Len(s) # 0 /\ s # <<>>
  <2>1. Len(s) = 0 => Len(s) * ClusterUnits = 0
    BY FatConstants, SMT
  <2> QED
    BY <1>2, <1>4, <2>1
<1>6. \E c \in Starts : /\ SetFile([fil[f] EXCEPT !.clust = c])
                        /\ (fil[f].fptr \div ClusterUnits) + 1 <= Len(s) /\ c = s[(fil[f].fptr \div ClusterUnits) + 1]
                        /\ Quiet
  <2>1. CASE AtCluster /\ File.fptr # 0
    <3>1. get_fat(fil[f].clust) /\ SetFile([fil[f] EXCEPT !.clust = fat[fil[f].clust]])
      BY <1>2, <2>1 DEF ReadChunk
    <3>2. PICK i : i = fil[f].fptr \div ClusterUnits
      OBVIOUS
    <3>3. i \in 1 .. Len(s) /\ fil[f].clust = s[i]
      BY <1>2, <1>3, <2>1, <3>2, AtEnd
    <3>4. i + 1 <= Len(s)
      BY <1>2, <1>3, <1>4, <2>1, <3>2, MoreClusters DEF AtEdge
    <3>5. fat[s[i]] = s[i + 1] /\ i + 1 \in 1 .. Len(s)
      BY <1>2, <3>3, <3>4 DEF IsChain
    <3>6. s[i + 1] \in Starts /\ fil[f].clust \in Clusters
      BY <1>2, <3>3, <3>5 DEF Starts
    <3>7. Quiet
      BY <1>1, <3>1, <3>6, QuietGet
    <3> QED
      BY <3>1, <3>2, <3>3, <3>4, <3>5, <3>6, <3>7
  <2>2. CASE ~ (AtCluster /\ File.fptr # 0)
    <3>1. /\ SetFile([fil[f] EXCEPT !.clust = IF AtCluster THEN fil[f].sclust ELSE fil[f].clust])
          /\ UNCHANGED windowVars
      BY <1>2, <2>2 DEF ReadChunk
    <3>2. Quiet
      BY <1>1, <3>1, QuietSame
    <3>3. CASE AtCluster
      <4>1. (fil[f].fptr \div ClusterUnits) = 0
        BY <1>2, <2>2, <3>3, FatConstants, SMT
      <4>2. SetFile([fil[f] EXCEPT !.clust = fil[f].sclust]) /\ fil[f].sclust \in Starts
        BY <1>2, <3>1, <3>3 DEF FilType
      <4> QED
        BY <1>2, <1>5, <3>2, <4>1, <4>2
    <3>4. CASE ~ AtCluster
      <4>1. Ahead(fil[f], s)
        BY <1>2, <1>3, <3>4, Within
      <4>2. SetFile([fil[f] EXCEPT !.clust = fil[f].clust]) /\ fil[f].clust \in Starts
        BY <1>2, <3>1, <3>4 DEF FilType
      <4> QED
        BY <3>2, <4>1, <4>2 DEF Ahead
    <3> QED
      BY <3>3, <3>4
  <2> QED
    BY <2>1, <2>2
<1>7. PICK c \in Starts : /\ SetFile([fil[f] EXCEPT !.clust = c])
                          /\ (fil[f].fptr \div ClusterUnits) + 1 <= Len(s) /\ c = s[(fil[f].fptr \div ClusterUnits) + 1]
                          /\ Quiet
  BY <1>6
<1>8. PICK h : h = [fil[f] EXCEPT !.clust = c]
  OBVIOUS
<1>9. Becomes(f, h)
  BY <1>2, <1>7, <1>8, BecomesFacts
<1>10. Fields(h, fil[f].open, fil[f].write, fil[f].written, fil[f].dirty, fil[f].sclust, c, fil[f].fsize, fil[f].fptr)
  BY <1>2, <1>8, SetClust DEF FilType
<1>11. /\ DOMAIN fil' = Names /\ (\A g \in Names : g # f => fil'[g] = fil[g])
       /\ File' = fil'[f] /\ FilType(fil'[f]) /\ fil'[f].open = fil[f].open /\ fil'[f].write = fil[f].write
       /\ fil'[f].written = fil[f].written /\ fil'[f].dirty = fil[f].dirty /\ fil'[f].sclust = fil[f].sclust
       /\ fil'[f].clust = c /\ fil'[f].fsize = fil[f].fsize /\ fil'[f].fptr = fil[f].fptr
  BY <1>1, <1>2, <1>9, <1>10 DEF Becomes, Fields, File
<1>12. Orphan' = Orphan
  BY <1>1 DEF Orphan
<1>13. Moves(f)
  BY <1>1, <1>2 DEF Moves, ReadSteps
<1>14. Ahead(fil'[f], s)
  BY <1>7, <1>11 DEF Ahead
<1>15. PosInv(f, s)'
  BY <1>1, <1>2, <1>14 DEF PosInv, Busy, Idle, Ahead
<1>16. AtSector' /\ ReadInv'
  BY <1>1, <1>2, <1>11 DEF AtSector, ReadInv
<1>17. ProgressInv(s)'
  BY <1>1, <1>16 DEF ProgressInv, LeftInv, SectorInv, SeekInv, LinkInv, GotInv, ChainInv, Chaining
<1>18. fil'[f].fptr <= fil[f].fsize
  BY <1>2, <1>11
<1> QED
  BY <1>1, <1>2, <1>7, <1>11, <1>12, <1>13, <1>15, <1>17, <1>18, MoveStep

(* Units are given to the program, from the sectors or from the buffer.    *)
LEMMA ReadAway ==
  ASSUME FatInv, NEW f \in Names, NEW ch \in Families, Now(f, ch), step \in ReadSteps,
         Ahead(fil[f], ch[f]), NEW k \in Nat, k > 0, k <= cur.left,
         (fil[f].fptr % ClusterUnits) + k <= ClusterUnits,
         SetFile([fil[f] EXCEPT !.fptr = fil[f].fptr + k]),
         NEW ou, cur' = [cur EXCEPT !.left = cur.left - k, !.out = ou], step' = "read",
         UNCHANGED <<windowVars, fsiVars, historyVars>>
  PROVE  FatInv'
<1> DEFINE s == ch[f]
<1>1. restarts' = restarts /\ fatCalls' = fatCalls
  BY QuietVars
<1>2. /\ cur.call.f = f /\ File = fil[f] /\ FilType(fil[f]) /\ CurType(cur) /\ ~ Idle
      /\ fil[f].fptr \in Nat /\ cur.left \in Nat /\ fil[f].fsize \in Nat
      /\ fil[f].open /\ cur.call.op = "read"
      /\ Len(s) \in Nat
      /\ fil[f].fptr + cur.left <= fil[f].fsize
  BY ReadingFacts
<1>3. PICK h, p, l : h = [fil[f] EXCEPT !.fptr = p] /\ p = fil[f].fptr + k /\ l = cur.left - k
  OBVIOUS
<1>4. p \in Nat /\ l \in Nat /\ p + l <= fil[f].fsize /\ p <= fil[f].fsize
  BY <1>2, <1>3
<1>5. Becomes(f, h)
  BY <1>2, <1>3, BecomesFacts
<1>6. Fields(h, fil[f].open, fil[f].write, fil[f].written, fil[f].dirty, fil[f].sclust, fil[f].clust, fil[f].fsize, p)
  BY <1>2, <1>3, <1>4, SetPlace DEF FilType
<1>7. Locals(cur', cur.call, l, cur.clust, cur.new)
  BY <1>2, <1>3, <1>4, SetCur DEF CurType
<1>8. /\ DOMAIN fil' = Names /\ (\A g \in Names : g # f => fil'[g] = fil[g])
      /\ File' = fil'[f] /\ FilType(fil'[f]) /\ fil'[f].open = fil[f].open /\ fil'[f].write = fil[f].write
      /\ fil'[f].written = fil[f].written /\ fil'[f].dirty = fil[f].dirty /\ fil'[f].sclust = fil[f].sclust
      /\ fil'[f].clust = fil[f].clust /\ fil'[f].fsize = fil[f].fsize /\ fil'[f].fptr = p
      /\ CurType(cur') /\ cur'.call = cur.call /\ cur'.left = l
  BY <1>2, <1>5, <1>6, <1>7 DEF Becomes, Fields, Locals, File
<1>9. Quiet
  BY QuietSame
<1>10. step \notin {"link", "got", "remove", "replace"} /\ Orphan' = Orphan
  BY DEF Orphan, ReadSteps
<1>11. Moves(f)
  BY <1>2 DEF Moves, ReadSteps
<1>12. fil'[f].fptr <= Len(s) * ClusterUnits /\ Behind(fil'[f], s)
  BY <1>2, <1>3, <1>8, Onward
<1>13. PosInv(f, s)'
  BY <1>12 DEF PosInv, Behind, Chaining
<1>14. ReadInv'
  BY <1>4, <1>8 DEF ReadInv
<1>15. ProgressInv(s)'
  BY <1>14 DEF ProgressInv, LeftInv, SectorInv, SeekInv, LinkInv, GotInv, ChainInv, Chaining
<1> QED
  BY <1>1, <1>2, <1>4, <1>8, <1>9, <1>10, <1>11, <1>13, <1>15, MoveStep

(* The buffer is written back, or filled.                                  *)
LEMMA ReadBuffer ==
  ASSUME FatInv, NEW f \in Names, NEW ch \in Families, Now(f, ch), step = "fetch", step' \in {"fetch", "pick"}, cur' = cur,
         NEW h, SetFile(h), NEW di \in {FALSE, fil[f].dirty},
         Fields(h, fil[f].open, fil[f].write, fil[f].written, di, fil[f].sclust, fil[f].clust, fil[f].fsize, fil[f].fptr),
         UNCHANGED <<windowVars, fsiVars, historyVars>>
  PROVE  FatInv'
<1> DEFINE s == ch[f]
<1>1. restarts' = restarts /\ fatCalls' = fatCalls /\ step \in ReadSteps
  BY QuietVars DEF ReadSteps
<1>2. /\ cur.call.f = f /\ File = fil[f] /\ FilType(fil[f]) /\ CurType(cur) /\ ~ Idle
      /\ fil[f].fptr \in Nat /\ cur.left \in Nat /\ fil[f].fsize \in Nat
      /\ fil[f].open /\ cur.call.op = "read"
      /\ Len(s) \in Nat
      /\ fil[f].fptr + cur.left <= fil[f].fsize /\ Ahead(fil[f], s)
  BY <1>1, ReadingFacts
<1>3. cur.left > 0 /\ AtSector
  BY DEF Now, ProgressInv, LeftInv, SectorInv
<1>4. Becomes(f, h)
  BY <1>2, BecomesFacts
<1>5. /\ DOMAIN fil' = Names /\ (\A g \in Names : g # f => fil'[g] = fil[g])
      /\ File' = fil'[f] /\ FilType(fil'[f]) /\ fil'[f].open = fil[f].open /\ fil'[f].write = fil[f].write
      /\ fil'[f].written = fil[f].written /\ fil'[f].dirty = di /\ fil'[f].sclust = fil[f].sclust
      /\ fil'[f].clust = fil[f].clust /\ fil'[f].fsize = fil[f].fsize /\ fil'[f].fptr = fil[f].fptr
  BY <1>2, <1>4 DEF Becomes, Fields, File
<1>6. Quiet
  BY QuietSame
<1>7. Orphan' = Orphan
  BY DEF Orphan
<1>8. Moves(f)
  BY <1>2 DEF Moves, ReadSteps
<1>9. PosInv(f, s)'
  BY <1>2, <1>5 DEF PosInv, Busy, Idle, Ahead
<1>10. AtSector' /\ ReadInv'
  BY <1>2, <1>3, <1>5 DEF AtSector, ReadInv
<1>11. ProgressInv(s)'
  BY <1>3, <1>10 DEF ProgressInv, LeftInv, SectorInv, SeekInv, LinkInv, GotInv, ChainInv, Chaining
<1>12. (fil'[f].dirty => fil[f].dirty) /\ step # "link" /\ step' # "fill"
  BY <1>5, Zenon
<1>13. fil'[f].fptr <= fil[f].fsize
  BY <1>2, <1>5
<1> QED
  BY <1>1, <1>2, <1>5, <1>6, <1>7, <1>8, <1>9, <1>11, <1>12, <1>13, MoveStep

LEMMA ReadFetchKeeps ==
  ASSUME FatInv, NEW f \in Names, NEW ch \in Families, Now(f, ch), ReadFetch
  PROVE  FatInv'
<1> DEFINE s == ch[f]
<1>1. /\ step = "fetch" /\ UNCHANGED <<windowVars, fsiVars, historyVars>> /\ step \in ReadSteps
  BY DEF ReadFetch, ReadSteps
<1>2. /\ cur.call.f = f /\ File = fil[f] /\ FilType(fil[f]) /\ CurType(cur)
      /\ fil[f].fptr \in Nat /\ cur.left \in Nat
      /\ Ahead(fil[f], s)
  BY <1>1, ReadingFacts
<1>3. cur.left > 0 /\ AtSector
  BY <1>1 DEF Now, ProgressInv, LeftInv, SectorInv
<1>4. CASE /\ Whole > 0
           /\ \E ou : cur' = [cur EXCEPT !.left = @ - Whole * SectorSize, !.out = ou]
           /\ SetFile([File EXCEPT !.fptr = @ + Whole * SectorSize]) /\ step' = "read"
  <2>1. PICK k : k = Whole * SectorSize
    OBVIOUS
  <2>2. PICK ou : cur' = [cur EXCEPT !.left = cur.left - k, !.out = ou]
    BY <1>4, <2>1
  <2>3. k \in Nat /\ k > 0 /\ k <= cur.left /\ (fil[f].fptr % ClusterUnits) + k <= ClusterUnits
    BY <1>2, <1>3, <1>4, <2>1, ChunkFacts
  <2>4. SetFile([fil[f] EXCEPT !.fptr = fil[f].fptr + k]) /\ step' = "read"
    BY <1>2, <1>4, <2>1
  <2> QED
    BY <1>1, <1>2, <2>2, <2>3, <2>4, ReadAway
<1>5. CASE WriteBack /\ UNCHANGED callVars
  <2>1. SetFile([fil[f] EXCEPT !.dirty = FALSE]) /\ step' = step /\ cur' = cur
    BY <1>2, <1>5 DEF WriteBack, callVars
  <2>2. PICK h : h = [fil[f] EXCEPT !.dirty = FALSE]
    OBVIOUS
  <2>3. Fields(h, fil[f].open, fil[f].write, fil[f].written, FALSE, fil[f].sclust, fil[f].clust, fil[f].fsize, fil[f].fptr)
    BY <1>2, <2>2, SetClean
  <2>4. SetFile(h) /\ FALSE \in {FALSE, fil[f].dirty} /\ step' \in {"fetch", "pick"}
    BY <1>1, <2>1, <2>2
  <2> QED
    BY <1>1, <2>1, <2>3, <2>4, ReadBuffer
<1>6. CASE \E ds, bf : SetFile([File EXCEPT !.dsect = ds, !.buf = bf]) /\ cur' = cur /\ step' = "pick"
  <2>1. PICK ds, bf : SetFile([fil[f] EXCEPT !.dsect = ds, !.buf = bf]) /\ cur' = cur /\ step' = "pick"
    BY <1>2, <1>6
  <2>2. PICK h : h = [fil[f] EXCEPT !.dsect = ds, !.buf = bf]
    OBVIOUS
  <2>3. Fields(h, fil[f].open, fil[f].write, fil[f].written, fil[f].dirty, fil[f].sclust, fil[f].clust, fil[f].fsize, fil[f].fptr)
    BY <1>2, <2>2, SetClean
  <2>4. SetFile(h) /\ fil[f].dirty \in {FALSE, fil[f].dirty} /\ step' \in {"fetch", "pick"}
    BY <2>1, <2>2
  <2> QED
    BY <1>1, <2>1, <2>3, <2>4, ReadBuffer
<1> QED
  BY <1>4, <1>5, <1>6 DEF ReadFetch, Go

LEMMA ReadPickKeeps ==
  ASSUME FatInv, NEW f \in Names, NEW ch \in Families, Now(f, ch), ReadPick
  PROVE  FatInv'
<1> DEFINE s == ch[f]
<1>1. /\ step = "pick" \/ (step = "read" /\ cur.left > 0 /\ ~ AtSector)
      /\ UNCHANGED <<windowVars, fsiVars, historyVars>> /\ step \in ReadSteps /\ step' = "read"
  BY DEF ReadPick, ReadSteps, Go
<1>2. /\ cur.call.f = f /\ File = fil[f] /\ FilType(fil[f]) /\ CurType(cur)
      /\ fil[f].fptr \in Nat /\ cur.left \in Nat /\ Len(s) \in Nat
      /\ IF step = "read" THEN fil[f].fptr <= Len(s) * ClusterUnits /\ Behind(fil[f], s) ELSE Ahead(fil[f], s)
  BY <1>1, ReadingFacts
<1>3. cur.left > 0
  BY <1>1 DEF Now, ProgressInv, LeftInv
<1>4. PICK k : k = Partial
  OBVIOUS
<1>5. /\ k \in Nat /\ k > 0 /\ k <= cur.left /\ (fil[f].fptr % ClusterUnits) + k <= ClusterUnits
      /\ ~ AtSector => ~ AtEdge(fil[f])
  BY <1>2, <1>3, <1>4, ChunkFacts
<1>6. Ahead(fil[f], s)
  <2>1. CASE step = "pick"
    BY <1>2, <2>1
  <2>2. CASE step = "read" /\ ~ AtSector
    BY <1>2, <1>5, <2>2, Within
  <2> QED
    BY <1>1, <2>1, <2>2
<1>7. SetFile([fil[f] EXCEPT !.fptr = fil[f].fptr + k])
  BY <1>2, <1>4 DEF ReadPick
<1>8. \E ou : cur' = [cur EXCEPT !.left = cur.left - k, !.out = ou]
  BY <1>4 DEF ReadPick
<1>9. PICK ou : cur' = [cur EXCEPT !.left = cur.left - k, !.out = ou]
  BY <1>8
<1> QED
  BY <1>1, <1>5, <1>6, <1>7, <1>9, ReadAway

(* A call that only read ends.                                             *)
LEMMA EndSame ==
  ASSUME FatInv, NEW f \in Names, NEW ch \in Families, Now(f, ch), Quiet, EndCall, UNCHANGED <<fsiVars, fil>>,
         cur.call.op \notin {"write", "seek"},
         step \notin {"link", "got", "remove", "replace", "store", "fit", "fetch", "pick", "follow"}
  PROVE  FatInv'
<1>1. ~ Idle /\ cur.call.f = f /\ FilType(fil[f]) /\ FileInv(f, ch[f])
  BY DEF Now
<1>2. Becomes(f, fil[f])
  BY BecomesFacts
<1>3. dir' = dir /\ ~ Busy(f)' /\ fil'[f] = fil[f]
  BY DEF Quiet, Busy, Idle, EndCall, Go
<1>4. FileInv(f, ch[f])'
  <2>1. UnusedInv(f)' /\ DirtyInv(f)'
    BY <1>1, <1>3 DEF FileInv, UnusedInv, DirtyInv
  <2>2. RoomInv(f, ch[f])'
    BY <1>1, <1>3 DEF FileInv, RoomInv
  <2>3. PlaceInv(f, ch[f])'
    BY <1>1, <1>3 DEF FileInv, PlaceInv, PosInv, Behind, Chaining
  <2>4. EntryInv(f)'
    BY <1>1, <1>3 DEF FileInv, EntryInv
  <2> QED
    BY <2>1, <2>2, <2>3, <2>4 DEF FileInv
<1>5. step \notin {"link", "got", "remove", "replace"} /\ UNCHANGED fsiVars
  OBVIOUS
<1> QED
  BY <1>1, <1>2, <1>4, <1>5, EndStep

LEMMA ReadKeeps ==
  ASSUME FatInv, NEW f \in Names, NEW ch \in Families, Now(f, ch), f_read
  PROVE  FatInv'
<1>1. step = "read" /\ EndCall /\ UNCHANGED <<windowVars, data, fsiVars, fil, kept>> /\ step \in ReadSteps /\ step' = "rest"
  BY DEF f_read, ReadSteps, EndCall, Go
<1>2. cur.call.op = "read"
  BY <1>1, ReadingFacts
<1>3. Quiet
  BY <1>1, QuietSame
<1> QED
  BY <1>1, <1>2, <1>3, EndSame

-----------------------------------------------------------------------------
(* f_lseek().                                                              *)

(* What holds in f_lseek().                                                *)
LEMMA SeekingFacts ==
  ASSUME FatInv, NEW f \in Names, NEW ch \in Families, Now(f, ch), step \in SeekSteps
  PROVE  /\ cur.call.f = f /\ File = fil[f] /\ FilType(fil[f]) /\ CurType(cur) /\ ~ Idle
         /\ fil[f].fptr \in Nat /\ cur.left \in Nat /\ fil[f].fsize \in Nat
         /\ fil[f].open /\ cur.call.op = "seek" /\ step \notin {"link", "got", "remove", "replace"}
         /\ Len(ch[f]) \in Nat /\ (ch[f] = <<>> <=> fil[f].sclust = 0) /\ (ch[f] = <<>> <=> Len(ch[f]) = 0)
         /\ ch[f] # <<>> => fil[f].sclust = ch[f][1]
         /\ \A i \in 1 .. Len(ch[f]) : ch[f][i] \in Clusters
         /\ IsChain(fat, fil[f].sclust, ch[f])
         /\ fil[f].fsize <= Len(ch[f]) * ClusterUnits
         /\ IF step = "follow" THEN Ahead(fil[f], ch[f])
            ELSE fil[f].fptr <= Len(ch[f]) * ClusterUnits /\ Behind(fil[f], ch[f])
<1>1. /\ cur.call.f = f /\ File = fil[f] /\ FilType(fil[f]) /\ CurType(cur) /\ ~ Idle
      /\ fil[f].fptr \in Nat /\ cur.left \in Nat /\ fil[f].fsize \in Nat
  BY DEF Now, FilType, CurType
<1>2. fil[f].open /\ cur.call.op = "seek"
  BY <1>1 DEF FatInv, CallInv
<1>3. PosInv(f, ch[f]) /\ fil[f].fsize <= Len(ch[f]) * ClusterUnits
  BY <1>2 DEF Now, FileInv, PlaceInv, RoomInv
<1>4. IF step = "follow" THEN Ahead(fil[f], ch[f])
      ELSE fil[f].fptr <= Len(ch[f]) * ClusterUnits /\ Behind(fil[f], ch[f])
  BY <1>1, <1>2, <1>3 DEF PosInv, Busy, SeekSteps, Chaining
<1> QED
  BY <1>1, <1>2, <1>3, <1>4 DEF Now, Lead, SeekSteps

(* f_lseek() goes to p in cluster cl, with l to go and c the last cluster: *)
(* where it may go in the file's chain s.                                  *)
SeekPlace(f, s, p, cl, l, c) ==
  /\ step' \in {"follow", "fill", "chain"}
  /\ step' # "fill" => p % ClusterUnits = 0 /\ c = cl /\ l > 0 /\ (~ fil[f].write => p + l <= fil[f].fsize)
  /\ step' = "fill" => /\ p <= Len(s) * ClusterUnits
                       /\ p > 0 => cl = s[((p - 1) \div ClusterUnits) + 1]
                       /\ p > 0 \/ fil[f].written \/ dir[f].first = fil[f].sclust
  /\ step' = "follow" => (p \div ClusterUnits) + 1 <= Len(s) /\ cl = s[(p \div ClusterUnits) + 1]
  /\ step' = "chain" => /\ fil[f].write
                        /\ IF s = <<>> THEN p = 0 /\ cl = 0
                           ELSE /\ cl # 0 /\ l > ClusterUnits
                                /\ (p \div ClusterUnits) + 1 <= Len(s) /\ cl = s[(p \div ClusterUnits) + 1]

LEMMA SeekTo ==
  ASSUME FatInv, NEW f \in Names, NEW ch \in Families, Now(f, ch), cur.call.op = "seek", fil[f].open,
         step \notin {"link", "remove", "replace"}, step = "got" => fil[f].sclust # 0 \/ cur.new = 0,
         Quiet, UNCHANGED <<fsiVars, historyVars>>,
         NEW h, Becomes(f, h), NEW cl, NEW p, NEW l, NEW c, NEW n, NEW di, di => fil[f].dirty,
         Fields(h, fil[f].open, fil[f].write, fil[f].written, di, fil[f].sclust, cl, fil[f].fsize, p),
         Locals(cur', cur.call, l, c, n), SeekPlace(f, ch[f], p, cl, l, c)
  PROVE  FatInv'
<1> DEFINE s == ch[f]
<1>1. restarts' = restarts /\ fatCalls' = fatCalls
  BY QuietVars
<1>2. cur.call.f = f /\ File = fil[f] /\ ~ Idle
  BY DEF Now
<1>3. /\ DOMAIN fil' = Names /\ (\A g \in Names : g # f => fil'[g] = fil[g])
      /\ File' = fil'[f] /\ FilType(fil'[f]) /\ fil'[f].open = fil[f].open /\ fil'[f].write = fil[f].write
      /\ fil'[f].written = fil[f].written /\ fil'[f].dirty = di /\ fil'[f].sclust = fil[f].sclust
      /\ fil'[f].clust = cl /\ fil'[f].fsize = fil[f].fsize /\ fil'[f].fptr = p
      /\ CurType(cur') /\ cur'.call = cur.call /\ cur'.left = l /\ cur'.clust = c
  BY <1>2 DEF Becomes, Fields, Locals, File
<1>4. Orphan' = Orphan
  BY <1>2 DEF Orphan, SeekPlace
<1>5. Moves(f)
  BY DEF Moves, SeekPlace
<1>6. Busy(f)'
  BY <1>2, <1>3 DEF Busy, Idle, SeekPlace
<1>7. PosInv(f, s)'
  <2>0. step' \in {"follow", "fill", "chain"}
    BY DEF SeekPlace
  <2>1. CASE step' = "fill"
    BY <1>3, <2>1 DEF PosInv, Behind, Chaining, SeekPlace
  <2>2. CASE step' = "follow"
    BY <1>3, <1>6, <2>2 DEF PosInv, Ahead, SeekPlace
  <2>3. CASE step' = "chain"
    BY <1>3, <1>6, <2>3 DEF PosInv, Ahead, Chaining, SeekPlace
  <2> QED
    BY <2>0, <2>1, <2>2, <2>3
<1>8. ProgressInv(s)'
  <2>0. step' \in {"follow", "fill", "chain"}
    BY DEF SeekPlace
  <2>1. CASE step' = "fill"
    BY <2>1 DEF ProgressInv, LeftInv, ReadInv, SectorInv, SeekInv, LinkInv, GotInv, ChainInv, ReadSteps, Chaining
  <2>2. CASE step' = "follow"
    <3>1. SeekInv' /\ LeftInv'
      BY <1>3, <2>2 DEF SeekInv, LeftInv, AtEdge, SeekPlace
    <3> QED
      BY <2>2, <3>1 DEF ProgressInv, ReadInv, SectorInv, LinkInv, GotInv, ChainInv, ReadSteps, Chaining
  <2>3. CASE step' = "chain"
    <3>1. ChainInv(s)' /\ LeftInv'
      BY <1>3, <2>3 DEF ChainInv, LeftInv, AtEdge, SeekPlace
    <3> QED
      BY <2>3, <3>1 DEF ProgressInv, ReadInv, SeekInv, SectorInv, LinkInv, GotInv, ReadSteps, Chaining
  <2> QED
    BY <2>0, <2>1, <2>2, <2>3
<1>9. UNCHANGED fsiVars /\ step # "link" /\ (step' = "fill" => fil'[f].fptr > 0 \/ fil[f].written \/ dir[f].first = fil[f].sclust)
      /\ (fil'[f].dirty => fil[f].dirty)
  BY <1>3 DEF SeekPlace
<1> QED
  BY <1>1, <1>3, <1>4, <1>5, <1>7, <1>8, <1>9, MoveStep

LEMMA SeekStartKeeps ==
  ASSUME FatInv, NEW f \in Names, NEW ch \in Families, Now(f, ch), SeekStart
  PROVE  FatInv'
<1> DEFINE s == ch[f]
<1>1. /\ step = "seek" /\ UNCHANGED <<windowVars, fsiVars, historyVars>> /\ step \in SeekSteps
  BY DEF SeekStart, SeekSteps
<1>2. /\ cur.call.f = f /\ File = fil[f] /\ FilType(fil[f]) /\ CurType(cur) /\ ~ Idle
      /\ fil[f].fptr \in Nat /\ cur.left \in Nat /\ fil[f].fsize \in Nat
      /\ fil[f].open /\ cur.call.op = "seek"
      /\ Len(s) \in Nat /\ (s = <<>> <=> fil[f].sclust = 0) /\ (s = <<>> <=> Len(s) = 0)
      /\ s # <<>> => fil[f].sclust = s[1]
      /\ fil[f].fsize <= Len(s) * ClusterUnits
      /\ fil[f].fptr <= Len(s) * ClusterUnits /\ Behind(fil[f], s)
  BY <1>1, SeekingFacts
<1>3. /\ ~ fil[f].write => cur.left <= fil[f].fsize
      /\ fil[f].written \/ dir[f].first = fil[f].sclust
  BY <1>1, <1>2 DEF Now, ProgressInv, SeekInv, FileInv, EntryInv
<1>4. step' # "fsinfo" => Quiet
  BY <1>1, QuietSame
<1>5. PICK base : base = ((File.fptr - 1) \div ClusterUnits) * ClusterUnits
  OBVIOUS
<1>6. (0 % ClusterUnits) = 0 /\ (0 \div ClusterUnits) = 0 /\ 0 <= Len(s) * ClusterUnits
  BY <1>2, FatConstants, Times, SMT
<1>7. CASE cur.left = 0
  <2>1. SetFile([fil[f] EXCEPT !.fptr = 0]) /\ step' = "fill" /\ cur' = cur
    BY <1>2, <1>7 DEF SeekStart, Go
  <2>2. PICK h : h = [fil[f] EXCEPT !.fptr = 0]
    OBVIOUS
  <2>3. Becomes(f, h)
    BY <1>2, <2>1, <2>2, BecomesFacts
  <2>4. Fields(h, fil[f].open, fil[f].write, fil[f].written, fil[f].dirty, fil[f].sclust, fil[f].clust, fil[f].fsize, 0)
    BY <1>2, <2>2, SetPlace DEF FilType
  <2>5. Locals(cur', cur.call, cur.left, cur.clust, cur.new)
    BY <1>2, <2>1, OwnLocals
  <2>6. /\ cur.call.op = "seek" /\ fil[f].open /\ step \notin {"link", "remove", "replace", "got"} /\ Quiet
        /\ (fil[f].dirty => fil[f].dirty)
    BY <1>1, <1>2, <1>4, <2>1
  <2>7. ~ (0 > 0)
    BY SMT
  <2>8. SeekPlace(f, s, 0, fil[f].clust, cur.left, cur.clust)
    BY <1>3, <1>6, <2>1, <2>7 DEF SeekPlace
  <2> QED
    BY <1>1, <2>3, <2>4, <2>5, <2>6, <2>8, SeekTo
<1>8. CASE cur.left # 0 /\ File.fptr > 0 /\ (cur.left - 1) \div ClusterUnits >= (File.fptr - 1) \div ClusterUnits
  <2>1. /\ SetFile([fil[f] EXCEPT !.fptr = base]) /\ cur' = [cur EXCEPT !.left = cur.left - base, !.clust = fil[f].clust]
        /\ step' = "follow"
    BY <1>2, <1>5, <1>8 DEF SeekStart, Go
  <2>2. PICK q : q = fil[f].fptr
    OBVIOUS
  <2>3. /\ base \in Nat /\ (base % ClusterUnits) = 0
        /\ (base \div ClusterUnits) = ((q - 1) \div ClusterUnits)
        /\ q <= Len(s) * ClusterUnits => ((q - 1) \div ClusterUnits) + 1 <= Len(s)
        /\ cur.left > base
    <3>1. q \in Nat /\ q > 0 /\ base = ((q - 1) \div ClusterUnits) * ClusterUnits
      BY <1>2, <1>5, <1>8, <2>2
    <3>2. cur.left > 0 /\ ((cur.left - 1) \div ClusterUnits) >= ((q - 1) \div ClusterUnits)
      BY <1>2, <1>8, <2>2
    <3>3. cur.left \in Nat /\ Len(s) \in Nat
      BY <1>2
    <3>4. /\ base \in Nat /\ (base % ClusterUnits) = 0
          /\ (base \div ClusterUnits) = ((q - 1) \div ClusterUnits)
          /\ \A n \in Nat : q <= n * ClusterUnits => ((q - 1) \div ClusterUnits) + 1 <= n
          /\ \A x \in Nat : x > 0 /\ ((x - 1) \div ClusterUnits) >= ((q - 1) \div ClusterUnits) => x > base
      BY <3>1, BaseFacts
    <3> QED
      BY <3>2, <3>3, <3>4, Zenon
  <2>4. PICK h, l : h = [fil[f] EXCEPT !.fptr = base] /\ l = cur.left - base
    OBVIOUS
  <2>5. l \in Nat /\ l > 0 /\ base + l = cur.left
    BY <1>2, <2>3, <2>4
  <2>6. Becomes(f, h)
    BY <1>2, <2>1, <2>4, BecomesFacts
  <2>7. Fields(h, fil[f].open, fil[f].write, fil[f].written, fil[f].dirty, fil[f].sclust, fil[f].clust, fil[f].fsize, base)
    BY <1>2, <2>3, <2>4, SetPlace DEF FilType
  <2>8. Locals(cur', cur.call, l, fil[f].clust, cur.new)
    BY <1>2, <2>1, <2>4, <2>5, SetCur DEF CurType, FilType
  <2>9. /\ cur.call.op = "seek" /\ fil[f].open /\ step \notin {"link", "remove", "replace", "got"} /\ Quiet
        /\ (fil[f].dirty => fil[f].dirty)
    BY <1>1, <1>2, <1>4, <2>1
  <2>10. (base \div ClusterUnits) + 1 <= Len(s) /\ fil[f].clust = s[(base \div ClusterUnits) + 1]
    BY <1>2, <1>8, <2>2, <2>3 DEF Behind
  <2>11. /\ step' = "follow" /\ base % ClusterUnits = 0 /\ l > 0 /\ (~ fil[f].write => base + l <= fil[f].fsize)
    BY <1>3, <2>1, <2>3, <2>5
  <2>12. SeekPlace(f, s, base, fil[f].clust, l, fil[f].clust)
    BY <2>10, <2>11, Zenon DEF SeekPlace
  <2> QED
    BY <1>1, <2>6, <2>7, <2>8, <2>9, <2>12, SeekTo
<1>9. CASE cur.left # 0 /\ ~ (File.fptr > 0 /\ (cur.left - 1) \div ClusterUnits >= (File.fptr - 1) \div ClusterUnits)
  <2>1. /\ SetFile([fil[f] EXCEPT !.fptr = 0, !.clust = fil[f].sclust]) /\ cur' = [cur EXCEPT !.clust = fil[f].sclust]
        /\ step' = IF fil[f].sclust = 0 THEN "chain" ELSE "follow"
    BY <1>2, <1>9 DEF SeekStart, Go
  <2>2. PICK h : h = [fil[f] EXCEPT !.fptr = 0, !.clust = fil[f].sclust]
    OBVIOUS
  <2>3. Becomes(f, h)
    BY <1>2, <2>1, <2>2, BecomesFacts
  <2>4. Fields(h, fil[f].open, fil[f].write, fil[f].written, fil[f].dirty, fil[f].sclust, fil[f].sclust, fil[f].fsize, 0)
    BY <1>2, <2>2, SetPlace DEF FilType
  <2>5. Locals(cur', cur.call, cur.left, fil[f].sclust, cur.new)
    BY <1>2, <2>1, SetCur DEF CurType, FilType
  <2>6. /\ cur.call.op = "seek" /\ fil[f].open /\ step \notin {"link", "remove", "replace", "got"} /\ Quiet
        /\ (fil[f].dirty => fil[f].dirty)
    BY <1>1, <1>2, <1>4, <2>1
  <2>7. cur.left > 0 /\ (~ fil[f].write => 0 + cur.left <= fil[f].fsize)
    BY <1>2, <1>3, <1>9
  <2>8. CASE fil[f].sclust = 0
    <3>1. Len(s) * ClusterUnits = 0
      BY <1>2, <2>8, FatConstants, SMT
    <3>2. fil[f].write
      BY <1>2, <2>7, <3>1
    <3>3. step' = "chain" /\ s = <<>>
      BY <1>2, <2>1, <2>8
    <3>4. SeekPlace(f, s, 0, fil[f].sclust, cur.left, fil[f].sclust)
      BY <1>6, <2>7, <2>8, <3>2, <3>3 DEF SeekPlace
    <3> QED
      BY <1>1, <2>3, <2>4, <2>5, <2>6, <3>4, SeekTo
  <2>9. CASE fil[f].sclust # 0
    <3>1. step' = "follow" /\ (0 \div ClusterUnits) + 1 <= Len(s) /\ fil[f].sclust = s[(0 \div ClusterUnits) + 1]
      BY <1>2, <1>6, <2>1, <2>9
    <3>2. SeekPlace(f, s, 0, fil[f].sclust, cur.left, fil[f].sclust)
      BY <1>6, <2>7, <3>1 DEF SeekPlace
    <3> QED
      BY <1>1, <2>3, <2>4, <2>5, <2>6, <3>2, SeekTo
  <2> QED
    BY <2>8, <2>9
<1> QED
  BY <1>7, <1>8, <1>9

LEMMA SeekFollowKeeps ==
  ASSUME FatInv, NEW f \in Names, NEW ch \in Families, Now(f, ch), SeekFollow
  PROVE  FatInv'
<1> DEFINE s == ch[f]
<1>1. /\ step = "follow" /\ UNCHANGED <<fsiVars, historyVars>> /\ step \in SeekSteps
  BY DEF SeekFollow, SeekSteps
<1>2. /\ cur.call.f = f /\ File = fil[f] /\ FilType(fil[f]) /\ CurType(cur) /\ ~ Idle
      /\ fil[f].fptr \in Nat /\ cur.left \in Nat /\ fil[f].fsize \in Nat
      /\ fil[f].open /\ cur.call.op = "seek"
      /\ Len(s) \in Nat
      /\ \A i \in 1 .. Len(s) : s[i] \in Clusters
      /\ IsChain(fat, fil[f].sclust, s)
      /\ fil[f].fsize <= Len(s) * ClusterUnits
      /\ Ahead(fil[f], s)
  BY <1>1, SeekingFacts
<1>3. /\ AtEdge(fil[f]) /\ cur.clust = fil[f].clust /\ cur.left > 0
      /\ ~ fil[f].write => fil[f].fptr + cur.left <= fil[f].fsize
  BY <1>1, <1>2 DEF Now, ProgressInv, SeekInv, LeftInv
<1>4. PICK q : q = (fil[f].fptr \div ClusterUnits) + 1
  OBVIOUS
<1>5. q \in 1 .. Len(s) /\ fil[f].clust = s[q] /\ s[q] \in Clusters /\ s # <<>> /\ (fil[f].fptr \div ClusterUnits) \in Nat
  <2>1. (fil[f].fptr \div ClusterUnits) \in Nat
    BY <1>2, DivMod, FatConstants
  <2>2. q \in 1 .. Len(s) /\ fil[f].clust = s[q]
    BY <1>2, <1>4, <2>1 DEF Ahead
  <2>3. s # <<>>
    BY <2>2
  <2> QED
    BY <1>2, <2>1, <2>2, <2>3
<1>6. CASE cur.left > ClusterUnits /\ File.write
  <2>1. step' = "chain" /\ UNCHANGED windowVars /\ fil' = fil /\ cur' = cur
    BY <1>6 DEF SeekFollow, Go
  <2>2. Becomes(f, fil[f])
    BY <2>1, BecomesFacts
  <2>3. Fields(fil[f], fil[f].open, fil[f].write, fil[f].written, fil[f].dirty, fil[f].sclust, fil[f].clust, fil[f].fsize, fil[f].fptr)
    BY <1>2, OwnFields
  <2>4. Locals(cur', cur.call, cur.left, cur.clust, cur.new)
    BY <1>2, <2>1, OwnLocals
  <2>5. Quiet
    BY <2>1, QuietSame
  <2>6. cur.clust # 0
    BY <1>3, <1>5, FatConstants
  <2>7. SeekPlace(f, s, fil[f].fptr, fil[f].clust, cur.left, cur.clust)
    BY <1>2, <1>3, <1>5, <1>6, <2>1, <2>6 DEF SeekPlace, Ahead, AtEdge
  <2>8. /\ cur.call.op = "seek" /\ fil[f].open /\ step \notin {"link", "remove", "replace", "got"}
        /\ (fil[f].dirty => fil[f].dirty) /\ UNCHANGED <<fsiVars, historyVars>>
    BY <1>1, <1>2
  <2> QED
    BY <2>2, <2>3, <2>4, <2>5, <2>7, <2>8, SeekTo
<1>7. CASE cur.left > ClusterUnits /\ ~ File.write
  <2>1. /\ get_fat(cur.clust)
        /\ SetFile([fil[f] EXCEPT !.clust = fat[cur.clust], !.fptr = fil[f].fptr + ClusterUnits])
        /\ cur' = [cur EXCEPT !.left = cur.left - ClusterUnits, !.clust = fat[cur.clust]]
        /\ step' = "follow"
    BY <1>2, <1>7 DEF SeekFollow, Go, Advance
  <2>2. PICK c, p, l : c = fat[cur.clust] /\ p = fil[f].fptr + ClusterUnits /\ l = cur.left - ClusterUnits
    OBVIOUS
  <2>3. /\ p \in Nat /\ (p % ClusterUnits) = 0 /\ (p \div ClusterUnits) = q
    <3>1. fil[f].fptr \in Nat /\ (fil[f].fptr % ClusterUnits) = 0
      BY <1>2, <1>3 DEF AtEdge
    <3> QED
      BY <1>4, <2>2, <3>1, NextCluster
  <2>4. l \in Nat /\ l > 0 /\ p + l = fil[f].fptr + cur.left /\ ClusterUnits \in Nat
    <3>1. cur.left \in Nat /\ fil[f].fptr \in Nat /\ ClusterUnits \in Nat /\ cur.left > ClusterUnits
      BY <1>2, <1>7, FatConstants
    <3>2. p = fil[f].fptr + ClusterUnits /\ l = cur.left - ClusterUnits
      BY <2>2
    <3> QED
      BY <3>1, <3>2, SMT
  <2>5. p + l <= fil[f].fsize /\ p < Len(s) * ClusterUnits
    <3>1. p + l <= fil[f].fsize
      BY <1>2, <1>3, <1>7, <2>4
    <3>2. Len(s) * ClusterUnits \in Nat
      BY <1>2, FatConstants, Times
    <3> QED
      BY <1>2, <2>3, <2>4, <3>1, <3>2
  <2>6. q + 1 <= Len(s)
    BY <1>2, <2>3, <2>5, MoreClusters
  <2>7. c = s[q + 1] /\ c \in Clusters
    <3>1. q + 1 \in 1 .. Len(s) /\ q # Len(s)
      BY <1>2, <1>5, <2>6
    <3>2. fat[s[q]] = s[q + 1]
      BY <1>2, <1>5, <3>1 DEF IsChain
    <3> QED
      BY <1>2, <1>3, <1>5, <2>2, <3>1, <3>2
  <2>8. c \in Starts /\ c \in Starts \cup {LastLink}
    BY <2>7 DEF Starts
  <2>9. PICK h : h = [fil[f] EXCEPT !.clust = c, !.fptr = p]
    OBVIOUS
  <2>10. Becomes(f, h)
    BY <1>2, <2>1, <2>2, <2>9, BecomesFacts
  <2>11. Fields(h, fil[f].open, fil[f].write, fil[f].written, fil[f].dirty, fil[f].sclust, c, fil[f].fsize, p)
    BY <1>2, <2>3, <2>8, <2>9, SetPlace
  <2>12. Locals(cur', cur.call, l, c, cur.new)
    BY <1>2, <2>1, <2>2, <2>4, <2>8, SetCur DEF CurType
  <2>13. Quiet
    BY <1>3, <1>5, <2>1, QuietGet
  <2>14. SeekPlace(f, s, p, c, l, c)
    BY <2>1, <2>3, <2>4, <2>5, <2>6, <2>7 DEF SeekPlace
  <2>15. /\ cur.call.op = "seek" /\ fil[f].open /\ step \notin {"link", "remove", "replace", "got"}
         /\ (fil[f].dirty => fil[f].dirty) /\ UNCHANGED <<fsiVars, historyVars>>
    BY <1>1, <1>2
  <2> QED
    BY <2>10, <2>11, <2>12, <2>13, <2>14, <2>15, SeekTo
<1>8. CASE ~ (cur.left > ClusterUnits)
  <2>1. SetFile([fil[f] EXCEPT !.fptr = fil[f].fptr + cur.left]) /\ step' = "fill" /\ UNCHANGED windowVars /\ cur' = cur
    BY <1>2, <1>8 DEF SeekFollow, Go
  <2>2. PICK p : p = fil[f].fptr + cur.left
    OBVIOUS
  <2>3. PICK h : h = [fil[f] EXCEPT !.fptr = p]
    OBVIOUS
  <2>4. p \in Nat /\ p > 0
    BY <1>2, <1>3, <2>2
  <2>5. Becomes(f, h)
    BY <1>2, <2>1, <2>2, <2>3, BecomesFacts
  <2>6. Fields(h, fil[f].open, fil[f].write, fil[f].written, fil[f].dirty, fil[f].sclust, fil[f].clust, fil[f].fsize, p)
    BY <1>2, <2>3, <2>4, SetPlace DEF FilType
  <2>7. h.fptr = fil[f].fptr + cur.left /\ h.clust = fil[f].clust /\ h.fptr = p
    BY <2>2, <2>6 DEF Fields
  <2>8. (fil[f].fptr % ClusterUnits) + cur.left <= ClusterUnits
    <3>1. (fil[f].fptr % ClusterUnits) = 0
      BY <1>3 DEF AtEdge
    <3> QED
      BY <1>2, <1>8, <3>1, FatConstants
  <2>9. h.fptr <= Len(s) * ClusterUnits /\ Behind(h, s)
    BY <1>2, <1>3, <2>7, <2>8, Onward
  <2>10. Locals(cur', cur.call, cur.left, cur.clust, cur.new)
    BY <1>2, <2>1, OwnLocals
  <2>11. Quiet
    BY <2>1, QuietSame
  <2>12. SeekPlace(f, s, p, fil[f].clust, cur.left, cur.clust)
    BY <2>1, <2>4, <2>7, <2>9 DEF SeekPlace, Behind
  <2>13. /\ cur.call.op = "seek" /\ fil[f].open /\ step \notin {"link", "remove", "replace", "got"}
         /\ (fil[f].dirty => fil[f].dirty) /\ UNCHANGED <<fsiVars, historyVars>>
    BY <1>1, <1>2
  <2> QED
    BY <2>5, <2>6, <2>10, <2>11, <2>12, <2>13, SeekTo
<1> QED
  BY <1>6, <1>7, <1>8

LEMMA SeekFillKeeps ==
  ASSUME FatInv, NEW f \in Names, NEW ch \in Families, Now(f, ch), SeekFill
  PROVE  FatInv'
<1> DEFINE s == ch[f]
<1>1. /\ step = "fill" /\ step' = "fill" /\ cur' = cur /\ UNCHANGED <<windowVars, fsiVars, historyVars>> /\ step \in SeekSteps
  BY DEF SeekFill, SeekSteps, callVars
<1>2. /\ cur.call.f = f /\ File = fil[f] /\ FilType(fil[f]) /\ CurType(cur) /\ ~ Idle
      /\ fil[f].open /\ cur.call.op = "seek"
      /\ fil[f].fptr <= Len(s) * ClusterUnits /\ Behind(fil[f], s)
      /\ fil[f].fptr \in Nat
  BY <1>1, SeekingFacts
<1>3. fil[f].fptr > 0 \/ fil[f].written \/ dir[f].first = fil[f].sclust
  BY <1>1, <1>2 DEF Now, FileInv, EntryInv
<1>4. \E h : \E di \in {FALSE, fil[f].dirty} : /\ SetFile(h)
              /\ Fields(h, fil[f].open, fil[f].write, fil[f].written, di, fil[f].sclust, fil[f].clust, fil[f].fsize, fil[f].fptr)
  <2>1. CASE WriteBack
    <3>1. SetFile([fil[f] EXCEPT !.dirty = FALSE])
      BY <1>2, <2>1 DEF WriteBack
    <3>2. PICK h : h = [fil[f] EXCEPT !.dirty = FALSE]
      OBVIOUS
    <3>3. Fields(h, fil[f].open, fil[f].write, fil[f].written, FALSE, fil[f].sclust, fil[f].clust, fil[f].fsize, fil[f].fptr)
      BY <1>2, <3>2, SetClean
    <3>4. SetFile(h) /\ FALSE \in {FALSE, fil[f].dirty}
      BY <3>1, <3>2
    <3> QED
      BY <3>3, <3>4
  <2>2. CASE \E ds, bf : SetFile([File EXCEPT !.dsect = ds, !.buf = bf])
    <3>1. PICK ds, bf : SetFile([fil[f] EXCEPT !.dsect = ds, !.buf = bf])
      BY <1>2, <2>2
    <3>2. PICK h : h = [fil[f] EXCEPT !.dsect = ds, !.buf = bf]
      OBVIOUS
    <3>3. Fields(h, fil[f].open, fil[f].write, fil[f].written, fil[f].dirty, fil[f].sclust, fil[f].clust, fil[f].fsize, fil[f].fptr)
      BY <1>2, <3>2, SetClean
    <3>4. SetFile(h) /\ fil[f].dirty \in {FALSE, fil[f].dirty}
      BY <3>1, <3>2
    <3> QED
      BY <3>3, <3>4
  <2> QED
    BY <2>1, <2>2 DEF SeekFill
<1>5. PICK h, di : /\ SetFile(h) /\ di \in {FALSE, fil[f].dirty}
         /\ Fields(h, fil[f].open, fil[f].write, fil[f].written, di, fil[f].sclust, fil[f].clust, fil[f].fsize, fil[f].fptr)
  BY <1>4
<1>6. Becomes(f, h)
  BY <1>2, <1>5, BecomesFacts
<1>7. Locals(cur', cur.call, cur.left, cur.clust, cur.new)
  BY <1>1, <1>2, OwnLocals
<1>8. Quiet
  BY <1>1, QuietSame
<1>9. SeekPlace(f, s, fil[f].fptr, fil[f].clust, cur.left, cur.clust)
  BY <1>1, <1>2, <1>3 DEF SeekPlace, Behind
<1>10. /\ cur.call.op = "seek" /\ fil[f].open /\ step \notin {"link", "remove", "replace", "got"}
       /\ (di => fil[f].dirty) /\ UNCHANGED <<fsiVars, historyVars>>
  <2>1. di => fil[f].dirty
    BY <1>5
  <2> QED
    BY <1>1, <1>2, <2>1
<1> QED
  BY <1>5, <1>6, <1>7, <1>8, <1>9, <1>10, SeekTo

LEMMA SeekKeeps ==
  ASSUME FatInv, NEW f \in Names, NEW ch \in Families, Now(f, ch), f_lseek
  PROVE  FatInv'
<1> DEFINE s == ch[f]
<1>1. /\ step = "fill" /\ EndCall /\ UNCHANGED <<windowVars, fsiVars>> /\ step' = "rest" /\ step \in SeekSteps
  BY DEF f_lseek, SeekSteps, EndCall, Go
<1>2. /\ cur.call.f = f /\ File = fil[f] /\ FilType(fil[f]) /\ CurType(cur) /\ ~ Idle
      /\ fil[f].fptr \in Nat /\ fil[f].fsize \in Nat
      /\ fil[f].open /\ cur.call.op = "seek" /\ Len(s) \in Nat
      /\ fil[f].fsize <= Len(s) * ClusterUnits
      /\ fil[f].fptr <= Len(s) * ClusterUnits /\ Behind(fil[f], s)
  BY <1>1, SeekingFacts
<1>3. PICK size, wn : size = Greater(fil[f].fsize, fil[f].fptr) /\ wn = (fil[f].written \/ fil[f].fptr > fil[f].fsize)
  OBVIOUS
<1>4. PICK h : h = [fil[f] EXCEPT !.fsize = size, !.written = wn]
  OBVIOUS
<1>5. SetFile(h)
  BY <1>2, <1>3, <1>4 DEF f_lseek
<1>6. Becomes(f, h)
  BY <1>2, <1>5, BecomesFacts
<1>7. /\ size \in Nat /\ fil[f].fptr <= size /\ size <= Len(s) * ClusterUnits
      /\ ~ (fil[f].fptr > fil[f].fsize) => size = fil[f].fsize
  BY <1>2, <1>3 DEF Greater
<1>8. wn \in BOOLEAN /\ (fil[f].written => wn) /\ (~ wn => ~ fil[f].written /\ ~ (fil[f].fptr > fil[f].fsize))
  BY <1>3
<1>9. Fields(h, fil[f].open, fil[f].write, wn, fil[f].dirty, fil[f].sclust, fil[f].clust, size, fil[f].fptr)
  BY <1>2, <1>4, <1>7, <1>8, SetSize
<1>10. /\ fil'[f] = h /\ FilType(h) /\ h.open = fil[f].open /\ h.written = wn /\ h.dirty = fil[f].dirty
       /\ h.sclust = fil[f].sclust /\ h.clust = fil[f].clust /\ h.fsize = size /\ h.fptr = fil[f].fptr
  BY <1>6, <1>9 DEF Becomes, Fields
<1>11. Quiet
  BY <1>1, QuietSame
<1>12. dir' = dir /\ ~ Busy(f)' /\ FileInv(f, s)
  BY <1>1, <1>11 DEF Quiet, Busy, Idle, Now
<1>13. PosInv(f, s)'
  BY <1>2, <1>10, <1>12 DEF PosInv, Behind
<1>14. FileInv(f, s)'
  <2>1. UnusedInv(f)'
    BY <1>10, <1>12 DEF FileInv, UnusedInv
  <2>2. DirtyInv(f)'
    BY <1>2, <1>8, <1>10, <1>12, Zenon DEF FileInv, DirtyInv
  <2>3. RoomInv(f, s)'
    BY <1>7, <1>10, <1>12 DEF FileInv, RoomInv
  <2>4. PlaceInv(f, s)'
    BY <1>7, <1>10, <1>12, <1>13 DEF PlaceInv
  <2>5. /\ dir[f].first # fil[f].sclust => dir[f].first = 0 /\ dir[f].size = 0
        /\ ~ fil[f].written => /\ dir[f].size = fil[f].fsize
                               /\ dir[f].first # fil[f].sclust => fil[f].fptr > 0
    BY <1>1, <1>2, <1>12 DEF FileInv, EntryInv
  <2>6. ASSUME ~ wn PROVE dir[f].size = size /\ dir[f].first = fil[f].sclust
    <3>1. ~ fil[f].written /\ ~ (fil[f].fptr > fil[f].fsize) /\ size = fil[f].fsize
      BY <1>7, <1>8, <2>6
    <3> QED
      BY <1>2, <2>5, <3>1
  <2>7. EntryInv(f)'
    BY <1>10, <1>12, <2>5, <2>6 DEF EntryInv
  <2> QED
    BY <2>1, <2>2, <2>3, <2>4, <2>7 DEF FileInv
<1>15. step \notin {"link", "got", "remove", "replace"} /\ UNCHANGED fsiVars
  BY <1>1
<1> QED
  BY <1>1, <1>6, <1>10, <1>11, <1>14, <1>15, EndStep

LEMMA SeekGotKeeps ==
  ASSUME FatInv, NEW f \in Names, NEW ch \in Families, Now(f, ch), SeekGot
  PROVE  FatInv'
<1> DEFINE s == ch[f]
<1>1. /\ step = "got" /\ cur.call.op = "seek" /\ UNCHANGED <<windowVars, fsiVars, historyVars>> /\ step \in Chaining
      /\ restarts' = restarts /\ fatCalls' = fatCalls
  BY QuietVars DEF SeekGot, Chaining
<1>2. /\ cur.call.f = f /\ File = fil[f] /\ FilType(fil[f]) /\ CurType(cur) /\ ~ Idle
      /\ fil[f].fptr \in Nat /\ cur.left \in Nat /\ cur.left > 0
      /\ fil[f].open /\ fil[f].write
      /\ Len(s) \in Nat /\ (s = <<>> <=> fil[f].sclust = 0) /\ (s = <<>> <=> Len(s) = 0)
      /\ AtEdge(fil[f])
      /\ (s # <<>> => Ahead(fil[f], s))
  BY <1>1, ChainingFacts
<1>3. /\ cur.clust = fil[f].clust
      /\ IF s = <<>> THEN fil[f].fptr = 0 ELSE cur.left > ClusterUnits
  BY <1>1, <1>2, ChainingFacts DEF ChainInv
<1>4. cur.new \in Starts /\ cur.new \in Starts \cup {LastLink}
  BY <1>2 DEF CurType
<1>5. step' # "fsinfo" => Quiet
  BY <1>1, QuietSame
<1>6. CASE fil[f].sclust = 0 /\ cur.new = 0
  <2>1. SetFile([fil[f] EXCEPT !.sclust = 0, !.clust = 0]) /\ cur' = [cur EXCEPT !.clust = 0] /\ step' = "fill"
    BY <1>2, <1>6 DEF SeekGot, Go
  <2>2. PICK h : h = [fil[f] EXCEPT !.sclust = 0, !.clust = 0]
    OBVIOUS
  <2>3. Becomes(f, h)
    BY <1>2, <2>1, <2>2, BecomesFacts
  <2>4. 0 \in Starts /\ 0 \in Starts \cup {LastLink}
    BY DEF Starts
  <2>5. Fields(h, fil[f].open, fil[f].write, fil[f].written, fil[f].dirty, 0, 0, fil[f].fsize, fil[f].fptr)
    BY <1>2, <2>2, <2>4, SetClust
  <2>6. Locals(cur', cur.call, cur.left, 0, cur.new)
    BY <1>2, <2>1, <2>4, SetCur DEF CurType
  <2>7. fil[f].fptr = 0 /\ dir[f].first = fil[f].sclust
    BY <1>2, <1>3, <1>6 DEF Now, FileInv, EntryInv
  <2>8. SeekPlace(f, s, fil[f].fptr, 0, cur.left, 0)
    <3>1. ~ (0 > 0) /\ 0 <= Len(s) * ClusterUnits
      BY <1>2, FatConstants, Times, SMT
    <3> QED
      BY <2>1, <2>7, <3>1 DEF SeekPlace
  <2>9. /\ cur.call.op = "seek" /\ fil[f].open /\ step \notin {"link", "remove", "replace"} /\ Quiet
        /\ (step = "got" => fil[f].sclust # 0 \/ cur.new = 0)
        /\ (fil[f].dirty => fil[f].dirty) /\ UNCHANGED <<fsiVars, historyVars>>
    BY <1>1, <1>2, <1>5, <1>6, <2>1
  <2>10. Fields(h, fil[f].open, fil[f].write, fil[f].written, fil[f].dirty, fil[f].sclust, 0, fil[f].fsize, fil[f].fptr)
    BY <1>6, <2>5
  <2> QED
    BY <2>3, <2>6, <2>8, <2>9, <2>10, SeekTo
<1>7. CASE fil[f].sclust = 0 /\ cur.new # 0
  <2>1. PICK n : n = cur.new
    OBVIOUS
  <2>2. SetFile([fil[f] EXCEPT !.sclust = n, !.clust = n]) /\ cur' = [cur EXCEPT !.clust = n] /\ step' = "follow"
    BY <1>2, <1>7, <2>1 DEF SeekGot, Go
  <2>3. PICK h : h = [fil[f] EXCEPT !.sclust = n, !.clust = n]
    OBVIOUS
  <2>4. Becomes(f, h)
    BY <1>2, <2>2, <2>3, BecomesFacts
  <2>5. Fields(h, fil[f].open, fil[f].write, fil[f].written, fil[f].dirty, n, n, fil[f].fsize, fil[f].fptr)
    BY <1>2, <1>4, <2>1, <2>3, SetClust
  <2>6. Locals(cur', cur.call, cur.left, n, cur.new)
    BY <1>2, <1>4, <2>1, <2>2, SetCur DEF CurType
  <2>7. /\ DOMAIN fil' = Names /\ (\A g \in Names : g # f => fil'[g] = fil[g])
        /\ File' = fil'[f] /\ FilType(fil'[f]) /\ fil'[f].open = fil[f].open /\ fil'[f].write = fil[f].write
        /\ fil'[f].written = fil[f].written /\ fil'[f].dirty = fil[f].dirty /\ fil'[f].sclust = n
        /\ fil'[f].clust = n /\ fil'[f].fsize = fil[f].fsize /\ fil'[f].fptr = fil[f].fptr
        /\ CurType(cur') /\ cur'.call = cur.call /\ cur'.left = cur.left /\ cur'.clust = n
    BY <1>2, <2>4, <2>5, <2>6 DEF Becomes, Fields, Locals, File
  <2>8. Quiet
    BY <1>5, <2>2
  <2>9. Moves(f)
    BY <1>1, <1>2, <2>2 DEF Moves
  <2>10. Orphan = n /\ Orphan' = 0 /\ Lead(f) = 0 /\ Lead(f)' = n /\ n # 0
    BY <1>1, <1>2, <1>7, <2>1, <2>2, <2>7 DEF Orphan, Lead
  <2>11. PICK t : t = ch[Nobody]
    OBVIOUS
  <2>12. /\ Len(t) \in Nat /\ t # <<>> /\ Len(t) # 0 /\ t[1] = n
    <3>1. FatInvOf(ch)
      BY DEF Now
    <3>2. /\ Len(ch[Nobody]) \in Nat
          /\ Orphan = 0 <=> ch[Nobody] = <<>>
          /\ ch[Nobody] = <<>> <=> Len(ch[Nobody]) = 0
          /\ ch[Nobody] # <<>> => Orphan = ch[Nobody][1]
      BY <3>1, NobodyFacts
    <3> QED
      BY <2>10, <2>11, <3>2
  <2>13. Len(s) = 0 /\ fil[f].fptr = 0
    BY <1>2, <1>3, <1>7
  <2>14. Ahead(fil'[f], t) /\ AtEdge(fil'[f])
    BY <2>7, <2>12, <2>13, FirstOne
  <2>15. PosInv(f, t)'
    <3>1. Busy(f)'
      BY <1>2, <2>2, <2>7 DEF Busy, Idle
    <3> QED
      BY <2>2, <2>14, <3>1 DEF PosInv, Ahead
  <2>16. ProgressInv(t)'
    <3>1. SeekInv' /\ LeftInv'
      BY <1>2, <2>2, <2>7, <2>14 DEF SeekInv, LeftInv, AtEdge
    <3> QED
      BY <2>2, <3>1 DEF ProgressInv, ReadInv, SectorInv, LinkInv, GotInv, ChainInv, ReadSteps, Chaining
  <2>17. /\ CallInv' /\ step' \in Steppings
         /\ step' \notin {"rest", "fsinfo", "link", "seek", "remove", "replace"} /\ ~ Idle'
    BY <1>2, <2>7, <2>9, MovesFacts
  <2>18. FileInv(f, t)'
    <3>1. /\ TypesW /\ dir'[f] = dir[f] /\ FileInv(f, s) /\ Len(s) <= Len(t)
          /\ step' \notin {"fill", "seek"} /\ cur.call.op \in {"write", "seek"}
      BY <1>1, <2>2, <2>8, <2>12, <2>13 DEF FatInv, WInv, Quiet, Now
    <3> QED
      BY <1>2, <1>7, <2>7, <2>12, <2>13, <2>15, <2>17, <3>1, FileStep
  <2>19. /\ WInv' /\ DiskStep /\ disk'.free \in {disk.free, freeClust} /\ fat' = fat /\ dir' = dir /\ FatInvOf(ch)
         /\ Same(f) /\ Loose' = Loose
    BY <1>1, <2>2, <2>7, <2>8 DEF Quiet, Same, Loose, Now
  <2>20. /\ ~ Idle => cur.call.f = f /\ (~ Idle' => cur'.call.f = f)
         /\ UNCHANGED fsiVars /\ Lead(f)' = Orphan
         /\ FileInv(f, ch[Nobody])' /\ (~ Idle' => ProgressInv(ch[Nobody])')
    BY <1>1, <1>2, <2>7, <2>10, <2>11, <2>16, <2>18
  <2> QED
    BY <1>1, <1>2, <2>7, <2>10, <2>17, <2>19, <2>20, TakeChain
<1>8. CASE fil[f].sclust # 0 /\ cur.new = 0
  <2>1. SetFile([fil[f] EXCEPT !.fptr = fil[f].fptr + ClusterUnits]) /\ step' = "fill" /\ cur' = cur
    BY <1>2, <1>8 DEF SeekGot, Go
  <2>2. PICK p : p = fil[f].fptr + ClusterUnits
    OBVIOUS
  <2>3. PICK h : h = [fil[f] EXCEPT !.fptr = p]
    OBVIOUS
  <2>4. p \in Nat /\ p > 0
    BY <1>2, <2>2, FatConstants
  <2>5. Becomes(f, h)
    BY <1>2, <2>1, <2>2, <2>3, BecomesFacts
  <2>6. Fields(h, fil[f].open, fil[f].write, fil[f].written, fil[f].dirty, fil[f].sclust, fil[f].clust, fil[f].fsize, p)
    BY <1>2, <2>3, <2>4, SetPlace DEF FilType
  <2>7. h.fptr = fil[f].fptr + ClusterUnits /\ h.clust = fil[f].clust /\ h.fptr = p
    BY <2>2, <2>6 DEF Fields
  <2>8. (fil[f].fptr % ClusterUnits) + ClusterUnits <= ClusterUnits /\ ClusterUnits \in Nat /\ ClusterUnits > 0
    <3>1. (fil[f].fptr % ClusterUnits) = 0
      BY <1>2 DEF AtEdge
    <3> QED
      BY <3>1, FatConstants
  <2>9. h.fptr <= Len(s) * ClusterUnits /\ Behind(h, s)
    BY <1>2, <1>8, <2>7, <2>8, Onward
  <2>10. Locals(cur', cur.call, cur.left, cur.clust, cur.new)
    BY <1>2, <2>1, OwnLocals
  <2>11. SeekPlace(f, s, p, fil[f].clust, cur.left, cur.clust)
    BY <2>1, <2>4, <2>7, <2>9 DEF SeekPlace, Behind
  <2>12. /\ cur.call.op = "seek" /\ fil[f].open /\ step \notin {"link", "remove", "replace"} /\ Quiet
         /\ (step = "got" => fil[f].sclust # 0 \/ cur.new = 0)
         /\ (fil[f].dirty => fil[f].dirty) /\ UNCHANGED <<fsiVars, historyVars>>
    BY <1>1, <1>2, <1>5, <1>8, <2>1
  <2> QED
    BY <2>5, <2>6, <2>10, <2>11, <2>12, SeekTo
<1>9. CASE fil[f].sclust # 0 /\ cur.new # 0
  <2>1. /\ SetFile([fil[f] EXCEPT !.clust = cur.new, !.fptr = fil[f].fptr + ClusterUnits])
        /\ cur' = [cur EXCEPT !.left = cur.left - ClusterUnits, !.clust = cur.new]
        /\ step' = "follow"
    BY <1>2, <1>9 DEF SeekGot, Go, Advance
  <2>2. PICK c, p, l : c = cur.new /\ p = fil[f].fptr + ClusterUnits /\ l = cur.left - ClusterUnits
    OBVIOUS
  <2>3. /\ p \in Nat /\ (p % ClusterUnits) = 0 /\ (p \div ClusterUnits) = (fil[f].fptr \div ClusterUnits) + 1
    <3>1. fil[f].fptr \in Nat /\ (fil[f].fptr % ClusterUnits) = 0
      BY <1>2 DEF AtEdge
    <3> QED
      BY <2>2, <3>1, NextCluster
  <2>4. l \in Nat /\ l > 0
    BY <1>2, <1>3, <1>9, <2>2, FatConstants
  <2>5. PICK k : k = (fil[f].fptr \div ClusterUnits) + 2
    OBVIOUS
  <2>6. k <= Len(s) /\ c = s[k]
    BY <1>1, <1>2, <1>9, <2>2, <2>5 DEF Now, ProgressInv, GotInv
  <2>7. (fil[f].fptr \div ClusterUnits) \in Nat
    BY <1>2, DivMod, FatConstants
  <2>8. k = (p \div ClusterUnits) + 1
    BY <2>3, <2>5, <2>7
  <2>9. PICK h : h = [fil[f] EXCEPT !.clust = c, !.fptr = p]
    OBVIOUS
  <2>10. Becomes(f, h)
    BY <1>2, <2>1, <2>2, <2>9, BecomesFacts
  <2>11. Fields(h, fil[f].open, fil[f].write, fil[f].written, fil[f].dirty, fil[f].sclust, c, fil[f].fsize, p)
    BY <1>2, <1>4, <2>2, <2>3, <2>9, SetPlace
  <2>12. Locals(cur', cur.call, l, c, cur.new)
    BY <1>2, <1>4, <2>1, <2>2, <2>4, SetCur DEF CurType
  <2>13. SeekPlace(f, s, p, c, l, c)
    BY <1>2, <2>1, <2>3, <2>4, <2>6, <2>8 DEF SeekPlace
  <2>14. /\ cur.call.op = "seek" /\ fil[f].open /\ step \notin {"link", "remove", "replace"} /\ Quiet
         /\ (step = "got" => fil[f].sclust # 0 \/ cur.new = 0)
         /\ (fil[f].dirty => fil[f].dirty) /\ UNCHANGED <<fsiVars, historyVars>>
    BY <1>1, <1>2, <1>5, <1>9, <2>1
  <2> QED
    BY <2>10, <2>11, <2>12, <2>13, <2>14, SeekTo
<1> QED
  BY <1>6, <1>7, <1>8, <1>9
=============================================================================
