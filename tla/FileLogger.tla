----------------------------- MODULE FileLogger -----------------------------
(***************************************************************************)
(* The file logger, L3_Utils/src/file_logger.c.  Tasks take a message      *)
(* buffer from g_empty_buffer_queue, format their message into it and send *)
(* it through g_write_buffer_queue to the logger task, which packs the     *)
(* messages into one file buffer, writes that buffer to the file when it   *)
(* is full, when nothing was logged for a while or on request, and returns *)
(* the message buffers.  Call counters and watermarks are left out.        *)
(***************************************************************************)
EXTENDS Integers, Sequences, FiniteSets

CONSTANTS
  Tasks,        \* the tasks that log
  Printing,     \* those whose messages are also printed, by g_logger_printf_mask
  Boot,         \* the code that logs before the scheduler runs
  Buffers,      \* the FILE_LOGGER_NUM_BUFFERS message buffers
  NumBuffers,   \* their number, also the capacity of both queues
  FlushRequest, \* the NULL pointer that logger_send_flush_request() sends
  NoBuffer,     \* a buffer variable that holds nothing
  BufferSize,   \* FILE_LOGGER_BUFFER_SIZE, in units
  Lengths,      \* Lengths[c] : lengths of c's messages, newline included, in units
  MaxCalls,     \* MaxCalls[c] : bound on the messages of caller c
  MaxFlushes,   \* bound on the flush requests
  MaxFailures   \* bound on the writes that fail

Callers == Tasks \cup {Boot}

Message == [by : Callers, n : Nat \ {0}, len : 1 .. BufferSize]

ASSUME LoggerAssumption ==
  /\ Boot \notin Tasks /\ Printing \subseteq Tasks
  /\ IsFiniteSet(Buffers) /\ Cardinality(Buffers) = NumBuffers
  /\ NumBuffers \in Nat \ {0}
  /\ FlushRequest \notin Buffers /\ NoBuffer \notin Buffers
  /\ BufferSize \in Nat \ {0}
  /\ Lengths \in [Callers -> SUBSET (1 .. BufferSize)]
  /\ MaxCalls \in [Callers -> Nat] /\ MaxFlushes \in Nat /\ MaxFailures \in Nat

VARIABLES
  osRunning,  \* xTaskGetSchedulerState() = taskSCHEDULER_RUNNING
  empty,      \* g_empty_buffer_queue
  writeQ,     \* g_write_buffer_queue
  text,       \* text[b] : the message last formatted into buffer b
  pc,         \* pc[t] : where task t is in logger_log() or logger_log_raw()
  buffer,     \* buffer[t] : its local variable of that name
  msg,        \* msg[t] : the message it logs
  calls,      \* calls[c] : how many messages c has logged or is logging
  flushes,    \* number of flush requests
  lpc,        \* where logger_task() is
  logMsg,     \* its local log_msg
  left,       \* its buffer_overflow_cnt, in units
  cache,      \* gp_file_buffer from start_ptr to write_ptr
  file,       \* contents of FILE_LOGGER_FILENAME
  failures    \* history: number of writes that stored less than they were given

taskVars == <<pc, buffer, msg, calls, flushes>>
loggerVars == <<lpc, logMsg, left, cache, file, failures>>
flVars == <<osRunning, empty, writeQ, text, taskVars, loggerVars>>

NoMessage == [by |-> Boot, n |-> 0, len |-> 0]

Text == Message \cup {NoMessage}

(* strlen() of a message and its newline.                                  *)
Units(m) == [i \in 1 .. m.len |-> <<m, i>>]

FirstUnits(s, n) == SubSeq(s, 1, n)
LastUnits(s, n) == SubSeq(s, Len(s) - n + 1, Len(s))

(* b is in the queue q; it is not in q twice.                              *)
In(b, q) == \E i \in DOMAIN q : q[i] = b
Once(b, q) == \A i, j \in DOMAIN q : q[i] = b /\ q[j] = b => i = j

-----------------------------------------------------------------------------
(* logger_internal_init() succeeded: every buffer is in the empty queue.   *)
FlInit ==
  /\ osRunning = FALSE
  /\ empty \in [1 .. NumBuffers -> Buffers]
  /\ \A b \in Buffers : In(b, empty) /\ Once(b, empty)
  /\ writeQ = <<>>
  /\ text = [b \in Buffers |-> NoMessage]
  /\ pc = [t \in Tasks |-> "idle"]
  /\ buffer = [t \in Tasks |-> NoBuffer]
  /\ msg = [t \in Tasks |-> NoMessage]
  /\ calls = [c \in Callers |-> 0]
  /\ flushes = 0
  /\ lpc = "receive"
  /\ logMsg = NoBuffer
  /\ left = 0
  /\ cache = <<>>
  /\ file = <<>>
  /\ failures = 0

(* logger_write_to_file(): j of the units given reach the file; a failed   *)
(* open, seek or write, or a full disk, makes j smaller.                   *)
WriteToFile(units, j) ==
  /\ file' = file \o FirstUnits(units, j)
  /\ \/ j = Len(units) /\ UNCHANGED failures
     \/ j < Len(units) /\ failures < MaxFailures /\ failures' = failures + 1

StartScheduler ==
  /\ ~ osRunning
  /\ osRunning' = TRUE
  /\ UNCHANGED <<empty, writeQ, text, taskVars, loggerVars>>

(* A log call while the OS is not running: format, write, put back.        *)
LogBeforeOs(len, j) ==
  LET m == [by |-> Boot, n |-> calls[Boot] + 1, len |-> len]
  IN  /\ ~ osRunning
      /\ calls[Boot] < MaxCalls[Boot]
      /\ calls' = [calls EXCEPT ![Boot] = @ + 1]
      /\ text' = [text EXCEPT ![Head(empty)] = m]
      /\ empty' = Append(Tail(empty), Head(empty))
      /\ WriteToFile(Units(m), j)
      /\ UNCHANGED <<osRunning, writeQ, pc, buffer, msg, flushes,
                     lpc, logMsg, left, cache>>

-----------------------------------------------------------------------------
(* The callers.                                                            *)

(* logger_log() or logger_log_raw() is called.                             *)
Log(t, len) ==
  /\ osRunning /\ pc[t] = "idle"
  /\ calls[t] < MaxCalls[t]
  /\ calls' = [calls EXCEPT ![t] = @ + 1]
  /\ msg' = [msg EXCEPT ![t] = [by |-> t, n |-> calls[t] + 1, len |-> len]]
  /\ pc' = [pc EXCEPT ![t] = "get"]
  /\ UNCHANGED <<osRunning, empty, writeQ, text, buffer, flushes, loggerVars>>

Mutant_GivesUp(t) ==
  /\ pc[t] = "get"
  /\ buffer' = [buffer EXCEPT ![t] = IF empty = <<>> THEN NoBuffer ELSE Head(empty)]
  /\ empty' = IF empty = <<>> THEN <<>> ELSE Tail(empty)
  /\ pc' = [pc EXCEPT ![t] = "format"]
  /\ UNCHANGED <<osRunning, writeQ, text, msg, calls, flushes, loggerVars>>

(* logger_get_buffer_ptr(): waits FILE_LOGGER_BLOCK_TIME_MS, then for ever. *)
GetBuffer(t) ==
  /\ pc[t] = "get"
  /\ empty # <<>>
  /\ buffer' = [buffer EXCEPT ![t] = Head(empty)]
  /\ empty' = Tail(empty)
  /\ pc' = [pc EXCEPT ![t] = "format"]
  /\ UNCHANGED <<osRunning, writeQ, text, msg, calls, flushes, loggerVars>>

(* sprintf() and vsnprintf() into the buffer.                              *)
Format(t) ==
  /\ pc[t] = "format"
  /\ text' = [text EXCEPT ![buffer[t]] = msg[t]]
  /\ pc' = [pc EXCEPT ![t] = "send"]
  /\ UNCHANGED <<osRunning, empty, writeQ, buffer, msg, calls, flushes, loggerVars>>

(* The call returns; its locals are gone.                                  *)
Return(t) ==
  /\ pc' = [pc EXCEPT ![t] = "idle"]
  /\ buffer' = [buffer EXCEPT ![t] = NoBuffer]
  /\ msg' = [msg EXCEPT ![t] = NoMessage]

(* logger_write_log_message(): xQueueSend(), portMAX_DELAY.                *)
SendBuffer(t) ==
  /\ pc[t] = "send"
  /\ Len(writeQ) < NumBuffers
  /\ writeQ' = Append(writeQ, buffer[t])
  /\ \/ t \in Printing /\ pc' = [pc EXCEPT ![t] = "print"] /\ UNCHANGED <<buffer, msg>>
     \/ t \notin Printing /\ Return(t)
  /\ UNCHANGED <<osRunning, empty, text, calls, flushes, loggerVars>>

(* puts(buffer): the buffer was handed to the logger task already.         *)
PrintMessage(t) ==
  /\ pc[t] = "print"
  /\ Return(t)
  /\ UNCHANGED <<osRunning, empty, writeQ, text, calls, flushes, loggerVars>>

(* logger_send_flush_request()                                             *)
RequestFlush(t) ==
  /\ osRunning /\ pc[t] = "idle"
  /\ flushes < MaxFlushes
  /\ Len(writeQ) < NumBuffers
  /\ writeQ' = Append(writeQ, FlushRequest)
  /\ flushes' = flushes + 1
  /\ UNCHANGED <<osRunning, empty, text, pc, buffer, msg, calls, loggerVars>>

-----------------------------------------------------------------------------
(* logger_task().                                                          *)

Receive ==
  /\ osRunning /\ lpc = "receive"
  /\ writeQ # <<>> /\ Head(writeQ) # FlushRequest
  /\ writeQ' = Tail(writeQ)
  /\ logMsg' = Head(writeQ)
  /\ lpc' = "copy"
  /\ UNCHANGED <<osRunning, empty, text, taskVars, left, cache, file, failures>>

ReceiveFlush ==
  /\ osRunning /\ lpc = "receive"
  /\ writeQ # <<>> /\ Head(writeQ) = FlushRequest
  /\ writeQ' = Tail(writeQ)
  /\ lpc' = "flush"
  /\ UNCHANGED <<osRunning, empty, text, taskVars, logMsg, left, cache, file, failures>>

Mutant_NoTimeout == FALSE

(* Nothing was logged for FILE_LOGGER_FLUSH_TIME_SEC.                      *)
FlushTimeout ==
  /\ osRunning /\ lpc = "receive"
  /\ writeQ = <<>>
  /\ lpc' = "flush"
  /\ UNCHANGED <<osRunning, empty, writeQ, text, taskVars, logMsg, left, cache, file, failures>>

Flush(j) ==
  /\ lpc = "flush"
  /\ WriteToFile(cache, j)
  /\ cache' = <<>>
  /\ lpc' = "receive"
  /\ UNCHANGED <<osRunning, empty, writeQ, text, taskVars, logMsg, left>>

(* len + write_ptr >= end_ptr                                              *)
FillsBuffer(n) == Len(cache) + n >= BufferSize

(* Copy the message, or as much of it as fits, behind write_ptr.           *)
Copy ==
  LET units == Units(text[logMsg])
      room == BufferSize - Len(cache)
  IN  /\ lpc = "copy"
      /\ \/ /\ FillsBuffer(Len(units))
            /\ cache' = cache \o FirstUnits(units, room)
            /\ left' = Len(units) - room
            /\ lpc' = "write"
         \/ /\ ~ FillsBuffer(Len(units))
            /\ cache' = cache \o units
            /\ lpc' = "return"
            /\ UNCHANGED left
      /\ UNCHANGED <<osRunning, empty, writeQ, text, taskVars, logMsg, file, failures>>

Mutant_CopiesHead(n) == FirstUnits(Units(text[logMsg]), n)

(* The part of log_msg that did not fit.                                   *)
LeftOver(n) == LastUnits(Units(text[logMsg]), n)

(* Write the full buffer, then copy what is left of the message.           *)
WriteFull(j) ==
  /\ lpc = "write"
  /\ WriteToFile(cache, j)
  /\ cache' = LeftOver(left)
  /\ left' = 0
  /\ lpc' = "return"
  /\ UNCHANGED <<osRunning, empty, writeQ, text, taskVars, logMsg>>

Mutant_Leaks ==
  /\ lpc = "return"
  /\ logMsg' = NoBuffer
  /\ lpc' = "receive"
  /\ UNCHANGED <<osRunning, empty, writeQ, text, taskVars, left, cache, file, failures>>

(* Put log_msg back into the empty queue; the loop starts with NULL in it. *)
ReturnBuffer ==
  /\ lpc = "return"
  /\ Len(empty) < NumBuffers
  /\ empty' = Append(empty, logMsg)
  /\ logMsg' = NoBuffer
  /\ lpc' = "receive"
  /\ UNCHANGED <<osRunning, writeQ, text, taskVars, left, cache, file, failures>>

-----------------------------------------------------------------------------
Caller(t) ==
  \/ GetBuffer(t)
  \/ Format(t)
  \/ SendBuffer(t)
  \/ PrintMessage(t)

LoggerTask ==
  \/ Receive
  \/ ReceiveFlush
  \/ FlushTimeout
  \/ \E j \in 0 .. Len(cache) : Flush(j)
  \/ Copy
  \/ \E j \in 0 .. Len(cache) : WriteFull(j)
  \/ ReturnBuffer

FlNext ==
  \/ StartScheduler
  \/ \E len \in Lengths[Boot] : \E j \in 0 .. len : LogBeforeOs(len, j)
  \/ \E t \in Tasks : \/ \E len \in Lengths[t] : Log(t, len)
                      \/ RequestFlush(t)
                      \/ Caller(t)
  \/ LoggerTask

(* The scheduler runs every task that stays ready, and a file operation    *)
(* ends, with or without success.  Nothing makes a task log.               *)
FlFairness ==
  /\ WF_flVars(LoggerTask)
  /\ \A t \in Tasks : WF_flVars(Caller(t))

FlSpec == FlInit /\ [][FlNext]_flVars /\ FlFairness

-----------------------------------------------------------------------------
InFlight(t) == pc[t] \in {"format", "send"}
LoggerHolds == lpc \in {"copy", "write", "return"}

(* Task t has buffer b to itself, from GetBuffer to SendBuffer; the logger *)
(* has it from Receive to ReturnBuffer.                                    *)
Holds(t, b) == InFlight(t) /\ buffer[t] = b
LoggerHas(b) == LoggerHolds /\ logMsg = b

(* Every variable has its type.                                            *)
FlTypeOK ==
  /\ osRunning \in BOOLEAN
  /\ empty \in Seq(Buffers)
  /\ writeQ \in Seq(Buffers \cup {FlushRequest})
  /\ text \in [Buffers -> Text]
  /\ pc \in [Tasks -> {"idle", "get", "format", "send", "print"}]
  /\ buffer \in [Tasks -> Buffers \cup {NoBuffer}]
  /\ \A t \in Tasks : InFlight(t) => buffer[t] \in Buffers
  /\ msg \in [Tasks -> Text]
  /\ \A t \in Tasks : pc[t] # "idle" => msg[t] \in Message
  /\ calls \in [Callers -> Nat]
  /\ flushes \in Nat
  /\ lpc \in {"receive", "flush", "copy", "write", "return"}
  /\ logMsg \in Buffers \cup {NoBuffer}
  /\ LoggerHolds => logMsg \in Buffers
  /\ left \in Nat
  /\ cache \in Seq(Text \X Nat)
  /\ file \in Seq(Text \X Nat)
  /\ failures \in Nat

(* A message buffer is never in two hands: not twice in a queue, not in    *)
(* both queues, not held by two tasks, and not held by a task or by the    *)
(* logger while it is queued.  So nobody overwrites a message on its way.  *)
NoSharing ==
  \A b \in Buffers :
    /\ Once(b, empty) /\ Once(b, writeQ)
    /\ ~ (In(b, empty) /\ In(b, writeQ))
    /\ LoggerHas(b) => ~ In(b, empty) /\ ~ In(b, writeQ)
    /\ \A t \in Tasks : Holds(t, b) =>
         /\ ~ In(b, empty) /\ ~ In(b, writeQ) /\ ~ LoggerHas(b)
         /\ \A u \in Tasks : Holds(u, b) => u = t

(* No message buffer is ever lost, whatever fails.                         *)
NothingLeaked ==
  \A b \in Buffers :
    In(b, empty) \/ In(b, writeQ) \/ LoggerHas(b) \/ \E t \in Tasks : Holds(t, b)

(* The logger never waits for room in the empty queue, which would stop    *)
(* every caller: there is room when it returns a buffer.                   *)
RoomToReturn == lpc = "return" => Len(empty) < NumBuffers

(* So the buffers circulate for ever, each of them in exactly one hand.    *)
BuffersKept == NoSharing /\ NothingLeaked /\ RoomToReturn

(* The file buffer is written before it overflows, and a full one is       *)
(* written at once.                                                        *)
CacheFits ==
  /\ Len(cache) <= BufferSize
  /\ lpc # "write" => Len(cache) < BufferSize
  /\ lpc = "write" => Len(cache) = BufferSize

(* Before the scheduler runs nothing is queued and nobody holds a buffer.  *)
QuietBeforeOs ==
  ~ osRunning =>
    /\ writeQ = <<>>
    /\ lpc = "receive"
    /\ \A t \in Tasks : pc[t] = "idle"

(* What is left of a message fits the emptied file buffer.                 *)
LeftFits == lpc = "write" => left < BufferSize /\ left <= text[logMsg].len

(* The inductive invariant.                                                *)
FlIInv ==
  /\ FlTypeOK
  /\ NoSharing
  /\ NothingLeaked
  /\ QuietBeforeOs
  /\ CacheFits
  /\ LeftFits

(* Every logging call returns, although it waits for a buffer for ever.    *)
CallReturns == \A t \in Tasks : pc[t] # "idle" ~> pc[t] = "idle"

(* What is cached leaves RAM after the flush timeout, with no further call *)
(* (file_logger.h:56).                                                     *)
CacheIsFlushed == cache # <<>> ~> cache = <<>>

(* file_logger.c:51: the debug log is printed to stdio.  What the call     *)
(* prints is the message it logged.                                        *)
PrintsOwnMessage == \A t \in Tasks : pc[t] = "print" => text[buffer[t]] = msg[t]
=============================================================================
