-------------------------------- MODULE Uart --------------------------------
(***************************************************************************)
(* The UART driver, L2_Drivers/base/uart_dev.cpp, under the character      *)
(* device, L2_Drivers/base/char_dev.cpp: tasks put characters into the     *)
(* transmit queue, the interrupt moves them to the transmitter's FIFO.     *)
(* Character <<t, i>> is the i-th one task t puts; received characters are *)
(* only counted.                                                           *)
(***************************************************************************)
EXTENDS Integers, Sequences, Functions

CONSTANTS
  UartTasks,    \* the tasks that print
  UartBoot,     \* the code that prints before the scheduler runs
  DirectSets,   \* the choices for the tasks that call put() and not printf()
  NoChar,       \* not a character
  NoTask,       \* not a task
  UartTxQSize, UartRxQSize,  \* the sizes of the two queues
  HwFifoSize,   \* the size of the FIFOs of the hardware
  MaxString,    \* bound on the length of a string
  MaxChars      \* MaxChars[p] : bound on the characters p puts

ASSUME UartAssumption ==
  /\ UartBoot \notin UartTasks /\ NoTask \notin UartTasks
  /\ NoChar \notin (UartTasks \cup {UartBoot}) \X Nat
  /\ DirectSets \subseteq SUBSET UartTasks
  /\ {UartTxQSize, UartRxQSize, HwFifoSize, MaxString} \subseteq Nat \ {0}
  /\ MaxChars \in [UartTasks \cup {UartBoot} -> Nat]

VARIABLES
  uartOs,     \* whether the scheduler runs
  direct,     \* the tasks that call put(), the others call printf()
  printfSem,  \* the holder of mPrintfSemaphore, or NoTask
  putPc,      \* putPc[t] : where task t is in put(), putChar() or flush()
  left,       \* left[t] : characters of its string still to put
  puts,       \* puts[t] : number of characters it has queued or written
  hand,       \* hand[t] : the character it took from the queue to start the transmitter
  txQueue,    \* mTxQueue
  thrFifo,    \* the transmitter's FIFO behind THR
  shift,      \* the character in the shift register, or NoChar
  threDue,    \* the FIFO became empty and the interrupt has not been raised yet
  threIrq,    \* the transmitter interrupt (THRE) is pending
  line,       \* history: the characters sent, in order
  queued,     \* history: the characters queued and not cleared since, in order
  overrun,    \* history: the characters written to a full FIFO
  rxFifo,     \* number of characters in the receiver's FIFO
  rxQueue     \* number of characters in mRxQueue

txHwVars == <<thrFifo, shift, threDue, threIrq, line, overrun>>
rxCounts == <<rxFifo, rxQueue>>
putVars == <<printfSem, putPc, left, puts, hand>>
uartVars == <<uartOs, direct, putVars, txQueue, queued, txHwVars, rxCounts>>

Putters == UartTasks \cup {UartBoot}
Chars == UNION {{p} \X (1 .. MaxChars[p]) : p \in Putters}

UartInit ==
  /\ uartOs = FALSE
  /\ direct \in DirectSets
  /\ printfSem = NoTask
  /\ putPc = [t \in Putters |-> "idle"]
  /\ left = [t \in Putters |-> 0]
  /\ puts = [t \in Putters |-> 0]
  /\ hand = [t \in Putters |-> NoChar]
  /\ txQueue = <<>> /\ queued = <<>>
  /\ thrFifo = <<>> /\ shift = NoChar /\ threDue = FALSE /\ threIrq = FALSE
  /\ line = <<>> /\ overrun = {}
  /\ rxFifo = 0 /\ rxQueue = 0

-----------------------------------------------------------------------------
(* The hardware.  THRE comes when the FIFO is empty: at once if it held    *)
(* two characters, else after a delay of almost a character; either way    *)
(* the last character is still in the shift register.  Writing THR or      *)
(* reading the reason of the interrupt resets it.                          *)

TxIdle == shift = NoChar /\ thrFifo = <<>>

WriteThr(s) ==
  LET room == HwFifoSize - Len(thrFifo)
  IN  /\ thrFifo' = thrFifo \o SubSeq(s, 1, IF Len(s) < room THEN Len(s) ELSE room)
      /\ overrun' = overrun \cup {s[i] : i \in (room + 1) .. Len(s)}
      /\ threIrq' = FALSE
      /\ threDue' = (threDue /\ s = <<>>)
      /\ UNCHANGED <<shift, line>>

Load ==
  /\ shift = NoChar /\ thrFifo # <<>>
  /\ shift' = Head(thrFifo) /\ thrFifo' = Tail(thrFifo)
  /\ threDue' = (Tail(thrFifo) = <<>>)
  /\ UNCHANGED <<threIrq, line, overrun>>

RaiseThre ==
  /\ threDue
  /\ threDue' = FALSE /\ threIrq' = TRUE
  /\ UNCHANGED <<thrFifo, shift, line, overrun>>

ShiftOut ==
  /\ shift # NoChar /\ ~ threDue
  /\ line' = Append(line, shift)
  /\ shift' = NoChar
  /\ UNCHANGED <<thrFifo, threDue, threIrq, overrun>>

Transmitter ==
  /\ Load \/ RaiseThre \/ ShiftOut
  /\ UNCHANGED <<uartOs, direct, putVars, txQueue, queued, rxCounts>>

(* A character that finds the FIFO full is lost.                           *)
Receiver ==
  /\ rxFifo' = IF rxFifo < HwFifoSize THEN rxFifo + 1 ELSE rxFifo
  /\ UNCHANGED <<uartOs, direct, putVars, txQueue, queued, txHwVars, rxQueue>>

-----------------------------------------------------------------------------
(* handleInterrupt(): one reason at a time, the receiver's first.          *)

ReceiveInterrupt ==
  /\ rxFifo > 0
  /\ rxQueue' = IF rxQueue + rxFifo < UartRxQSize THEN rxQueue + rxFifo ELSE UartRxQSize
  /\ rxFifo' = 0
  /\ UNCHANGED <<uartOs, direct, putVars, txQueue, queued, txHwVars>>

(* As many characters as the FIFO can take are moved to it.                *)
TransmitInterrupt ==
  /\ threIrq /\ rxFifo = 0
  /\ LET n == IF Len(txQueue) < HwFifoSize THEN Len(txQueue) ELSE HwFifoSize
     IN  /\ WriteThr(SubSeq(txQueue, 1, n))
         /\ txQueue' = SubSeq(txQueue, n + 1, Len(txQueue))
  /\ UNCHANGED <<uartOs, direct, putVars, queued, rxCounts>>

uartInterrupt == ReceiveInterrupt \/ TransmitInterrupt

-----------------------------------------------------------------------------
(* Before the scheduler runs putChar() writes THR and polls.               *)

BootPut ==
  /\ ~ uartOs /\ putPc[UartBoot] = "idle" /\ puts[UartBoot] < MaxChars[UartBoot]
  /\ puts' = [puts EXCEPT ![UartBoot] = @ + 1]
  /\ WriteThr(<<<<UartBoot, puts[UartBoot] + 1>>>>)
  /\ queued' = Append(queued, <<UartBoot, puts[UartBoot] + 1>>)
  /\ putPc' = [putPc EXCEPT ![UartBoot] = "poll"]
  /\ UNCHANGED <<uartOs, direct, printfSem, left, hand, txQueue, rxCounts>>

BootPolled ==
  /\ putPc[UartBoot] = "poll" /\ TxIdle
  /\ putPc' = [putPc EXCEPT ![UartBoot] = "idle"]
  /\ UNCHANGED <<uartOs, direct, printfSem, left, puts, hand, txQueue, queued, txHwVars, rxCounts>>

UartStartScheduler ==
  /\ ~ uartOs /\ putPc[UartBoot] = "idle"
  /\ uartOs' = TRUE
  /\ UNCHANGED <<direct, putVars, txQueue, queued, txHwVars, rxCounts>>

-----------------------------------------------------------------------------
(* printf(), put(), putChar() and flush().  A task runs when the interrupt *)
(* is not pending.                                                         *)

CallPut(t, n) ==
  /\ uartOs /\ ~ threIrq /\ putPc[t] = "idle" /\ puts[t] + n <= MaxChars[t]
  /\ left' = [left EXCEPT ![t] = n]
  /\ putPc' = [putPc EXCEPT ![t] = IF t \in direct THEN "send" ELSE "take"]
  /\ UNCHANGED <<uartOs, direct, printfSem, puts, hand, txQueue, queued, txHwVars, rxCounts>>

Mutant_TakeSem(t) ==
  /\ ~ threIrq /\ putPc[t] = "take"
  /\ printfSem' = t
  /\ putPc' = [putPc EXCEPT ![t] = "send"]
  /\ UNCHANGED <<uartOs, direct, left, puts, hand, txQueue, queued, txHwVars, rxCounts>>

TakeSem(t) ==
  /\ ~ threIrq /\ putPc[t] = "take" /\ printfSem = NoTask
  /\ printfSem' = t
  /\ putPc' = [putPc EXCEPT ![t] = "send"]
  /\ UNCHANGED <<uartOs, direct, left, puts, hand, txQueue, queued, txHwVars, rxCounts>>

(* t goes on with n characters left: the last one ends put() and printf(). *)
Proceed(t, n) ==
  /\ left' = [left EXCEPT ![t] = n]
  /\ putPc' = [putPc EXCEPT ![t] = IF n = 0 THEN "idle" ELSE "send"]
  /\ printfSem' = IF n = 0 /\ printfSem = t THEN NoTask ELSE printfSem

SendChar(t) ==
  /\ ~ threIrq /\ putPc[t] = "send" /\ Len(txQueue) < UartTxQSize
  /\ puts' = [puts EXCEPT ![t] = @ + 1]
  /\ txQueue' = Append(txQueue, <<t, puts[t] + 1>>)
  /\ queued' = Append(queued, <<t, puts[t] + 1>>)
  /\ putPc' = [putPc EXCEPT ![t] = "check"]
  /\ UNCHANGED <<uartOs, direct, printfSem, left, hand, txHwVars, rxCounts>>

(* put() with a timeout gives up the rest of the string; printf() waits.   *)
SendTimeout(t) ==
  /\ ~ threIrq /\ putPc[t] = "send" /\ Len(txQueue) = UartTxQSize
  /\ t \in direct
  /\ Proceed(t, 0)
  /\ UNCHANGED <<uartOs, direct, puts, hand, txQueue, queued, txHwVars, rxCounts>>

CheckIdle(t) ==
  /\ ~ threIrq /\ putPc[t] = "check"
  /\ IF TxIdle
       THEN putPc' = [putPc EXCEPT ![t] = "pop"] /\ UNCHANGED <<printfSem, left>>
       ELSE Proceed(t, left[t] - 1)
  /\ UNCHANGED <<uartOs, direct, puts, hand, txQueue, queued, txHwVars, rxCounts>>

PopOldest(t) ==
  /\ ~ threIrq /\ putPc[t] = "pop"
  /\ IF txQueue = <<>>
       THEN Proceed(t, left[t] - 1) /\ UNCHANGED <<hand, txQueue>>
       ELSE /\ hand' = [hand EXCEPT ![t] = Head(txQueue)]
            /\ txQueue' = Tail(txQueue)
            /\ putPc' = [putPc EXCEPT ![t] = "write"]
            /\ UNCHANGED <<printfSem, left>>
  /\ UNCHANGED <<uartOs, direct, puts, queued, txHwVars, rxCounts>>

WriteOldest(t) ==
  /\ ~ threIrq /\ putPc[t] = "write"
  /\ WriteThr(<<hand[t]>>)
  /\ hand' = [hand EXCEPT ![t] = NoChar]
  /\ Proceed(t, left[t] - 1)
  /\ UNCHANGED <<uartOs, direct, puts, txQueue, queued, rxCounts>>

CallFlush(t) ==
  /\ uartOs /\ ~ threIrq /\ putPc[t] = "idle"
  /\ putPc' = [putPc EXCEPT ![t] = "flush"]
  /\ UNCHANGED <<uartOs, direct, printfSem, left, puts, hand, txQueue, queued, txHwVars, rxCounts>>

FlushDone(t) ==
  /\ ~ threIrq /\ putPc[t] = "flush" /\ txQueue = <<>>
  /\ putPc' = [putPc EXCEPT ![t] = "idle"]
  /\ UNCHANGED <<uartOs, direct, printfSem, left, puts, hand, txQueue, queued, txHwVars, rxCounts>>

(* The characters in the queue are the last ones queued.                   *)
clearTx ==
  /\ uartOs /\ ~ threIrq /\ txQueue # <<>>
  /\ txQueue' = <<>>
  /\ queued' = SubSeq(queued, 1, Len(queued) - Len(txQueue))
  /\ UNCHANGED <<uartOs, direct, putVars, txHwVars, rxCounts>>

getChar ==
  /\ rxQueue > 0
  /\ rxQueue' = rxQueue - 1
  /\ UNCHANGED <<uartOs, direct, putVars, txQueue, queued, txHwVars, rxFifo>>

clearRx ==
  /\ rxQueue > 0
  /\ rxQueue' = 0
  /\ UNCHANGED <<uartOs, direct, putVars, txQueue, queued, txHwVars, rxFifo>>

-----------------------------------------------------------------------------
putStep(t) ==
  \/ TakeSem(t) \/ SendChar(t) \/ SendTimeout(t) \/ CheckIdle(t)
  \/ PopOldest(t) \/ WriteOldest(t) \/ FlushDone(t)

UartNext ==
  \/ Transmitter \/ Receiver \/ uartInterrupt
  \/ BootPut \/ BootPolled \/ UartStartScheduler
  \/ \E t \in UartTasks :
       \/ \E n \in 1 .. MaxString : CallPut(t, n)
       \/ CallFlush(t)
       \/ putStep(t)
  \/ clearTx \/ getChar \/ clearRx

UartSpec == UartInit /\ [][UartNext]_uartVars

-----------------------------------------------------------------------------
UartTypeOK ==
  /\ uartOs \in BOOLEAN /\ direct \in DirectSets
  /\ printfSem \in UartTasks \cup {NoTask}
  /\ putPc \in [Putters -> {"idle", "poll", "take", "send", "check", "pop", "write", "flush"}]
  /\ left \in [Putters -> 0 .. MaxString]
  /\ puts \in [Putters -> Nat] /\ \A p \in Putters : puts[p] <= MaxChars[p]
  /\ hand \in [Putters -> Chars \cup {NoChar}]
  /\ txQueue \in Seq(Chars) /\ Len(txQueue) <= UartTxQSize
  /\ thrFifo \in Seq(Chars) /\ Len(thrFifo) <= HwFifoSize
  /\ shift \in Chars \cup {NoChar}
  /\ threDue \in BOOLEAN /\ threIrq \in BOOLEAN
  /\ line \in Seq(Chars) /\ queued \in Seq(Chars) /\ overrun \subseteq Chars
  /\ rxFifo \in 0 .. HwFifoSize /\ rxQueue \in 0 .. UartRxQSize

(* Every character the driver queued is in exactly one place: the queue,   *)
(* the hand of a putChar(), the FIFO, the shift register, the line, or     *)
(* among those a full FIFO lost.                                           *)
Places(c) ==
  <<{i \in DOMAIN txQueue : txQueue[i] = c}, {t \in UartTasks : hand[t] = c},
    {i \in DOMAIN thrFifo : thrFifo[i] = c}, {i \in {0} : shift = c},
    {i \in DOMAIN line : line[i] = c}, {i \in {0} : c \in overrun}>>

CharInOnePlace ==
  \A c \in Range(queued) :
    \E i \in 1 .. 6 :
      /\ \E x \in Places(c)[i] : Places(c)[i] = {x}
      /\ \A j \in (1 .. 6) \ {i} : Places(c)[j] = {}

InHand == IF \E t \in UartTasks : hand[t] # NoChar
            THEN <<hand[CHOOSE t \in UartTasks : hand[t] # NoChar]>> ELSE <<>>

InShift == IF shift = NoChar THEN <<>> ELSE <<shift>>

(* With all tasks using printf(), which holds its semaphore while it puts  *)
(* the characters, they leave in the order they were queued in, and none   *)
(* is lost.                                                                *)
PrintfInOrder ==
  direct = {} => queued = line \o InShift \o thrFifo \o InHand \o txQueue
=============================================================================
