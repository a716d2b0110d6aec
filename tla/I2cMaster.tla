----------------------------- MODULE I2cMaster ------------------------------
(***************************************************************************)
(* I2C transfers as bus master, L2_Drivers/base/i2c_base.cpp: transfer()   *)
(* takes the mutex, starts the state machine that the interrupt runs and   *)
(* waits for its signal.  The slave states of the machine are left out.    *)
(* Addresses and data are abstract: byte <<c, i>> is the i-th byte of the  *)
(* transfer of caller c, byte <<c, 0>> its register address.               *)
(***************************************************************************)
EXTENDS Integers, Sequences

CONSTANTS
  I2cTasks,    \* the tasks that call transfer()
  Boot,        \* the code that calls it before the scheduler runs
  NoRequester, \* not a caller
  Sizes,       \* transfer sizes, in bytes; 0 is checkDeviceResponse()
  Wrap,        \* trxSize counts modulo Wrap
  MaxCalls,    \* bound on the transfers
  MaxBytes     \* bound on the bytes the bus moves for one transfer

Callers == I2cTasks \cup {Boot}

ASSUME I2cAssumption ==
  /\ Boot \notin I2cTasks /\ NoRequester \notin Callers
  /\ Wrap \in Nat \ {0} /\ Sizes \subseteq 0 .. (Wrap - 1)
  /\ MaxCalls \in Nat /\ MaxBytes \in Nat

VARIABLES
  osRunning, \* whether the scheduler runs
  mutex,     \* the holder of mI2CMutex, or NoRequester
  signal,    \* mTransferCompleteSignal
  trx,       \* mTransaction; ptr is the number of the byte pMasterData is at
  i2cPc,     \* i2cPc[c] : where caller c is in transfer()
  req,       \* req[c] : the parameters of its call
  result,    \* result[c] : what its last call returned
  calls,     \* number of transfers
  stat,      \* I2STAT: the last bus event
  si,        \* the interrupt flag
  sta, aa,   \* the START and AA flags
  dat,       \* I2DAT
  dev,       \* the addressed device: the register it is at
  moved,     \* the bytes moved since i2cKickOffTransfer(): <<register, byte>>
  late       \* history: some transfer timed out

busVars == <<stat, si, sta, aa, dat, dev, moved>>
callVars == <<osRunning, mutex, i2cPc, req, result, calls, late>>
i2cVars == <<callVars, signal, trx, busVars>>

Byte == Callers \X Nat

(* The events after which the state machine does not clear the interrupt.  *)
Stuck == {"slaveAddressNacked", "dataNackedBySlave", "readModeNackedBySlave",
          "busError", "arbitrationLost"}

Status == {"idle", "start", "repeatStart", "slaveAddressAcked", "dataAckedBySlave",
           "readAckedBySlave", "dataAvailableAckSent", "dataAvailableNackSent",
           "other"} \cup Stuck

(* The interrupt is served for ever, and no task runs again.               *)
Storm == si /\ stat \in Stuck

NoRequest == [read |-> FALSE, size |-> 0]

I2cInit ==
  /\ osRunning = FALSE /\ mutex = NoRequester /\ signal = FALSE
  /\ trx = [owner |-> Boot, read |-> FALSE, size |-> 0, ptr |-> 1, error |-> FALSE]
  /\ i2cPc = [c \in Callers |-> "idle"]
  /\ req = [c \in Callers |-> NoRequest]
  /\ result = [c \in Callers |-> FALSE]
  /\ calls = 0
  /\ stat = "idle" /\ si = FALSE /\ sta = FALSE /\ aa = FALSE
  /\ dat = <<Boot, 0>> /\ dev = <<Boot, 0>> /\ moved = <<>>
  /\ late = FALSE

-----------------------------------------------------------------------------
(* The bus and the device.  The controller acts when si is clear.          *)

Report(s) == ~ si /\ stat' = s /\ si' = TRUE /\ UNCHANGED <<sta, aa>>

BusStart ==
  /\ stat = "idle" /\ sta
  /\ Report("start")
  /\ UNCHANGED <<dat, dev, moved>>

Addressed ==
  /\ stat = "start"
  /\ \E s \in {"slaveAddressAcked", "slaveAddressNacked"} : Report(s)
  /\ dev' = <<NoRequester, 0>>
  /\ UNCHANGED <<dat, moved>>

(* A device takes the first byte as a register, the next ones as data.     *)
Sent ==
  /\ stat \in {"slaveAddressAcked", "dataAckedBySlave"} /\ ~ sta
  /\ Len(moved) < MaxBytes
  /\ \/ /\ Report("dataAckedBySlave")
        /\ IF dev[1] = NoRequester
             THEN dev' = <<dat[1], dat[2] + 1>> /\ UNCHANGED moved
             ELSE dev' = <<dev[1], dev[2] + 1>> /\ moved' = Append(moved, <<dev, dat>>)
     \/ Report("dataNackedBySlave") /\ UNCHANGED <<dev, moved>>
  /\ UNCHANGED dat

Restart ==
  /\ stat \in {"slaveAddressAcked", "dataAckedBySlave"} /\ sta
  /\ Report("repeatStart")
  /\ UNCHANGED <<dat, dev, moved>>

ReadAddressed ==
  /\ stat = "repeatStart"
  /\ \E s \in {"readAckedBySlave", "readModeNackedBySlave"} : Report(s)
  /\ UNCHANGED <<dat, dev, moved>>

Received ==
  /\ stat \in {"readAckedBySlave", "dataAvailableAckSent"}
  /\ Len(moved) < MaxBytes
  /\ Report(IF aa THEN "dataAvailableAckSent" ELSE "dataAvailableNackSent")
  /\ dat' = dev
  /\ dev' = <<dev[1], dev[2] + 1>>
  /\ UNCHANGED moved

(* Noise, another master, or another master that addresses us.             *)
Disturbed ==
  /\ stat # "idle"
  /\ \E s \in {"busError", "arbitrationLost", "other"} : Report(s)
  /\ UNCHANGED <<dat, dev, moved>>

Bus ==
  /\ BusStart \/ Addressed \/ Sent \/ Restart \/ ReadAddressed \/ Received \/ Disturbed
  /\ UNCHANGED <<callVars, signal, trx>>

-----------------------------------------------------------------------------
(* handleInterrupt() and i2cStateMachine(), by the value of I2STAT.        *)

(* Continue: clear SI, with the START and AA flags as given.               *)
Continue(start, ack) ==
  /\ si' = FALSE /\ sta' = start /\ aa' = ack
  /\ UNCHANGED <<stat, dev, signal, callVars>>

(* setStop(), which waits for the end of the STOP condition; the transfer  *)
(* is complete.                                                            *)
SetStop ==
  /\ sta' = FALSE /\ si' = FALSE /\ stat' = "idle"
  /\ signal' = TRUE
  /\ UNCHANGED <<aa, dat, dev, callVars>>

Store == moved' = Append(moved, <<dat, <<trx.owner, trx.ptr>>>>)

NextSize == (trx.size - 1) % Wrap

IsrStart ==
  /\ stat \in {"start", "repeatStart"}
  /\ Continue(sta, aa)
  /\ UNCHANGED <<trx, dat, moved>>

IsrSlaveAddressAcked ==
  /\ stat = "slaveAddressAcked"
  /\ \/ trx.size = 0 /\ SetStop
     \/ trx.size # 0 /\ Continue(FALSE, aa) /\ dat' = <<trx.owner, 0>>
  /\ UNCHANGED <<trx, moved>>

Mutant_StopsEarly ==
  /\ stat = "dataAckedBySlave"
  /\ \/ trx.read /\ Continue(TRUE, aa) /\ UNCHANGED <<trx, dat>>
     \/ ~ trx.read /\ trx.size <= 1 /\ SetStop /\ UNCHANGED trx
     \/ /\ ~ trx.read /\ trx.size > 1
        /\ Continue(sta, aa)
        /\ dat' = <<trx.owner, trx.ptr>>
        /\ trx' = [trx EXCEPT !.ptr = @ + 1, !.size = NextSize]
  /\ UNCHANGED moved

IsrDataAcked ==
  /\ stat = "dataAckedBySlave"
  /\ \/ trx.read /\ Continue(TRUE, aa) /\ UNCHANGED <<trx, dat>>
     \/ ~ trx.read /\ trx.size = 0 /\ SetStop /\ UNCHANGED trx
     \/ /\ ~ trx.read /\ trx.size # 0
        /\ Continue(sta, aa)
        /\ dat' = <<trx.owner, trx.ptr>>
        /\ trx' = [trx EXCEPT !.ptr = @ + 1, !.size = NextSize]
  /\ UNCHANGED moved

IsrReadAcked ==
  /\ stat = "readAckedBySlave"
  /\ Continue(FALSE, trx.size > 1)
  /\ UNCHANGED <<trx, dat, moved>>

Mutant_AcksTooMany ==
  /\ stat = "dataAvailableAckSent"
  /\ Store
  /\ trx' = [trx EXCEPT !.ptr = @ + 1, !.size = NextSize]
  /\ Continue(sta, NextSize # 0)
  /\ UNCHANGED dat

IsrDataAckSent ==
  /\ stat = "dataAvailableAckSent"
  /\ Store
  /\ trx' = [trx EXCEPT !.ptr = @ + 1, !.size = NextSize]
  /\ Continue(sta, NextSize # 1)
  /\ UNCHANGED dat

IsrDataNackSent ==
  /\ stat = "dataAvailableNackSent"
  /\ Store
  /\ SetStop
  /\ UNCHANGED trx

(* The transfer ends, but SI stays set: the interrupt comes again at once. *)
IsrArbitrationLost ==
  /\ stat = "arbitrationLost"
  /\ trx' = [trx EXCEPT !.error = TRUE]
  /\ signal' = TRUE
  /\ UNCHANGED <<busVars, callVars>>

(* A message is printed, nothing else: the interrupt comes again at once.  *)
IsrNacked ==
  /\ stat \in Stuck \ {"arbitrationLost"}
  /\ UNCHANGED i2cVars

IsrOther ==
  /\ stat = "other"
  /\ trx' = [trx EXCEPT !.error = TRUE]
  /\ SetStop
  /\ UNCHANGED moved

handleInterrupt ==
  /\ si
  /\ \/ IsrStart \/ IsrSlaveAddressAcked \/ IsrDataAcked
     \/ IsrReadAcked \/ IsrDataAckSent \/ IsrDataNackSent
     \/ IsrArbitrationLost \/ IsrNacked \/ IsrOther

-----------------------------------------------------------------------------
(* transfer().  A caller runs when no interrupt is due.                    *)

StartScheduler ==
  /\ ~ si /\ ~ osRunning /\ i2cPc[Boot] = "idle"
  /\ osRunning' = TRUE
  /\ UNCHANGED <<mutex, i2cPc, req, result, calls, late, signal, trx, busVars>>

Call(c, read, size) ==
  /\ ~ si /\ i2cPc[c] = "idle" /\ calls < MaxCalls
  /\ osRunning <=> c # Boot
  /\ calls' = calls + 1
  /\ req' = [req EXCEPT ![c] = [read |-> read, size |-> size]]
  /\ i2cPc' = [i2cPc EXCEPT ![c] = IF c = Boot THEN "kick" ELSE "lock"]
  /\ result' = [result EXCEPT ![c] = FALSE]
  /\ UNCHANGED <<osRunning, mutex, late, signal, trx, busVars>>

(* The call returns; its parameters are gone.                              *)
I2cReturn(c, ok) ==
  /\ i2cPc' = [i2cPc EXCEPT ![c] = "idle"]
  /\ result' = [result EXCEPT ![c] = ok]
  /\ req' = [req EXCEPT ![c] = NoRequest]

(* Take the mutex within I2C_TIMEOUT_MS, or return false.                  *)
Lock(t) ==
  /\ ~ si /\ i2cPc[t] = "lock"
  /\ \/ mutex = NoRequester /\ mutex' = t /\ i2cPc' = [i2cPc EXCEPT ![t] = "clear"] /\ UNCHANGED <<req, result>>
     \/ mutex # NoRequester /\ I2cReturn(t, FALSE) /\ UNCHANGED mutex
  /\ UNCHANGED <<osRunning, calls, late, signal, trx, busVars>>

ClearSignal(t) ==
  /\ ~ si /\ i2cPc[t] = "clear"
  /\ signal' = FALSE
  /\ i2cPc' = [i2cPc EXCEPT ![t] = "kick"]
  /\ UNCHANGED <<osRunning, mutex, req, result, calls, late, trx, busVars>>

i2cKickOffTransfer(c) ==
  /\ ~ si /\ i2cPc[c] = "kick"
  /\ trx' = [owner |-> c, read |-> req[c].read, size |-> req[c].size, ptr |-> 1,
             error |-> FALSE]
  /\ sta' = TRUE
  /\ moved' = <<>>
  /\ i2cPc' = [i2cPc EXCEPT ![c] = "wait"]
  /\ UNCHANGED <<osRunning, mutex, req, result, calls, late, signal,
                 stat, si, aa, dat, dev>>

Complete(c) ==
  /\ ~ si /\ i2cPc[c] = "wait"
  /\ signal /\ signal' = FALSE
  /\ I2cReturn(c, ~ trx.error)
  /\ mutex' = NoRequester
  /\ UNCHANGED <<osRunning, calls, late, trx, busVars>>

Mutant_WaitsForever(c) == FALSE /\ UNCHANGED i2cVars

(* I2C_TIMEOUT_MS passed.  Polling, before the scheduler runs, does not    *)
(* tell a timeout from a completion.                                       *)
WaitTimeout(c) ==
  /\ ~ si /\ i2cPc[c] = "wait" /\ ~ signal
  /\ I2cReturn(c, c = Boot /\ ~ trx.error)
  /\ mutex' = NoRequester
  /\ late' = TRUE
  /\ UNCHANGED <<osRunning, calls, signal, trx, busVars>>

-----------------------------------------------------------------------------
transfer(c) ==
  Lock(c) \/ ClearSignal(c) \/ i2cKickOffTransfer(c) \/ Complete(c) \/ WaitTimeout(c)

I2cNext ==
  \/ Bus
  \/ handleInterrupt
  \/ StartScheduler
  \/ \E c \in Callers :
       \/ \E read \in BOOLEAN, size \in Sizes : Call(c, read, size)
       \/ transfer(c)

(* Interrupts are served and callers are scheduled; nothing makes a device *)
(* answer.                                                                 *)
I2cFairness ==
  /\ WF_i2cVars(handleInterrupt)
  /\ \A c \in Callers : WF_i2cVars(transfer(c))

I2cSpec == I2cInit /\ [][I2cNext]_i2cVars /\ I2cFairness

-----------------------------------------------------------------------------
(* Types; the mutex is held exactly inside the transfer of a task.         *)
I2cTypeOK ==
  /\ osRunning \in BOOLEAN /\ signal \in BOOLEAN /\ late \in BOOLEAN
  /\ si \in BOOLEAN /\ sta \in BOOLEAN /\ aa \in BOOLEAN
  /\ trx \in [owner : Callers, read : BOOLEAN, size : 0 .. (Wrap - 1), ptr : Nat, error : BOOLEAN]
  /\ i2cPc \in [Callers -> {"idle", "lock", "clear", "kick", "wait"}]
  /\ mutex \in I2cTasks \cup {NoRequester}
  /\ \A t \in I2cTasks : mutex = t <=> i2cPc[t] \in {"clear", "kick", "wait"}
  /\ i2cPc[Boot] \in {"idle", "kick", "wait"} /\ (osRunning => i2cPc[Boot] = "idle")
  /\ ~ osRunning => \A t \in I2cTasks : i2cPc[t] = "idle"
  /\ req \in [Callers -> [read : BOOLEAN, size : Sizes \cup {0}]]
  /\ result \in [Callers -> BOOLEAN]
  /\ calls \in Nat
  /\ stat \in Status
  /\ dat \in (Callers \cup {NoRequester}) \X Nat /\ dev \in (Callers \cup {NoRequester}) \X Nat
  /\ moved \in Seq(((Callers \cup {NoRequester}) \X Nat) \X Byte)

(* Until a transfer times out, what happens on the bus stays within it:    *)
(* the bus is busy only during the transfer it works for, the signal is    *)
(* given only once it is done with it, and no byte is stored or sent       *)
(* beyond the end of the caller's buffer.                                  *)
StaysInTransfer ==
  ~ late =>
    /\ stat # "idle" \/ sta => i2cPc[trx.owner] = "wait"
    /\ signal => (stat = "idle" /\ ~ sta) \/ Storm
    /\ i2cPc[trx.owner] = "wait" =>
         \A i \in DOMAIN moved : moved[i][2][2] \in 1 .. req[trx.owner].size

(* Every byte of c's transfer, at its register, in order.                  *)
Whole(c) == [i \in 1 .. req[c].size |-> <<<<c, i>>, <<c, i>>>>]

(* transfer() returns true only if all bytes were moved, until one times   *)
(* out.                                                                    *)
TrueMeansMoved ==
  [][ \A c \in Callers :
        i2cPc[c] = "wait" /\ i2cPc'[c] = "idle" /\ result'[c] /\ ~ late' => moved = Whole(c) ]_i2cVars

(* Every transfer returns, also if the device does not answer, as long as  *)
(* the interrupt does not get stuck.                                       *)
TransferReturns == \A c \in Callers : i2cPc[c] # "idle" ~> i2cPc[c] = "idle" \/ Storm

(* i2c_base.hpp:101: checkDeviceResponse() tells whether a device responds  *)
(* to its address.  It returns when the device does not.                   *)
AbsentDeviceIsReported ==
  \A c \in Callers :
    i2cPc[c] = "wait" /\ stat = "slaveAddressNacked" ~> i2cPc[c] = "idle"
=============================================================================
