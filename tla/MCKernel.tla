------------------------------ MODULE MCKernel ------------------------------
(* The kernel, and the devices whose interrupts share state with tasks.    *)
(* Each behaviour is one of the part it chooses; the others keep their     *)
(* initial states.                                                         *)
EXTENDS KernelQueue, KernelTime, MutexInheritance, Uart, SysTimer, RtcAlarm,
        EventGroup

CONSTANTS t1, t2, t3, bit1, bit2

VARIABLE part

Parts == {"queue", "time", "mutex", "uart", "timer", "alarm", "events"}

(* t1 runs at a lower priority than t2 and t3.                             *)
TwoLevels == {[t \in MiTasks |-> IF t = t1 THEN 1 ELSE 2]}

(* t2 may put its characters past printf()'s semaphore.                    *)
DirectOf == {{}, {t2}}

(* t1 prints two characters, t2 and the boot code one.                     *)
CharsOf == [p \in Putters |-> IF p = t1 THEN 2 ELSE 1]

AlarmsOf ==
  {[list |-> "timed", time |-> Day - 1], [list |-> "everyMinute", time |-> 0],
   [list |-> "everyHour", time |-> 0]}

(* The watchdog task's wait for both, a wait for either, and for one.      *)
AsksOf ==
  {[bits |-> {bit1, bit2}, opts |-> {"all", "clear"}], [bits |-> {bit1, bit2}, opts |-> {"clear"}],
   [bits |-> {bit1}, opts |-> {}]}

Init ==
  /\ part \in Parts
  /\ KqInit /\ KtInit /\ MiInit /\ UartInit /\ SysTimerInit /\ RtcInit /\ EgInit
  /\ part # "uart" => direct = {}
  /\ part # "alarm" => rtcNow = 0

Next ==
  \/ part = "queue" /\ KqNext /\ UNCHANGED <<ktVars, miVars, uartVars, sysVars, rtcVars, egVars, part>>
  \/ part = "time" /\ KtNext /\ UNCHANGED <<kqVars, miVars, uartVars, sysVars, rtcVars, egVars, part>>
  \/ part = "mutex" /\ MiNext /\ UNCHANGED <<kqVars, ktVars, uartVars, sysVars, rtcVars, egVars, part>>
  \/ part = "uart" /\ UartNext /\ UNCHANGED <<kqVars, ktVars, miVars, sysVars, rtcVars, egVars, part>>
  \/ part = "timer" /\ SysTimerNext /\ UNCHANGED <<kqVars, ktVars, miVars, uartVars, rtcVars, egVars, part>>
  \/ part = "alarm" /\ RtcNext /\ UNCHANGED <<kqVars, ktVars, miVars, uartVars, sysVars, egVars, part>>
  \/ part = "events" /\ EgNext /\ UNCHANGED <<kqVars, ktVars, miVars, uartVars, sysVars, rtcVars, part>>

vars == <<kqVars, ktVars, miVars, uartVars, sysVars, rtcVars, egVars, part>>

Spec == Init /\ [][Next]_vars

(* Every variable of every part has its type; in the kernel's time, every  *)
(* task is in exactly one of the lists of tasks, and in the UART driver    *)
(* every character is in exactly one place.                                *)
KernelTypeOK ==
  /\ part = "queue" => KqTypeOK
  /\ part = "time" => KtTypeOK /\ OneList
  /\ part = "mutex" => MiTypeOK
  /\ part = "uart" => UartTypeOK /\ CharInOnePlace
  /\ part = "timer" => SysTimerTypeOK
  /\ part = "alarm" => RtcTypeOK
  /\ part = "events" => EgTypeOK
=============================================================================
