------------------------------ MODULE KernelTime ------------------------------
(***************************************************************************)
(* Time in the kernel, L1_FreeRTOS/src/tasks.c: the tick that wraps at     *)
(* Wheel, the two lists of delayed tasks, the block time of a call, ticks  *)
(* and events that come while a task has suspended the scheduler, and      *)
(* tasks that suspend each other.  Any task that is ready may run: which   *)
(* one does, by priority, matters to nothing here.                         *)
(***************************************************************************)
EXTENDS Integers, FiniteSets

CONSTANTS
  KtTasks,   \* the tasks
  NobodyKt,  \* not a task
  Wheel,     \* one more than the largest tick, 2^32 in the build
  MaxWait,   \* bound on the block times and delays
  MaxTicks   \* bound on the number of ticks, less than two turns of the wheel:
             \* xTaskCheckForTimeOut() cannot tell a second turn from none

ASSUME KernelTimeAssumption ==
  /\ NobodyKt \notin KtTasks
  /\ Wheel \in Nat /\ MaxWait \in Nat /\ MaxTicks \in Nat
  /\ 0 < MaxWait /\ MaxWait < Wheel - 1
  /\ MaxTicks < 2 * Wheel

VARIABLES
  tickCount,     \* xTickCount
  overflows,     \* xNumOfOverflows
  nextUnblock,   \* xNextTaskUnblockTime
  readyTasks,    \* pxReadyTasksLists
  delayed,       \* pxDelayedTaskList
  overflowed,    \* pxOverflowDelayedTaskList
  asleep,        \* xSuspendedTaskList
  onEvent,       \* the list of the tasks that wait for an event
  pendingReady,  \* xPendingReadyList
  wakeTick,      \* wakeTick[t] : the item value in the delayed list, xTimeToWake
  entering,      \* entering[t] : pxTimeOut of the call of t
  ticksToWait,   \* ticksToWait[t] : what is left of its block time
  prevWake,      \* prevWake[t] : *pxPreviousWakeTime of vTaskDelayUntil()
  ktOwner,       \* the task that suspended the scheduler, or NobodyKt
  pendedTicks,   \* uxPendedTicks
  ktPc,          \* ktPc[t] : where t is in its call
  now,           \* history: the ticks there have been
  due            \* history: due[t] : the tick at which the wait of t is over

listsVars == <<readyTasks, delayed, overflowed, asleep, onEvent, pendingReady>>
clockVars == <<tickCount, overflows, nextUnblock>>
waitVars == <<wakeTick, entering, ticksToWait, prevWake, due>>
ktVars == <<clockVars, listsVars, waitVars, ktOwner, pendedTicks, ktPc, now>>

MaxDelay == Wheel - 1        \* portMAX_DELAY
processed == now - pendedTicks
Forever == MaxTicks + Wheel  \* the end of a wait with portMAX_DELAY

KtInit ==
  /\ tickCount = 0 /\ overflows = 0 /\ nextUnblock = MaxDelay
  /\ readyTasks = KtTasks
  /\ delayed = {} /\ overflowed = {} /\ asleep = {} /\ onEvent = {} /\ pendingReady = {}
  /\ wakeTick = [t \in KtTasks |-> 0]
  /\ entering = [t \in KtTasks |-> [over |-> 0, tick |-> 0]]
  /\ ticksToWait = [t \in KtTasks |-> 0]
  /\ prevWake = [t \in KtTasks |-> 0]
  /\ ktOwner = NobodyKt /\ pendedTicks = 0
  /\ ktPc = [t \in KtTasks |-> "run"]
  /\ now = 0
  /\ due = [t \in KtTasks |-> 0]

-----------------------------------------------------------------------------
(* The item value of the head of a delayed list.                           *)
Earliest(S) ==
  IF S = {} THEN MaxDelay
  ELSE CHOOSE x \in {wakeTick[t] : t \in S} : \A t \in S : x <= wakeTick[t]

(* xTaskIncrementTick() while the scheduler runs: the lists are switched   *)
(* when the tick wraps, and the tasks whose tick has come become ready.    *)
Mutant_IncrementTick ==
  LET tick == (tickCount + 1) % Wheel
      list == IF tick = 0 THEN overflowed ELSE delayed
      next == nextUnblock
      over == IF tick >= next THEN {t \in list : wakeTick[t] <= tick} ELSE {}
  IN  /\ tickCount' = tick
      /\ overflows' = IF tick = 0 THEN overflows + 1 ELSE overflows
      /\ delayed' = list \ over
      /\ overflowed' = IF tick = 0 THEN delayed ELSE overflowed
      /\ nextUnblock' = IF tick >= next THEN Earliest(list \ over) ELSE next
      /\ readyTasks' = readyTasks \cup over
      /\ onEvent' = onEvent \ over
      /\ UNCHANGED <<asleep, pendingReady>>

IncrementTick ==
  LET tick == (tickCount + 1) % Wheel
      list == IF tick = 0 THEN overflowed ELSE delayed
      next == IF tick = 0 THEN Earliest(list) ELSE nextUnblock
      over == IF tick >= next THEN {t \in list : wakeTick[t] <= tick} ELSE {}
  IN  /\ tickCount' = tick
      /\ overflows' = IF tick = 0 THEN overflows + 1 ELSE overflows
      /\ delayed' = list \ over
      /\ overflowed' = IF tick = 0 THEN delayed ELSE overflowed
      /\ nextUnblock' = IF tick >= next THEN Earliest(list \ over) ELSE next
      /\ readyTasks' = readyTasks \cup over
      /\ onEvent' = onEvent \ over
      /\ UNCHANGED <<asleep, pendingReady>>

(* xTaskResumeAll() disables interrupts until it is done.                  *)
Resuming == \E t \in KtTasks : ktPc[t] = "resume"

SysTick ==
  /\ ~ Resuming /\ now < MaxTicks
  /\ now' = now + 1
  /\ IF ktOwner = NobodyKt
       THEN IncrementTick /\ UNCHANGED pendedTicks
       ELSE pendedTicks' = pendedTicks + 1 /\ UNCHANGED <<clockVars, listsVars>>
  /\ UNCHANGED <<waitVars, ktOwner, ktPc>>

(* xTaskRemoveFromEventList(), by an interrupt or by a task.               *)
xTaskRemoveFromEventList(t) ==
  /\ ~ Resuming /\ t \in onEvent
  /\ onEvent' = onEvent \ {t}
  /\ IF ktOwner = NobodyKt
       THEN /\ readyTasks' = readyTasks \cup {t}
            /\ delayed' = delayed \ {t} /\ overflowed' = overflowed \ {t}
            /\ asleep' = asleep \ {t}
            /\ UNCHANGED pendingReady
       ELSE /\ pendingReady' = pendingReady \cup {t}
            /\ UNCHANGED <<readyTasks, delayed, overflowed, asleep>>
  /\ UNCHANGED <<clockVars, waitVars, ktOwner, pendedTicks, ktPc, now>>

-----------------------------------------------------------------------------
(* A task runs if it is ready and no other has suspended the scheduler.    *)
RunsAt(t, where) == t \in readyTasks /\ ktOwner \in {NobodyKt, t} /\ ktPc[t] = where

Goes(t, where) == ktPc' = [ktPc EXCEPT ![t] = where]

(* A wait to the time w; a tick below the present one is in the next turn. *)
prvAddCurrentTaskToDelayedList(t, w) ==
  /\ wakeTick' = [wakeTick EXCEPT ![t] = w]
  /\ readyTasks' = readyTasks \ {t}
  /\ IF w < tickCount
       THEN overflowed' = overflowed \cup {t} /\ UNCHANGED <<delayed, nextUnblock>>
       ELSE /\ delayed' = delayed \cup {t}
            /\ nextUnblock' = IF w < nextUnblock THEN w ELSE nextUnblock
            /\ UNCHANGED overflowed

(* vTaskDelay(): suspends the scheduler, then delays; ticks may be pended. *)
CallDelay(t, n) ==
  /\ RunsAt(t, "run") /\ ktOwner = NobodyKt
  /\ ktOwner' = t
  /\ ticksToWait' = [ticksToWait EXCEPT ![t] = n]
  /\ due' = [due EXCEPT ![t] = now + n]
  /\ Goes(t, "delay")
  /\ UNCHANGED <<clockVars, listsVars, wakeTick, entering, prevWake, pendedTicks, now>>

vTaskDelay(t) ==
  /\ RunsAt(t, "delay")
  /\ prvAddCurrentTaskToDelayedList(t, (tickCount + ticksToWait[t]) % Wheel)
  /\ ticksToWait' = [ticksToWait EXCEPT ![t] = 0]
  /\ Goes(t, "resume")
  /\ UNCHANGED <<tickCount, overflows, asleep, onEvent, pendingReady>>
  /\ UNCHANGED <<entering, prevWake, due, ktOwner, pendedTicks, now>>

(* vTaskDelayUntil(), n after the time before, which lies less than a turn *)
(* of the tick back.                                                       *)
CallDelayUntil(t, n) ==
  /\ RunsAt(t, "run") /\ ktOwner = NobodyKt
  /\ ktOwner' = t
  /\ ticksToWait' = [ticksToWait EXCEPT ![t] = n]
  /\ \E ago \in 0 .. (Wheel - 1 - n) :
       /\ ago <= now
       /\ prevWake' = [prevWake EXCEPT ![t] = (now - ago) % Wheel]
       /\ due' = [due EXCEPT ![t] = now - ago + n]
  /\ Goes(t, "until")
  /\ UNCHANGED <<clockVars, listsVars, wakeTick, entering, pendedTicks, now>>

Mutant_vTaskDelayUntil(t) ==
  LET wake == (prevWake[t] + ticksToWait[t]) % Wheel
  IN  /\ RunsAt(t, "until")
      /\ prevWake' = [prevWake EXCEPT ![t] = wake]
      /\ ticksToWait' = [ticksToWait EXCEPT ![t] = 0]
      /\ IF wake > tickCount
           THEN prvAddCurrentTaskToDelayedList(t, wake) /\ Goes(t, "resume")
           ELSE /\ Goes(t, "passed")
                /\ UNCHANGED <<wakeTick, readyTasks, delayed, overflowed, nextUnblock>>
      /\ UNCHANGED <<tickCount, overflows, asleep, onEvent, pendingReady>>
      /\ UNCHANGED <<entering, due, ktOwner, pendedTicks, now>>

vTaskDelayUntil(t) ==
  LET wake == (prevWake[t] + ticksToWait[t]) % Wheel
      should == IF tickCount < prevWake[t]
                  THEN wake < prevWake[t] /\ wake > tickCount
                  ELSE wake < prevWake[t] \/ wake > tickCount
  IN  /\ RunsAt(t, "until")
      /\ prevWake' = [prevWake EXCEPT ![t] = wake]
      /\ ticksToWait' = [ticksToWait EXCEPT ![t] = 0]
      /\ IF should
           THEN prvAddCurrentTaskToDelayedList(t, wake) /\ Goes(t, "resume")
           ELSE /\ Goes(t, "passed")
                /\ UNCHANGED <<wakeTick, readyTasks, delayed, overflowed, nextUnblock>>
      /\ UNCHANGED <<tickCount, overflows, asleep, onEvent, pendingReady>>
      /\ UNCHANGED <<entering, due, ktOwner, pendedTicks, now>>

-----------------------------------------------------------------------------
(* A call that waits for an event: vTaskSetTimeOutState() when it first    *)
(* finds that it has to, then, each time, vTaskSuspendAll().               *)
CallWait(t, n) ==
  /\ RunsAt(t, "run") /\ ktOwner = NobodyKt
  /\ entering' = [entering EXCEPT ![t] = [over |-> overflows, tick |-> tickCount]]
  /\ ticksToWait' = [ticksToWait EXCEPT ![t] = n]
  /\ due' = [due EXCEPT ![t] = IF n = MaxDelay THEN Forever ELSE now + n]
  /\ Goes(t, "lock")
  /\ UNCHANGED <<clockVars, listsVars, wakeTick, prevWake, ktOwner, pendedTicks, now>>

LockScheduler(t) ==
  /\ RunsAt(t, "lock") /\ ktOwner = NobodyKt
  /\ ktOwner' = t
  /\ Goes(t, "check")
  /\ UNCHANGED <<clockVars, listsVars, waitVars, pendedTicks, now>>

xTaskCheckForTimeOut(t) ==
  LET since == (tickCount - entering[t].tick) % Wheel
      turned == overflows # entering[t].over /\ tickCount >= entering[t].tick
  IN  /\ RunsAt(t, "check")
      /\ \/ /\ ticksToWait[t] = MaxDelay
            /\ Goes(t, "place")
            /\ UNCHANGED <<ticksToWait, entering>>
         \/ /\ ticksToWait[t] # MaxDelay /\ ~ turned /\ since < ticksToWait[t]
            /\ ticksToWait' = [ticksToWait EXCEPT ![t] = @ - since]
            /\ entering' = [entering EXCEPT ![t] = [over |-> overflows, tick |-> tickCount]]
            /\ Goes(t, "place")
         \/ /\ ticksToWait[t] # MaxDelay /\ (turned \/ since >= ticksToWait[t])
            /\ Goes(t, "passed")
            /\ UNCHANGED <<ticksToWait, entering>>
      /\ UNCHANGED <<clockVars, listsVars, wakeTick, prevWake, due, ktOwner, pendedTicks, now>>

(* Without a limit the task goes to the suspended tasks.                   *)
vTaskPlaceOnEventList(t) ==
  /\ RunsAt(t, "place")
  /\ onEvent' = onEvent \cup {t}
  /\ IF ticksToWait[t] = MaxDelay
       THEN /\ readyTasks' = readyTasks \ {t} /\ asleep' = asleep \cup {t}
            /\ UNCHANGED <<wakeTick, delayed, overflowed, nextUnblock>>
       ELSE /\ prvAddCurrentTaskToDelayedList(t, (tickCount + ticksToWait[t]) % Wheel)
            /\ UNCHANGED asleep
  /\ Goes(t, "resume")
  /\ UNCHANGED <<tickCount, overflows, pendingReady>>
  /\ UNCHANGED <<entering, ticksToWait, prevWake, due, ktOwner, pendedTicks, now>>

(* The time is over, or there is no need to wait any more.                 *)
DoesNotWait(t) ==
  /\ \/ RunsAt(t, "passed") /\ ticksToWait' = [ticksToWait EXCEPT ![t] = 0]
     \/ RunsAt(t, "place") /\ UNCHANGED ticksToWait
  /\ Goes(t, "resume")
  /\ UNCHANGED <<clockVars, listsVars, wakeTick, entering, prevWake, due>>
  /\ UNCHANGED <<ktOwner, pendedTicks, now>>

-----------------------------------------------------------------------------
(* xTaskResumeAll(): the tasks that were woken meanwhile become ready,     *)
(* then the ticks are made up for one by one.                              *)
ResumePending(t) ==
  /\ ktPc[t] = "resume" /\ pendingReady # {}
  /\ readyTasks' = readyTasks \cup pendingReady
  /\ delayed' = delayed \ pendingReady /\ overflowed' = overflowed \ pendingReady
  /\ asleep' = asleep \ pendingReady
  /\ pendingReady' = {}
  /\ UNCHANGED <<clockVars, onEvent, waitVars, ktOwner, pendedTicks, ktPc, now>>

ResumeTick(t) ==
  /\ ktPc[t] = "resume" /\ pendingReady = {} /\ pendedTicks > 0
  /\ IncrementTick
  /\ pendedTicks' = pendedTicks - 1
  /\ UNCHANGED <<waitVars, ktOwner, ktPc, now>>

xTaskResumeAll(t) ==
  /\ ktPc[t] = "resume" /\ pendingReady = {} /\ pendedTicks = 0
  /\ ktOwner' = NobodyKt
  /\ Goes(t, "resumed")
  /\ UNCHANGED <<clockVars, listsVars, waitVars, pendedTicks, now>>

(* The task runs again: its call is over, or it looks for the event and,   *)
(* if it finds none, waits for what is left of its block time.             *)
Resumed(t) ==
  /\ RunsAt(t, "resumed") /\ ktOwner = NobodyKt
  /\ \/ /\ Goes(t, "run") /\ due' = [due EXCEPT ![t] = 0]
        /\ entering' = [entering EXCEPT ![t] = [over |-> 0, tick |-> 0]]
        /\ ticksToWait' = [ticksToWait EXCEPT ![t] = 0]
        /\ wakeTick' = [wakeTick EXCEPT ![t] = 0] /\ prevWake' = [prevWake EXCEPT ![t] = 0]
     \/ ticksToWait[t] # 0 /\ Goes(t, "lock") /\ UNCHANGED waitVars
  /\ UNCHANGED <<clockVars, listsVars, ktOwner, pendedTicks, now>>

-----------------------------------------------------------------------------
(* A task, or t itself, suspends u, whatever u waits for.                  *)
vTaskSuspend(t, u) ==
  /\ RunsAt(t, "run") /\ ktOwner = NobodyKt
  /\ readyTasks' = readyTasks \ {u} /\ delayed' = delayed \ {u}
  /\ overflowed' = overflowed \ {u} /\ onEvent' = onEvent \ {u}
  /\ asleep' = asleep \cup {u}
  /\ nextUnblock' = IF u = t THEN nextUnblock ELSE Earliest(delayed \ {u})
  /\ UNCHANGED <<tickCount, overflows, pendingReady, waitVars, ktOwner, pendedTicks, ktPc, now>>

(* prvTaskIsTaskSuspended(): and not one that waits without a limit.       *)
Mutant_vTaskResume(t, u) ==
  /\ RunsAt(t, "run") /\ ktOwner = NobodyKt
  /\ u \in asleep
  /\ asleep' = asleep \ {u} /\ readyTasks' = readyTasks \cup {u}
  /\ UNCHANGED <<clockVars, delayed, overflowed, onEvent, pendingReady>>
  /\ UNCHANGED <<waitVars, ktOwner, pendedTicks, ktPc, now>>

vTaskResume(t, u) ==
  /\ RunsAt(t, "run") /\ ktOwner = NobodyKt
  /\ u \in asleep /\ u \notin pendingReady \cup onEvent
  /\ asleep' = asleep \ {u} /\ readyTasks' = readyTasks \cup {u}
  /\ UNCHANGED <<clockVars, delayed, overflowed, onEvent, pendingReady>>
  /\ UNCHANGED <<waitVars, ktOwner, pendedTicks, ktPc, now>>

-----------------------------------------------------------------------------
KtNext ==
  \/ SysTick
  \/ \E t \in KtTasks :
       \/ \E n \in 1 .. MaxWait : CallDelay(t, n) \/ CallDelayUntil(t, n) \/ CallWait(t, n)
       \/ CallWait(t, MaxDelay)
       \/ vTaskDelay(t) \/ vTaskDelayUntil(t)
       \/ LockScheduler(t) \/ xTaskCheckForTimeOut(t) \/ vTaskPlaceOnEventList(t) \/ DoesNotWait(t)
       \/ ResumePending(t) \/ ResumeTick(t) \/ xTaskResumeAll(t) \/ Resumed(t)
       \/ xTaskRemoveFromEventList(t)
       \/ \E u \in KtTasks : vTaskSuspend(t, u) \/ vTaskResume(t, u)

KtSpec == KtInit /\ [][KtNext]_ktVars

-----------------------------------------------------------------------------
KtTypeOK ==
  /\ tickCount \in 0 .. MaxDelay /\ overflows \in Nat /\ nextUnblock \in 0 .. MaxDelay
  /\ \A S \in {readyTasks, delayed, overflowed, asleep, onEvent, pendingReady} : S \subseteq KtTasks
  /\ wakeTick \in [KtTasks -> 0 .. MaxDelay]
  /\ entering \in [KtTasks -> [over : Nat, tick : 0 .. MaxDelay]]
  /\ ticksToWait \in [KtTasks -> 0 .. MaxDelay] /\ prevWake \in [KtTasks -> 0 .. MaxDelay]
  /\ ktOwner \in KtTasks \cup {NobodyKt}
  /\ now \in 0 .. MaxTicks /\ pendedTicks \in 0 .. now
  /\ due \in [KtTasks -> 0 .. Forever]
  /\ ktPc \in [KtTasks -> {"run", "delay", "until", "lock", "check", "place", "passed",
                           "resume", "resumed"}]

(* Every task is in exactly one of the lists of tasks, and those that wait *)
(* for an event are neither ready nor about to be.                         *)
OneList ==
  LET lists == <<readyTasks, delayed, overflowed, asleep>>
  IN  /\ \A t \in KtTasks : \E i \in 1 .. 4 : {j \in 1 .. 4 : t \in lists[j]} = {i}
      /\ readyTasks \cap (onEvent \cup pendingReady) = {} /\ onEvent \cap pendingReady = {}

(* A tick wakes exactly the delayed tasks whose time has come, none early  *)
(* and none late, however the tick wraps and whoever suspended the         *)
(* scheduler meanwhile.                                                    *)
TickWakesTheDue ==
  [][processed' # processed =>
       \A t \in delayed \cup overflowed :
         (t \in delayed' \cup overflowed') <=> due[t] > processed']_ktVars

(* A call gives up, and vTaskDelayUntil() does not delay, only if the time *)
(* to wait for is over; and a task goes to sleep only if it is not.        *)
GivesUpInTime ==
  \A t \in KtTasks :
    /\ ktPc[t] = "passed" => due[t] <= processed
    /\ ktPc[t] = "place" => due[t] > processed
    /\ t \in delayed \cup overflowed => due[t] > processed
=============================================================================
