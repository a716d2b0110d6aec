--------------------------- MODULE MutexInheritance ---------------------------
(***************************************************************************)
(* The kernel's mutexes and the priorities of the tasks that use them,     *)
(* L1_FreeRTOS/src/tasks.c and queue.c: while a task waits for a mutex,    *)
(* the holder has at least its priority.  The drivers take these mutexes   *)
(* around the SPI and I2C busses, the ADC and printf().                    *)
(***************************************************************************)
EXTENDS Integers, Sequences, FiniteSets, SequencesExt

CONSTANTS
  MiTasks,        \* the tasks
  Mutexes,        \* the mutexes
  NoHolder,       \* not a task
  BasePriorities  \* the choices for the priorities of the tasks

ASSUME MutexAssumption ==
  /\ IsFiniteSet(MiTasks) /\ NoHolder \notin MiTasks /\ Mutexes # {}
  /\ BasePriorities \subseteq [MiTasks -> Nat]

VARIABLES
  basePriority,  \* uxBasePriority
  taskPriority,  \* uxPriority, and the item value in the lists of waiting tasks
  mutexesHeld,   \* uxMutexesHeld
  holder,        \* holder[m] : pxMutexHolder; NoHolder when the mutex is free
  miWaiters,     \* miWaiters[m] : xTasksWaitingToReceive, in the order of the list
  miPc,          \* miPc[t] : "run", "try", "block", "wait" or "sleep"
  wants,         \* wants[t] : the mutex t tries to take, in its call
  blockedAt      \* history: the priority t had when it began to wait

miVars == <<basePriority, taskPriority, mutexesHeld, holder, miWaiters, miPc, wants, blockedAt>>

MiInit ==
  /\ basePriority \in BasePriorities /\ taskPriority = basePriority
  /\ mutexesHeld = [t \in MiTasks |-> 0]
  /\ holder = [m \in Mutexes |-> NoHolder]
  /\ miWaiters = [m \in Mutexes |-> <<>>]
  /\ miPc = [t \in MiTasks |-> "run"]
  /\ wants \in [MiTasks -> {CHOOSE m \in Mutexes : TRUE}]
  /\ blockedAt = [t \in MiTasks |-> 0]

-----------------------------------------------------------------------------
CanRun(t) == miPc[t] \in {"run", "try", "block"}

(* vTaskSwitchContext(): one of the ready tasks of the highest priority.   *)
IsCurrent(t) == CanRun(t) /\ \A u \in MiTasks : CanRun(u) => taskPriority[u] <= taskPriority[t]

IsAt(t, where) == IsCurrent(t) /\ miPc[t] = where

CallTake(t, m) ==
  /\ IsAt(t, "run") /\ holder[m] # t
  /\ wants' = [wants EXCEPT ![t] = m]
  /\ miPc' = [miPc EXCEPT ![t] = "try"]
  /\ UNCHANGED <<basePriority, taskPriority, mutexesHeld, holder, miWaiters, blockedAt>>

Take(t) ==
  /\ IsAt(t, "try") /\ holder[wants[t]] = NoHolder
  /\ holder' = [holder EXCEPT ![wants[t]] = t]
  /\ mutexesHeld' = [mutexesHeld EXCEPT ![t] = @ + 1]
  /\ miPc' = [miPc EXCEPT ![t] = "run"]
  /\ UNCHANGED <<basePriority, taskPriority, miWaiters, wants, blockedAt>>

(* Held by another: t goes on to wait, or returns, its block time over.    *)
NotFree(t) ==
  /\ IsAt(t, "try") /\ holder[wants[t]] # NoHolder
  /\ \E next \in {"block", "run"} : miPc' = [miPc EXCEPT ![t] = next]
  /\ UNCHANGED <<basePriority, taskPriority, mutexesHeld, holder, miWaiters, wants, blockedAt>>

(* vTaskPriorityInherit(), whatever the holder does.                       *)
Inherit(h, p) ==
  IF taskPriority[h] < p
    THEN taskPriority' = [taskPriority EXCEPT ![h] = p]
    ELSE UNCHANGED taskPriority

(* vListInsert(): before the first task of a lower priority.               *)
InsertByPriority(s, t) ==
  LET after == {i \in DOMAIN s : taskPriority[s[i]] < taskPriority[t]}
  IN  InsertAt(s, IF after = {} THEN Len(s) + 1 ELSE Min(after), t)

(* With the scheduler suspended: still held, so inherit and wait.          *)
Block(t) ==
  LET m == wants[t]
  IN  /\ IsAt(t, "block") /\ holder[m] # NoHolder
      /\ Inherit(holder[m], taskPriority[t])
      /\ miWaiters' = [miWaiters EXCEPT ![m] = InsertByPriority(@, t)]
      /\ blockedAt' = [blockedAt EXCEPT ![t] = taskPriority[t]]
      /\ miPc' = [miPc EXCEPT ![t] = "wait"]
      /\ UNCHANGED <<basePriority, mutexesHeld, holder, wants>>

(* It was given back meanwhile, or the block time is over.                 *)
NotBlocked(t) ==
  /\ IsAt(t, "block")
  /\ \/ holder[wants[t]] = NoHolder /\ miPc' = [miPc EXCEPT ![t] = "try"]
     \/ miPc' = [miPc EXCEPT ![t] = "run"]
  /\ UNCHANGED <<basePriority, taskPriority, mutexesHeld, holder, miWaiters, wants, blockedAt>>

(* The tick: the holder keeps what it inherited from t.                    *)
WaitTimeout(t) ==
  /\ miPc[t] = "wait"
  /\ \E i \in DOMAIN miWaiters[wants[t]] :
       /\ miWaiters[wants[t]][i] = t
       /\ miWaiters' = [miWaiters EXCEPT ![wants[t]] = RemoveAt(@, i)]
  /\ miPc' = [miPc EXCEPT ![t] = "try"]
  /\ UNCHANGED <<basePriority, taskPriority, mutexesHeld, holder, wants, blockedAt>>

(* xTaskPriorityDisinherit(): when the last mutex is given back.           *)
Mutant_Disinherit(t) ==
  /\ mutexesHeld' = [mutexesHeld EXCEPT ![t] = @ - 1]
  /\ taskPriority' = IF mutexesHeld[t] = 0
                       THEN [taskPriority EXCEPT ![t] = basePriority[t]] ELSE taskPriority

Disinherit(t) ==
  /\ mutexesHeld' = [mutexesHeld EXCEPT ![t] = @ - 1]
  /\ taskPriority' = IF mutexesHeld[t] = 1
                       THEN [taskPriority EXCEPT ![t] = basePriority[t]] ELSE taskPriority

Give(t, m) ==
  /\ IsAt(t, "run") /\ holder[m] = t
  /\ Disinherit(t)
  /\ holder' = [holder EXCEPT ![m] = NoHolder]
  /\ IF miWaiters[m] = <<>> THEN UNCHANGED <<miWaiters, miPc>>
     ELSE /\ miWaiters' = [miWaiters EXCEPT ![m] = Tail(@)]
          /\ miPc' = [miPc EXCEPT ![Head(miWaiters[m])] = "try"]
  /\ UNCHANGED <<basePriority, wants, blockedAt>>

(* A task may sleep, a holder too.                                         *)
Sleep(t) ==
  /\ IsAt(t, "run")
  /\ miPc' = [miPc EXCEPT ![t] = "sleep"]
  /\ UNCHANGED <<basePriority, taskPriority, mutexesHeld, holder, miWaiters, wants, blockedAt>>

WakeUp(t) ==
  /\ miPc[t] = "sleep"
  /\ miPc' = [miPc EXCEPT ![t] = "run"]
  /\ UNCHANGED <<basePriority, taskPriority, mutexesHeld, holder, miWaiters, wants, blockedAt>>

MiNext ==
  \E t \in MiTasks :
    \/ \E m \in Mutexes : CallTake(t, m) \/ Give(t, m)
    \/ Take(t) \/ NotFree(t) \/ Block(t) \/ NotBlocked(t) \/ WaitTimeout(t)
    \/ Sleep(t) \/ WakeUp(t)

MiSpec == MiInit /\ [][MiNext]_miVars

-----------------------------------------------------------------------------
MiTypeOK ==
  /\ basePriority \in BasePriorities
  /\ taskPriority \in [MiTasks -> Nat] /\ mutexesHeld \in [MiTasks -> Nat]
  /\ holder \in [Mutexes -> MiTasks \cup {NoHolder}]
  /\ miWaiters \in [Mutexes -> Seq(MiTasks)]
  /\ miPc \in [MiTasks -> {"run", "try", "block", "wait", "sleep"}]
  /\ wants \in [MiTasks -> Mutexes] /\ blockedAt \in [MiTasks -> Nat]

(* While tasks wait for a mutex, whoever holds it runs at the priority of  *)
(* the most urgent of them or above, whichever task took it before the one *)
(* that was woken, and whichever waits ended by a timeout.                 *)
HolderInherits ==
  \A m \in Mutexes :
    holder[m] # NoHolder =>
      \A i \in DOMAIN miWaiters[m] : blockedAt[miWaiters[m][i]] <= taskPriority[holder[m]]

(* What was inherited is given up again: a task that holds no mutex has    *)
(* its own priority, and the count of its mutexes is right.                *)
PriorityRestored ==
  \A t \in MiTasks :
    /\ mutexesHeld[t] = Cardinality({m \in Mutexes : holder[m] = t})
    /\ (\A m \in Mutexes : holder[m] # t) => taskPriority[t] = basePriority[t]
    /\ taskPriority[t] >= basePriority[t]

(* Priorities are lent while a mutex is waited for, and no longer.         *)
PriorityInheritance == HolderInherits /\ PriorityRestored
=============================================================================
