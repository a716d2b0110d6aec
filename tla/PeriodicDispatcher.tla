------------------------- MODULE PeriodicDispatcher -------------------------
(***************************************************************************)
(* The periodic scheduler of L5_Application/periodic_scheduler.  A         *)
(* dispatcher task runs every millisecond and, through a cascade of        *)
(* counters, gives the binary semaphores of four tasks that call           *)
(* period_1Hz(), period_10Hz(), period_100Hz() and period_1000Hz().        *)
(* Finding the semaphore of a task still given when the task is due again  *)
(* is an overrun: it is reported and the system reboots.                   *)
(***************************************************************************)
EXTENDS Naturals

(* Position of each task in sems[], counters[] and overrunMsg[].           *)
prd_1Hz == 0
prd_10Hz == 1
prd_100Hz == 2
prd_1000Hz == 3
Levels == prd_1Hz .. prd_1000Hz

CONSTANT Frequency  \* argument of handlePeriodicSemaphore() for each level

ASSUME FrequencyAssumption == Frequency \in [Levels -> 1 .. 255]

VARIABLES
  counters,    \* counters[l] : static uint8_t of handlePeriodicSemaphore()
  sems,        \* sems[l] : whether the binary semaphore of level l is given
  running,     \* running[l] : whether the callback of level l is executing
  dispatcher,  \* "sleeping" until the next millisecond, or "reporting" an overrun
  phase,       \* history: milliseconds since boot, modulo the period of level 0
  owed         \* history: activations of l due and not yet begun, up to MaxOwed

prdVars == <<counters, sems, running, dispatcher, phase, owed>>

-----------------------------------------------------------------------------
(* The intended schedule, stated without the cascade: level l is due at    *)
(* every multiple of its period, in milliseconds.                          *)

Period1000Hz == Frequency[prd_1000Hz]
Period100Hz == Period1000Hz * Frequency[prd_100Hz]
Period10Hz == Period100Hz * Frequency[prd_10Hz]
Period1Hz == Period10Hz * Frequency[prd_1Hz]

Period == [l \in Levels |-> CASE l = prd_1000Hz -> Period1000Hz
                              [] l = prd_100Hz -> Period100Hz
                              [] l = prd_10Hz -> Period10Hz
                              [] l = prd_1Hz -> Period1Hz]

NextPhase == IF phase + 1 = Period1Hz THEN 0 ELSE phase + 1

IsMultiple(t, n) == \E k \in 0 .. t : t = k * n

Due(l) == IsMultiple(NextPhase, Period[l])

MaxOwed == 2  \* the history counts no further: 2 is one too many already

-----------------------------------------------------------------------------
PrdInit ==
  /\ counters = [l \in Levels |-> 0]
  /\ sems = [l \in Levels |-> FALSE]
  /\ running = [l \in Levels |-> FALSE]
  /\ dispatcher = "sleeping"
  /\ phase = 0
  /\ owed = [l \in Levels |-> 0]

Mutant_WrapsLate(l) == counters[l] = Frequency[l]

(* ++counters[l] == frequency                                              *)
Wraps(l) == counters[l] + 1 = Frequency[l]

(* run() reaches level l when every faster level fired in this millisecond *)
(* and none of them overran (sys_reboot_abnormal() does not return).       *)
Reached(l) == \A k \in (l + 1) .. prd_1000Hz : Wraps(k) /\ ~ sems[k]

Fires(l) == Reached(l) /\ Wraps(l)

Mutant_OverrunUnseen(l) == FALSE
Mutant_OverrunOnResidue(l) == Fires(l) /\ running[l]

(* The semaphore can still be taken: the task has not begun since it was   *)
(* last given.                                                             *)
Overruns(l) == Fires(l) /\ sems[l]

Mutant_NoReset(l) == counters[l] + 1

NextCounter(l) == IF Wraps(l) THEN 0 ELSE counters[l] + 1

(* periodicSchedulerTask::run(): the dispatcher has the highest priority   *)
(* of the system, so no period task runs during it.                        *)
Dispatch ==
  /\ dispatcher = "sleeping"
  /\ counters' = [l \in Levels |-> IF Reached(l) THEN NextCounter(l) ELSE counters[l]]
  /\ sems' = [l \in Levels |-> IF Fires(l) THEN ~ Overruns(l) ELSE sems[l]]
  /\ dispatcher' = IF \E l \in Levels : Overruns(l) THEN "reporting" ELSE "sleeping"
  /\ phase' = NextPhase
  /\ owed' = [l \in Levels |-> IF Due(l) /\ owed[l] < MaxOwed THEN owed[l] + 1 ELSE owed[l]]
  /\ UNCHANGED running

(* puts(), Storage::append() and sys_reboot_abnormal(): the boot that      *)
(* follows starts over.  The report does I/O, so other tasks run before it.*)
Reboot ==
  /\ dispatcher = "reporting"
  /\ counters' = [l \in Levels |-> 0]
  /\ sems' = [l \in Levels |-> FALSE]
  /\ running' = [l \in Levels |-> FALSE]
  /\ dispatcher' = "sleeping"
  /\ phase' = 0
  /\ owed' = [l \in Levels |-> 0]

(* Level l is scheduled when no faster (higher priority) task is ready.    *)
HasCpu(l) == \A k \in (l + 1) .. prd_1000Hz : ~ sems[k] /\ ~ running[k]

(* period_task_*(): xSemaphoreTake() succeeds and the callback starts.     *)
Begin(l) ==
  /\ sems[l] /\ ~ running[l] /\ HasCpu(l)
  /\ sems' = [sems EXCEPT ![l] = FALSE]
  /\ running' = [running EXCEPT ![l] = TRUE]
  /\ owed' = [owed EXCEPT ![l] = @ - 1]
  /\ UNCHANGED <<counters, dispatcher, phase>>

(* The callback returns; how long it takes is up to the application.       *)
Finish(l) ==
  /\ running[l] /\ HasCpu(l)
  /\ running' = [running EXCEPT ![l] = FALSE]
  /\ UNCHANGED <<counters, sems, dispatcher, phase, owed>>

PrdNext ==
  \/ Dispatch
  \/ Reboot
  \/ \E l \in Levels : Begin(l) \/ Finish(l)

(* The dispatcher preempts every other task and its report ends; nothing   *)
(* is assumed of the callbacks, which may never return.                     *)
PrdFairness == WF_prdVars(Dispatch) /\ WF_prdVars(Reboot)

PrdSpec == PrdInit /\ [][PrdNext]_prdVars /\ PrdFairness

-----------------------------------------------------------------------------
(* Every variable has its type; a counter never reaches its frequency.     *)
PrdTypeOK ==
  /\ counters \in [Levels -> Nat]
  /\ \A l \in Levels : counters[l] < Frequency[l]
  /\ sems \in [Levels -> BOOLEAN]
  /\ running \in [Levels -> BOOLEAN]
  /\ dispatcher \in {"sleeping", "reporting"}
  /\ phase \in Nat
  /\ owed \in [Levels -> 0 .. MaxOwed]

(* While the system runs, the activations that the schedule has made due   *)
(* and no task has begun are exactly the given semaphores: the cascade of  *)
(* counters gives each task at the multiples of its period and no other    *)
(* time, and the binary semaphores never absorb an activation.             *)
ActivationsOnSchedule ==
  dispatcher = "sleeping" =>
    \A l \in Levels : owed[l] = IF sems[l] THEN 1 ELSE 0

(* The counters are the digits of the milliseconds since boot.             *)
PhaseIsCount ==
  dispatcher = "sleeping" =>
    phase = counters[prd_1000Hz] + Period1000Hz * counters[prd_100Hz]
              + Period100Hz * counters[prd_10Hz] + Period10Hz * counters[prd_1Hz]

(* A given semaphore stands for an activation, also during a report.       *)
SemsAreOwed == \A l \in Levels : sems[l] => owed[l] >= 1

(* The inductive invariant.                                                *)
PrdIInv ==
  /\ PrdTypeOK
  /\ PhaseIsCount
  /\ SemsAreOwed
  /\ ActivationsOnSchedule

(* The system reboots only for an overrun of a task that is due: it was    *)
(* given the semaphore a whole period ago and has not begun since.         *)
RebootsOnlyForOverrun ==
  [][dispatcher' = "reporting" /\ dispatcher = "sleeping" =>
       \E l \in Levels : owed'[l] = MaxOwed]_prdVars

(* No activation waits for ever: the task begins or the system reboots.    *)
ActivationIsServed == \A l \in Levels : sems[l] ~> ~ sems[l]

(* What period_callbacks.cpp:28 says: "Running over the time slot will     *)
(* reset the system".  A callback still executing when its next slot       *)
(* begins has run over its slot.                                           *)
OverrunResets ==
  [][Dispatch => \A l \in Levels : Due(l) /\ running[l] => dispatcher' = "reporting"]_prdVars
=============================================================================
