---------------------------- MODULE TaskFramework ----------------------------
(***************************************************************************)
(* The start of the tasks, L3_Utils/src/scheduler_task.cpp: main() adds    *)
(* tasks to a list and calls scheduler_start(); one of the tasks calls     *)
(* taskEntry() for all, the others wait at a counting semaphore until it   *)
(* has; then each loops over its run().  The kernel gives the processor to *)
(* the tasks of the highest priority that are ready.                       *)
(***************************************************************************)
EXTENDS Integers, Sequences, FiniteSets, Functions, FiniteSetsExt

CONSTANTS
  TfTasks,     \* the tasks main() may add
  NobodyTask,  \* not a task
  Priorities,  \* the choices for the priorities of the tasks
  Stacks,      \* the choices for their stack sizes
  Delaying     \* the choices for the tasks that call setRunDuration()

ASSUME TfAssumption ==
  /\ IsFiniteSet(TfTasks) /\ NobodyTask \notin TfTasks
  /\ Priorities \subseteq [TfTasks -> Nat] /\ Stacks \subseteq [TfTasks -> Nat \ {0}]
  /\ Delaying \subseteq SUBSET TfTasks

VARIABLES
  priority, stack, delays,  \* the choices made for the tasks
  taskList,   \* gpTaskList
  tfOs,       \* "boot", "refused" or "started"
  entryTask,  \* gTaskEntryTaskHandle
  permits,    \* gRunTaskSemaphore
  given,      \* how often it was given
  nextEntry,  \* the task of the list whose taskEntry() is called next
  entryFailed,\* failure, of the task that calls them
  tfPc,       \* tfPc[t] : where t is in scheduler_c_task_private()
  suspended,  \* the suspended tasks
  entered,    \* history: the tasks whose taskEntry() returned true
  ran,        \* history: the tasks whose run() was called
  meddled     \* history: a task suspended another one

config == <<priority, stack, delays>>
startVars == <<taskList, tfOs, entryTask>>
entryVars == <<nextEntry, entryFailed, entered>>
semVars == <<permits, given>>
tfVars == <<config, startVars, entryVars, semVars, tfPc, suspended, ran, meddled>>

Listed == Range(taskList)

TfInit ==
  /\ priority \in Priorities /\ stack \in Stacks /\ delays \in Delaying
  /\ taskList = <<>> /\ tfOs = "boot" /\ entryTask = NobodyTask
  /\ permits = 0 /\ given = 0
  /\ nextEntry = 1 /\ entryFailed = FALSE /\ entered = {}
  /\ tfPc = [t \in TfTasks |-> "none"]
  /\ suspended = {} /\ ran = {} /\ meddled = FALSE

-----------------------------------------------------------------------------
(* New tasks go to the front of the list.                                  *)
scheduler_add_task(t) ==
  /\ tfOs = "boot" /\ t \notin Listed
  /\ taskList' = <<t>> \o taskList
  /\ UNCHANGED <<config, tfOs, entryTask, entryVars, semVars, tfPc, suspended, ran, meddled>>

(* The first task with the largest stack calls taskEntry() for all.        *)
HighestStack ==
  taskList[Min({i \in DOMAIN taskList :
                  \A j \in DOMAIN taskList : stack[taskList[j]] <= stack[taskList[i]]})]

(* scheduler_init_all() creates every task, then calls every init(); if    *)
(* any of it fails, or there is no task, the scheduler is not started.     *)
scheduler_start ==
  /\ tfOs = "boot"
  /\ \E failing \in SUBSET Listed :
       tfOs' = IF taskList = <<>> \/ failing # {} THEN "refused" ELSE "started"
  /\ entryTask' = IF taskList = <<>> THEN NobodyTask ELSE HighestStack
  /\ tfPc' = IF tfOs' = "refused" THEN tfPc
             ELSE [t \in TfTasks |-> IF t = entryTask' THEN "entries"
                                     ELSE IF t \in Listed THEN "take" ELSE "none"]
  /\ UNCHANGED <<config, taskList, entryVars, semVars, suspended, ran, meddled>>

-----------------------------------------------------------------------------
(* The kernel: the tasks that could go on, and those that do.              *)

Ready(t) ==
  /\ tfOs = "started" /\ t \in Listed \ suspended
  /\ tfPc[t] \in {"entries", "give", "run"} \/ (tfPc[t] = "take" /\ permits > 0)

HasProcessor(t) == Ready(t) /\ \A u \in Listed : Ready(u) => priority[u] <= priority[t]

-----------------------------------------------------------------------------
(* scheduler_c_task_private()                                              *)

Mutant_CallTaskEntry(t) ==
  /\ HasProcessor(t) /\ tfPc[t] = "entries" /\ nextEntry <= Len(taskList)
  /\ \/ entered' = entered \cup {taskList[nextEntry]} /\ UNCHANGED entryFailed
     \/ UNCHANGED <<entered, entryFailed>>
  /\ nextEntry' = nextEntry + 1
  /\ UNCHANGED <<config, startVars, semVars, tfPc, suspended, ran, meddled>>

CallTaskEntry(t) ==
  /\ HasProcessor(t) /\ tfPc[t] = "entries" /\ nextEntry <= Len(taskList)
  /\ \/ entered' = entered \cup {taskList[nextEntry]} /\ UNCHANGED entryFailed
     \/ entryFailed' = TRUE /\ UNCHANGED entered
  /\ nextEntry' = nextEntry + 1
  /\ UNCHANGED <<config, startVars, semVars, tfPc, suspended, ran, meddled>>

(* After a failure vTaskEndScheduler(), which does nothing on this port,   *)
(* leaves all tasks at the semaphore, which is never given.                *)
EndEntries(t) ==
  /\ HasProcessor(t) /\ tfPc[t] = "entries" /\ nextEntry > Len(taskList)
  /\ tfPc' = [tfPc EXCEPT ![t] = IF entryFailed THEN "take" ELSE "give"]
  /\ UNCHANGED <<config, startVars, entryVars, semVars, suspended, ran, meddled>>

Mutant_GiveRun(t) ==
  /\ HasProcessor(t) /\ tfPc[t] = "give"
  /\ permits' = permits + 1
  /\ given' = given + 1
  /\ tfPc' = [tfPc EXCEPT ![t] = IF given' + 1 >= Len(taskList) THEN "take" ELSE "give"]
  /\ UNCHANGED <<config, startVars, entryVars, suspended, ran, meddled>>

GiveRun(t) ==
  /\ HasProcessor(t) /\ tfPc[t] = "give"
  /\ permits' = permits + 1
  /\ given' = given + 1
  /\ tfPc' = [tfPc EXCEPT ![t] = IF given' = Len(taskList) THEN "take" ELSE "give"]
  /\ UNCHANGED <<config, startVars, entryVars, suspended, ran, meddled>>

TakeRun(t) ==
  /\ HasProcessor(t) /\ tfPc[t] = "take"
  /\ permits' = permits - 1
  /\ tfPc' = [tfPc EXCEPT ![t] = "run"]
  /\ ran' = ran \cup {t}
  /\ UNCHANGED <<config, startVars, entryVars, given, suspended, meddled>>

(* run() returned true: a task without a duration calls it again at once.  *)
RunDelays(t) ==
  /\ HasProcessor(t) /\ tfPc[t] = "run" /\ t \in delays
  /\ tfPc' = [tfPc EXCEPT ![t] = "delay"]
  /\ UNCHANGED <<config, startVars, entryVars, semVars, suspended, ran, meddled>>

DelayEnds(t) ==
  /\ tfPc[t] = "delay" /\ t \notin suspended
  /\ tfPc' = [tfPc EXCEPT ![t] = "run"]
  /\ UNCHANGED <<config, startVars, entryVars, semVars, suspended, ran, meddled>>

(* run() returned false.                                                   *)
RunFails(t) ==
  /\ HasProcessor(t) /\ tfPc[t] = "run"
  /\ suspended' = suspended \cup {t}
  /\ UNCHANGED <<config, startVars, entryVars, semVars, tfPc, ran, meddled>>

(* The run() of t suspends or resumes another task; a suspended task that  *)
(* was waiting waits no longer.                                            *)
suspend(t, u) ==
  /\ HasProcessor(t) /\ tfPc[t] = "run" /\ u \in Listed \ (suspended \cup {t})
  /\ suspended' = suspended \cup {u}
  /\ meddled' = TRUE
  /\ UNCHANGED <<config, startVars, entryVars, semVars, tfPc, ran>>

resume(t, u) ==
  /\ HasProcessor(t) /\ tfPc[t] = "run" /\ u \in suspended
  /\ suspended' = suspended \ {u}
  /\ tfPc' = [tfPc EXCEPT ![u] = IF @ = "delay" THEN "run" ELSE @]
  /\ UNCHANGED <<config, startVars, entryVars, semVars, ran, meddled>>

-----------------------------------------------------------------------------
taskStep(t) ==
  CallTaskEntry(t) \/ EndEntries(t) \/ GiveRun(t) \/ TakeRun(t) \/ RunDelays(t)

TfNext ==
  \/ scheduler_start
  \/ \E t \in TfTasks :
       \/ scheduler_add_task(t)
       \/ taskStep(t) \/ DelayEnds(t) \/ RunFails(t)
       \/ \E u \in TfTasks : suspend(t, u) \/ resume(t, u)

(* Tasks of one priority share the processor.                              *)
TfFairness == \A t \in TfTasks : SF_tfVars(taskStep(t))

TfSpec == TfInit /\ [][TfNext]_tfVars /\ TfFairness

-----------------------------------------------------------------------------
TfTypeOK ==
  /\ priority \in Priorities /\ stack \in Stacks /\ delays \in Delaying
  /\ taskList \in Seq(TfTasks) /\ tfOs \in {"boot", "refused", "started"}
  /\ entryTask \in TfTasks \cup {NobodyTask}
  /\ permits \in Nat /\ given \in 0 .. Len(taskList)
  /\ nextEntry \in 1 .. (Len(taskList) + 1) /\ entryFailed \in BOOLEAN
  /\ tfPc \in [TfTasks -> {"none", "entries", "give", "take", "run", "delay"}]
  /\ suspended \subseteq TfTasks /\ entered \subseteq TfTasks /\ ran \subseteq TfTasks
  /\ meddled \in BOOLEAN

(* "Only after all tasks perform their init() and taskEntry(), the run()    *)
(* method begins to loop": no run() is called before every taskEntry() has  *)
(* returned true, whoever has the processor and whoever is suspended; if    *)
(* one fails, none is called at all.                                        *)
RunAfterEntries == ran # {} => entered = Listed

(* No task of a higher priority than t wants the processor.                 *)
LeftTo(t) == \A u \in Listed : Ready(u) => priority[u] <= priority[t]

(* Every task gets to its run(), if the tasks of higher priorities than its *)
(* own, and than that of the task which gives the semaphore to all, leave   *)
(* the processor time and again, and nobody suspends another task.          *)
EveryTaskRuns ==
  \A t \in TfTasks :
    []<>(\A u \in {t} \cup ({entryTask} \cap Listed) : LeftTo(u)) =>
      (tfOs = "started" /\ t \in Listed ~> t \in ran \/ entryFailed \/ meddled)
=============================================================================
