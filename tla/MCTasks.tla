------------------------------- MODULE MCTasks -------------------------------
(* The two ways to run the application's tasks: the periodic scheduler and *)
(* the task framework.  Each behaviour is one of the part it chooses; the  *)
(* other keeps its initial state.                                          *)
EXTENDS MCPeriodicDispatcher, TaskFramework

CONSTANTS t1, t2, t3

VARIABLE part

Parts == {"periodic", "framework"}

(* Two levels of priorities; the tasks are added in any order, so which    *)
(* task has which does not matter.  All of them sleep in run(), or none.    *)
PrioritiesOf ==
  {[t \in TfTasks |-> IF t \in high THEN 2 ELSE 1] : high \in {{}, {t3}, {t2, t3}}}
StacksOf == {[t \in TfTasks |-> 1]}
DelayingOf == {{}, TfTasks}

Init ==
  /\ part \in Parts
  /\ PrdInit /\ TfInit
  /\ part = "periodic" => priority \in [TfTasks -> {1}] /\ delays = {}

Next ==
  \/ part = "periodic" /\ PrdNext /\ UNCHANGED <<tfVars, part>>
  \/ part = "framework" /\ TfNext /\ UNCHANGED <<prdVars, part>>

vars == <<prdVars, tfVars, part>>

(* Before the scheduler starts, no fair action of the framework is enabled. *)
Spec ==
  /\ Init /\ [][Next]_vars
  /\ WF_prdVars(part = "periodic" /\ Dispatch) /\ WF_prdVars(part = "periodic" /\ Reboot)
  /\ TfFairness

(* Every variable of both has its type.                                    *)
TasksTypeOK == PrdTypeOK /\ TfTypeOK
=============================================================================
