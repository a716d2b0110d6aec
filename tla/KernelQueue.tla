----------------------------- MODULE KernelQueue -----------------------------
(***************************************************************************)
(* The kernel's queue, L1_FreeRTOS/src/queue.c, used by tasks and by an    *)
(* interrupt, and a queue set it may be a member of.  A task that has to   *)
(* wait suspends the scheduler and locks the queue: interrupts then leave  *)
(* the lists of waiting tasks alone and count what they did, and the task  *)
(* makes up for it when it unlocks the queue.                              *)
(***************************************************************************)
EXTENDS Integers, Sequences, FiniteSets

CONSTANTS
  QTasks,    \* the tasks
  NoOwner,   \* not a task
  QItems,    \* the items
  TaskItems, \* those that tasks send; interrupts send any
  NoItem,    \* not an item
  QLength,   \* the length of the queue
  SetLength, \* the length of the queue set
  MaxLock    \* bound on what the interrupt does while the queue is locked

ASSUME KernelQueueAssumption ==
  /\ IsFiniteSet(QTasks) /\ NoOwner \notin QTasks
  /\ NoItem \notin QItems /\ TaskItems \subseteq QItems
  /\ QLength \in Nat \ {0} /\ SetLength \in Nat /\ SetLength >= QLength
  /\ MaxLock \in Nat

VARIABLES
  ring,      \* the storage area, pcHead .. pcTail
  writeTo,   \* pcWriteTo, as an index
  readFrom,  \* u.pcReadFrom: the place read last
  member,    \* pxQueueSetContainer is the set
  count,     \* count[q] : uxMessagesWaiting
  lock,      \* lock[q][s] : the lock count of what wakes side s: xTxLock for "receive",
             \* xRxLock for "send"; -1 is queueUNLOCKED
  waiting,   \* waiting[q][s] : xTasksWaitingToSend, xTasksWaitingToReceive
  owner,     \* the task that suspended the scheduler, or NoOwner
  kpc,       \* kpc[t] : where task t is in its call
  op, item,  \* op[t], item[t] : the call, and what it sends
  giveUp,    \* giveUp[t] : its block time is over
  woken,     \* history: woken[q][s] : the tasks an event woke that did not run since
  received,  \* history: what was received last
  wasReset   \* history: the queue was reset

storeVars == <<ring, writeTo, readFrom>>
listVars == <<count, waiting, woken>>
callVars == <<op, item, giveUp>>
kqVars == <<storeVars, member, listVars, lock, owner, kpc, callVars, received, wasReset>>

Queues == {"queue", "set"}
Sides == {"send", "receive"}
QueueLength == [q \in Queues |-> IF q = "queue" THEN QLength ELSE SetLength]

Target(t) == IF op[t] = "select" THEN "set" ELSE "queue"
Side(t) == IF op[t] \in {"back", "front"} THEN "send" ELSE "receive"
Waits(t) == \E q \in Queues, s \in Sides : t \in waiting[q][s]
Full(q) == count[q] = QueueLength[q]
Empty(q) == count[q] = 0

KqInit ==
  /\ ring = [i \in 0 .. (QLength - 1) |-> NoItem]
  /\ writeTo = 0 /\ readFrom = QLength - 1
  /\ member = FALSE
  /\ count = [q \in Queues |-> 0]
  /\ lock = [q \in Queues |-> [s \in Sides |-> -1]]
  /\ waiting = [q \in Queues |-> [s \in Sides |-> {}]]
  /\ owner = NoOwner
  /\ kpc = [t \in QTasks |-> "idle"]
  /\ op = [t \in QTasks |-> "receive"] /\ item = [t \in QTasks |-> NoItem]
  /\ giveUp = [t \in QTasks |-> FALSE]
  /\ woken = [q \in Queues |-> [s \in Sides |-> {}]]
  /\ received = NoItem
  /\ wasReset = FALSE

-----------------------------------------------------------------------------
(* prvCopyDataToQueue() and prvCopyDataFromQueue().                        *)

CopyToBack(x) ==
  /\ ring' = [ring EXCEPT ![writeTo] = x]
  /\ writeTo' = (writeTo + 1) % QLength
  /\ UNCHANGED readFrom

Mutant_CopyToFront(x) ==
  /\ ring' = [ring EXCEPT ![(readFrom + QLength - 1) % QLength] = x]
  /\ readFrom' = (readFrom + QLength - 1) % QLength
  /\ UNCHANGED writeTo

CopyToFront(x) ==
  /\ ring' = [ring EXCEPT ![readFrom] = x]
  /\ readFrom' = (readFrom + QLength - 1) % QLength
  /\ UNCHANGED writeTo

NextRead == (readFrom + 1) % QLength

CopyFrom ==
  /\ received' = ring[NextRead]
  /\ readFrom' = NextRead
  /\ UNCHANGED <<ring, writeTo>>

(* xTaskRemoveFromEventList(), n times or until the list is empty; which   *)
(* tasks it takes depends on their priorities.  The tasks in ran run.      *)
Wake(q, s, n, ran) ==
  \E W \in SUBSET waiting[q][s] :
    /\ Cardinality(W) = n \/ (Cardinality(W) < n /\ W = waiting[q][s])
    /\ waiting' = [waiting EXCEPT ![q][s] = @ \ W]
    /\ woken' = [k \in Queues |-> [l \in Sides |->
                   (woken[k][l] \ ran) \cup (IF k = q /\ l = s THEN W ELSE {})]]

(* The queue now holds c items, and n of those put into it are announced:  *)
(* to the tasks that wait to receive, or, by prvNotifyQueueSetContainer(), *)
(* as n events in the set and to the tasks that wait at the set.           *)
Announce(n, c, ran) ==
  /\ count' = [count EXCEPT !["queue"] = c, !["set"] = IF member THEN @ + n ELSE @]
  /\ Wake(IF member THEN "set" ELSE "queue", "receive", n, ran)

-----------------------------------------------------------------------------
(* Setting up: a queue joins the set empty, before tasks use it.           *)
xQueueAddToSet ==
  /\ ~ member /\ Empty("queue") /\ \A t \in QTasks : kpc[t] = "idle"
  /\ member' = TRUE
  /\ UNCHANGED <<storeVars, listVars, lock, owner, kpc, callVars, received, wasReset>>

(* A task runs when it does not wait and no other suspended the scheduler. *)
Runs(t, where) == kpc[t] = where /\ ~ Waits(t) /\ owner \in {NoOwner, t}

(* A member is read only by a task that selected it.                       *)
Call(t, o, x) ==
  /\ Runs(t, "idle")
  /\ o \in {"receive", "peek"} => ~ member
  /\ o = "select" => member
  /\ op' = [op EXCEPT ![t] = o] /\ item' = [item EXCEPT ![t] = x]
  /\ kpc' = [kpc EXCEPT ![t] = "try"]
  /\ UNCHANGED <<storeVars, member, listVars, lock, owner, giveUp, received, wasReset>>

(* What the call held is forgotten.                                        *)
Returns(t) ==
  /\ kpc' = [kpc EXCEPT ![t] = "idle"]
  /\ op' = [op EXCEPT ![t] = "receive"] /\ item' = [item EXCEPT ![t] = NoItem]
  /\ giveUp' = [giveUp EXCEPT ![t] = FALSE]

Send(t) ==
  /\ Runs(t, "try") /\ Side(t) = "send" /\ ~ Full("queue")
  /\ IF op[t] = "back" THEN CopyToBack(item[t]) ELSE CopyToFront(item[t])
  /\ Announce(1, count["queue"] + 1, {t})
  /\ Returns(t)
  /\ UNCHANGED <<member, lock, owner, received, wasReset>>

(* "take": the receive, without a block time, of a task that selected.     *)
Receive(t) ==
  /\ Runs(t, "try") /\ op[t] \in {"receive", "take"} /\ ~ Empty("queue")
  /\ CopyFrom
  /\ count' = [count EXCEPT !["queue"] = @ - 1]
  /\ Wake("queue", "send", 1, {t})
  /\ Returns(t)
  /\ UNCHANGED <<member, lock, owner, wasReset>>

(* The item stays: the next task that waits for it is woken.               *)
Mutant_Peek(t) ==
  /\ Runs(t, "try") /\ op[t] = "peek" /\ ~ Empty("queue")
  /\ received' = ring[NextRead]
  /\ Wake("queue", "receive", 0, {t})
  /\ Returns(t)
  /\ UNCHANGED <<storeVars, member, count, lock, owner, wasReset>>

Peek(t) ==
  /\ Runs(t, "try") /\ op[t] = "peek" /\ ~ Empty("queue")
  /\ received' = ring[NextRead]
  /\ Wake("queue", "receive", 1, {t})
  /\ Returns(t)
  /\ UNCHANGED <<storeVars, member, count, lock, owner, wasReset>>

xQueueSelectFromSet(t) ==
  /\ Runs(t, "try") /\ op[t] = "select" /\ ~ Empty("set")
  /\ count' = [count EXCEPT !["set"] = @ - 1]
  /\ op' = [op EXCEPT ![t] = "take"]
  /\ Wake("set", "send", 1, {t})
  /\ UNCHANGED <<storeVars, member, lock, owner, kpc, item, giveUp, received, wasReset>>

(* The queue is full or empty: without a block time the call returns.      *)
Refused(t) ==
  /\ Runs(t, "try")
  /\ IF Side(t) = "send" THEN Full("queue") ELSE Empty(Target(t))
  /\ \/ Returns(t)
     \/ op[t] # "take" /\ kpc' = [kpc EXCEPT ![t] = "lock"] /\ UNCHANGED callVars
  /\ Wake("queue", "send", 0, {t})
  /\ UNCHANGED <<storeVars, member, count, lock, owner, received, wasReset>>

(* vTaskSuspendAll(), prvLockQueue(), xTaskCheckForTimeOut().              *)
Lock(t) ==
  /\ Runs(t, "lock")
  /\ owner' = t
  /\ lock' = [lock EXCEPT ![Target(t)] = [s \in Sides |-> IF @[s] = -1 THEN 0 ELSE @[s]]]
  /\ \E late \in BOOLEAN :
       /\ giveUp' = [giveUp EXCEPT ![t] = late]
       /\ kpc' = [kpc EXCEPT ![t] = IF late THEN "unlockTx" ELSE "test"]
  /\ UNCHANGED <<storeVars, member, listVars, op, item, received, wasReset>>

(* prvIsQueueFull() or prvIsQueueEmpty(), and, in a step of its own,       *)
(* vTaskPlaceOnEventList(): the interrupt may come in between.             *)
Test(t) ==
  /\ Runs(t, "test")
  /\ kpc' = [kpc EXCEPT ![t] =
       IF (IF Side(t) = "send" THEN Full("queue") ELSE Empty(Target(t)))
         THEN "place" ELSE "unlockTx"]
  /\ UNCHANGED <<storeVars, member, listVars, lock, owner, callVars, received, wasReset>>

Place(t) ==
  /\ Runs(t, "place")
  /\ waiting' = [waiting EXCEPT ![Target(t)][Side(t)] = @ \cup {t}]
  /\ kpc' = [kpc EXCEPT ![t] = "unlockTx"]
  /\ UNCHANGED <<storeVars, member, count, woken, lock, owner, callVars, received, wasReset>>

(* prvUnlockQueue(): the items posted while it was locked, ...             *)
Mutant_UnlockTx(t) ==
  /\ owner = t /\ kpc[t] = "unlockTx"
  /\ Wake(Target(t), "receive", lock[Target(t)]["receive"], {}) /\ UNCHANGED count
  /\ lock' = [lock EXCEPT ![Target(t)]["receive"] = -1]
  /\ kpc' = [kpc EXCEPT ![t] = "unlockRx"]
  /\ UNCHANGED <<storeVars, member, owner, callVars, received, wasReset>>

UnlockTx(t) ==
  /\ owner = t /\ kpc[t] = "unlockTx"
  /\ IF Target(t) = "queue"
       THEN Announce(lock["queue"]["receive"], count["queue"], {})
       ELSE UNCHANGED listVars
  /\ lock' = [lock EXCEPT ![Target(t)]["receive"] = -1]
  /\ kpc' = [kpc EXCEPT ![t] = "unlockRx"]
  /\ UNCHANGED <<storeVars, member, owner, callVars, received, wasReset>>

(* ... those taken, and xTaskResumeAll().                                  *)
UnlockRx(t) ==
  /\ owner = t /\ kpc[t] = "unlockRx"
  /\ Wake(Target(t), "send", lock[Target(t)]["send"], {})
  /\ lock' = [lock EXCEPT ![Target(t)]["send"] = -1]
  /\ owner' = NoOwner
  /\ IF giveUp[t] THEN Returns(t)
     ELSE kpc' = [kpc EXCEPT ![t] = "try"] /\ UNCHANGED callVars
  /\ UNCHANGED <<storeVars, member, count, received, wasReset>>

(* The tick finds that the block time of t is over.                        *)
Timeout(t) ==
  /\ Waits(t) /\ owner = NoOwner
  /\ waiting' = [q \in Queues |-> [s \in Sides |-> waiting[q][s] \ {t}]]
  /\ UNCHANGED <<storeVars, member, count, woken, lock, owner, kpc, callVars, received, wasReset>>

(* Of the tasks that wait to send only one is woken, whatever the room.    *)
xQueueReset(t) ==
  /\ Runs(t, "idle") /\ ~ member
  /\ writeTo' = 0 /\ readFrom' = QLength - 1
  /\ count' = [count EXCEPT !["queue"] = 0]
  /\ lock' = [lock EXCEPT !["queue"] = [s \in Sides |-> -1]]
  /\ Wake("queue", "send", 1, {})
  /\ wasReset' = TRUE
  /\ UNCHANGED <<ring, member, owner, kpc, callVars, received>>

-----------------------------------------------------------------------------
(* The interrupt.                                                          *)

xQueueGenericSendFromISR(x, front) ==
  /\ ~ Full("queue")
  /\ IF front THEN CopyToFront(x) ELSE CopyToBack(x)
  /\ IF lock["queue"]["receive"] = -1
       THEN Announce(1, count["queue"] + 1, {}) /\ UNCHANGED lock
       ELSE /\ lock["queue"]["receive"] < MaxLock
            /\ lock' = [lock EXCEPT !["queue"]["receive"] = @ + 1]
            /\ count' = [count EXCEPT !["queue"] = @ + 1]
            /\ UNCHANGED <<waiting, woken>>
  /\ UNCHANGED <<member, owner, kpc, callVars, received, wasReset>>

xQueueReceiveFromISR ==
  /\ ~ Empty("queue") /\ ~ member
  /\ CopyFrom
  /\ count' = [count EXCEPT !["queue"] = @ - 1]
  /\ IF lock["queue"]["send"] = -1
       THEN Wake("queue", "send", 1, {}) /\ UNCHANGED lock
       ELSE /\ lock["queue"]["send"] < MaxLock
            /\ lock' = [lock EXCEPT !["queue"]["send"] = @ + 1]
            /\ UNCHANGED <<waiting, woken>>
  /\ UNCHANGED <<member, owner, kpc, callVars, wasReset>>

-----------------------------------------------------------------------------
kqStep(t) ==
  \/ Send(t) \/ Receive(t) \/ Peek(t) \/ xQueueSelectFromSet(t) \/ Refused(t)
  \/ Lock(t) \/ Test(t) \/ Place(t) \/ UnlockTx(t) \/ UnlockRx(t)

KqNext ==
  \/ xQueueAddToSet
  \/ \E t \in QTasks :
       \/ \E x \in TaskItems : Call(t, "back", x) \/ Call(t, "front", x)
       \/ \E o \in {"receive", "peek", "select"} : Call(t, o, NoItem)
       \/ kqStep(t) \/ Timeout(t) \/ xQueueReset(t)
  \/ \E x \in QItems, front \in BOOLEAN : xQueueGenericSendFromISR(x, front)
  \/ xQueueReceiveFromISR

KqSpec == KqInit /\ [][KqNext]_kqVars

-----------------------------------------------------------------------------
(* That the counts stay within the lengths is also the configASSERT() of   *)
(* prvNotifyQueueSetContainer().                                           *)
KqTypeOK ==
  /\ ring \in [0 .. (QLength - 1) -> QItems \cup {NoItem}]
  /\ writeTo \in 0 .. (QLength - 1) /\ readFrom \in 0 .. (QLength - 1)
  /\ member \in BOOLEAN
  /\ count \in [Queues -> Nat] /\ \A q \in Queues : count[q] <= QueueLength[q]
  /\ lock \in [Queues -> [Sides -> -1 .. MaxLock]]
  /\ waiting \in [Queues -> [Sides -> SUBSET QTasks]]
  /\ owner \in QTasks \cup {NoOwner}
  /\ kpc \in [QTasks -> {"idle", "try", "lock", "test", "place", "unlockTx", "unlockRx"}]
  /\ op \in [QTasks -> {"back", "front", "receive", "peek", "select", "take"}]
  /\ item \in [QTasks -> QItems \cup {NoItem}]
  /\ giveUp \in [QTasks -> BOOLEAN]
  /\ woken \in [Queues -> [Sides -> SUBSET QTasks]]
  /\ received \in QItems \cup {NoItem}
  /\ wasReset \in BOOLEAN

Owed(q, s) == IF lock[q][s] > 0 THEN lock[q][s] ELSE 0

(* No wake-up is lost, whatever the interrupt does while the queue is      *)
(* locked: a task waits for an item only if each item of the queue has a   *)
(* woken task that will look for it, or is counted for the unlocking task, *)
(* and likewise for the free places, of which xQueueReset() announces only *)
(* one.                                                                    *)
NoLostWakeup ==
  /\ waiting["queue"]["receive"] # {} =>
       count["queue"] <= Cardinality(woken["queue"]["receive"]) + Owed("queue", "receive")
  /\ waiting["queue"]["send"] # {} =>
       LET promised == Cardinality(woken["queue"]["send"]) + Owed("queue", "send")
       IN  /\ Empty("queue") => promised > 0
           /\ ~ wasReset => QLength - count["queue"] <= promised

Selected == {t \in QTasks : kpc[t] = "try" /\ op[t] = "take"}

(* Each item of a member stands for an event of the set, a task that       *)
(* selected the queue and has yet to take it, or a count of the lock; so   *)
(* a task that selected finds an item.                                     *)
SetHoldsEvents ==
  member => count["queue"] = count["set"] + Cardinality(Selected) + Owed("queue", "receive")

Contents == [i \in 1 .. count["queue"] |-> ring[(readFrom + i) % QLength]]

Bounded == INSTANCE BoundedQueue
  WITH Items <- QItems, Length <- QLength,
       contents <- Contents, delivered <- received

(* The queue is a sequence, put to and taken from as BoundedQueue says.    *)
ImplementsQueue == Bounded!Spec

(* queue.c:195: an interrupt that finds a queue locked leaves its list of  *)
(* waiting tasks alone and counts "to indicate that a task may require     *)
(* unblocking": no task sleeps at a set that holds more events than woken  *)
(* tasks will take.                                                        *)
SetWakes ==
  waiting["set"]["receive"] # {} =>
    count["set"] <= Cardinality(woken["set"]["receive"]) + Owed("set", "receive")
=============================================================================
