----------------------------- MODULE KernelProofs -----------------------------
(***************************************************************************)
(* The queues, the time, the mutexes and the event groups of the kernel,   *)
(* for any tasks, items, lengths, size of the wheel, priorities, mutexes   *)
(* and bits.                                                               *)
(*                                                                         *)
(* No task waits on a queue for what is there: the invariant counts the    *)
(* tasks that were woken and the posts while the queue was locked, from    *)
(* the moment a task decides to wait.                                      *)
(*                                                                         *)
(* A tick wakes exactly the tasks that are due, and a call gives up only   *)
(* when its time is over: the invariant relates the code's tick, which     *)
(* wraps, to the ticks there have been: of the lists, of a call in         *)
(* progress and of what is left of its block time.                         *)
(*                                                                         *)
(* A task that waits for a mutex has lent its priority to the holder: the  *)
(* inductive invariant of MutexInheritance adds who is in which list, in   *)
(* which order, and who is about to take a mutex that is free.             *)
(*                                                                         *)
(* The inductive invariant of EventGroup adds to its properties what the   *)
(* item value of a task holds in each of its states, and an account of     *)
(* each bit: the times a task has used it, or is about to, and the present *)
(* one, if it is set, are no more than the times it was set.               *)
(***************************************************************************)
EXTENDS KernelQueue, KernelTime, MutexInheritance, EventGroup,
        FiniteSetTheorems, SequenceTheorems, WellFoundedInduction, TLAPS

-----------------------------------------------------------------------------
(* The inductive invariant.                                                *)

Busy(t) == kpc[t] \in {"test", "place", "unlockTx", "unlockRx"}

(* Who suspended the scheduler, what it locked, and what calls may be in   *)
(* progress when the queue is, or is not, a member of the set.             *)
KqControl ==
  /\ \A t \in QTasks : owner = t <=> Busy(t)
  /\ \A q \in Queues, s \in Sides : lock[q][s] # -1 => owner \in QTasks /\ Target(owner) = q
  /\ \A t \in QTasks : kpc[t] \in {"test", "place"} =>
       /\ \A s \in Sides : lock[Target(t)][s] >= 0
       /\ ~ giveUp[t]
  /\ \A t \in QTasks : kpc[t] = "unlockRx" => lock[Target(t)]["receive"] = -1
  /\ \A t \in QTasks : op[t] = "take" => kpc[t] = "try"
  /\ \A t \in QTasks : kpc[t] # "idle" =>
       /\ op[t] \in {"back", "front"} => item[t] \in QItems
       /\ op[t] \in {"receive", "peek"} => ~ member
       /\ op[t] \in {"select", "take"} => member

(* A task on a list, or woken from it, is inside the call that put it      *)
(* there, and in no other list.                                            *)
OnList(t, q, s) ==
  /\ q = Target(t) /\ s = Side(t) /\ op[t] # "take"
  /\ kpc[t] \in {"unlockTx", "unlockRx", "try"} /\ ~ giveUp[t]

KqLists ==
  \A q \in Queues, s \in Sides :
    /\ \A t \in waiting[q][s] \cup woken[q][s] : OnList(t, q, s)
    /\ waiting[q][s] \cap woken[q][s] = {}

(* Somebody waits there, or is about to, having seen that it has to.       *)
Sleeper(s) ==
  waiting["queue"][s] # {}
    \/ \E t \in QTasks : kpc[t] = "place" /\ Target(t) = "queue" /\ Side(t) = s

Promised(s) == Cardinality(woken["queue"][s]) + Owed("queue", s)

Covered ==
  /\ Sleeper("receive") => count["queue"] <= Promised("receive")
  /\ Sleeper("send") => /\ Empty("queue") => Promised("send") > 0
                        /\ ~ wasReset => QLength - count["queue"] <= Promised("send")

SetCovered ==
  /\ SetHoldsEvents
  /\ ~ member => count["set"] = 0

KqIInv == KqTypeOK /\ KqControl /\ KqLists /\ Covered /\ SetCovered

-----------------------------------------------------------------------------
(* What waking does to the lists.                                          *)

LEMMA Finite ==
  ASSUME NEW S \in SUBSET QTasks
  PROVE  IsFiniteSet(S) /\ Cardinality(S) \in Nat
BY KernelQueueAssumption, FS_Subset, FS_CardinalityType

LEMMA Without ==
  ASSUME NEW S \in SUBSET QTasks, NEW t
  PROVE  /\ Cardinality(S \ {t}) \in Nat
         /\ Cardinality(S \ {t}) <= Cardinality(S) /\ Cardinality(S) <= Cardinality(S \ {t}) + 1
         /\ t \notin S => S \ {t} = S
         /\ t \in S => Cardinality(S \ {t}) = Cardinality(S) - 1
<1>1. IsFiniteSet(S) /\ Cardinality(S) \in Nat
  BY Finite
<1>2. Cardinality(S \ {t}) = (IF t \in S THEN Cardinality(S) - 1 ELSE Cardinality(S))
  BY <1>1, FS_RemoveElement
<1>3. S \ {t} \in SUBSET QTasks
  OBVIOUS
<1>4. Cardinality(S \ {t}) \in Nat
  BY <1>3, Finite
<1>5. t \notin S => S \ {t} = S
  OBVIOUS
<1> QED BY <1>1, <1>2, <1>4, <1>5

LEMMA JoinCount ==
  ASSUME NEW S \in SUBSET QTasks, NEW T \in SUBSET QTasks, S \cap T = {}
  PROVE  Cardinality(S \cup T) = Cardinality(S) + Cardinality(T)
<1>1. IsFiniteSet(S) /\ IsFiniteSet(T) /\ Cardinality(S) \in Nat /\ Cardinality(T) \in Nat
  BY Finite
<1>2. Cardinality(S \cup T) = Cardinality(S) + Cardinality(T) - Cardinality(S \cap T)
  BY <1>1, FS_Union
<1>3. Cardinality(S \cap T) = 0
  BY FS_EmptySet
<1> QED BY <1>1, <1>2, <1>3

Woke(q, s, n, ran) ==
  /\ n >= 0
  /\ waiting' \in [Queues -> [Sides -> SUBSET QTasks]]
  /\ woken' \in [Queues -> [Sides -> SUBSET QTasks]]
  /\ \A k \in Queues, l \in Sides :
       /\ waiting'[k][l] \subseteq waiting[k][l]
       /\ woken'[k][l] \subseteq waiting[k][l] \cup (woken[k][l] \ ran)
       /\ waiting'[k][l] \cap woken'[k][l] = {}
       /\ k # q \/ l # s =>
            waiting'[k][l] = waiting[k][l] /\ woken'[k][l] = woken[k][l] \ ran
  /\ waiting'[q][s] # {} =>
       Cardinality(woken'[q][s]) = Cardinality(woken[q][s] \ ran) + n

LEMMA WakeFacts ==
  ASSUME NEW q \in Queues, NEW s \in Sides, NEW n \in Int, NEW ran \in SUBSET QTasks,
         KqTypeOK, KqLists, Wake(q, s, n, ran)
  PROVE  Woke(q, s, n, ran)
<1>1. PICK W \in SUBSET waiting[q][s] :
        /\ Cardinality(W) = n \/ (Cardinality(W) < n /\ W = waiting[q][s])
        /\ waiting' = [waiting EXCEPT ![q][s] = @ \ W]
        /\ woken' = [k \in Queues |-> [l \in Sides |->
                       (woken[k][l] \ ran) \cup (IF k = q /\ l = s THEN W ELSE {})]]
  BY DEF Wake
<1>2. /\ waiting \in [Queues -> [Sides -> SUBSET QTasks]]
      /\ woken \in [Queues -> [Sides -> SUBSET QTasks]]
  BY DEF KqTypeOK
<1>3. W \in SUBSET QTasks /\ woken[q][s] \ ran \in SUBSET QTasks
  BY <1>1, <1>2
<1>4. Cardinality(W) \in Nat
  BY <1>3, Finite
<1>5. n >= 0
  BY <1>1, <1>4
<1>6. /\ waiting' \in [Queues -> [Sides -> SUBSET QTasks]]
      /\ woken' \in [Queues -> [Sides -> SUBSET QTasks]]
  BY <1>1, <1>2, <1>3
<1>7. waiting'[q][s] = waiting[q][s] \ W /\ woken'[q][s] = (woken[q][s] \ ran) \cup W
  BY <1>1, <1>2
<1>8. ASSUME NEW k \in Queues, NEW l \in Sides
      PROVE  /\ waiting'[k][l] \subseteq waiting[k][l]
             /\ woken'[k][l] \subseteq waiting[k][l] \cup (woken[k][l] \ ran)
             /\ waiting'[k][l] \cap woken'[k][l] = {}
             /\ k # q \/ l # s =>
                  waiting'[k][l] = waiting[k][l] /\ woken'[k][l] = woken[k][l] \ ran
  <2>1. waiting[k][l] \cap woken[k][l] = {}
    BY DEF KqLists
  <2>2. CASE k = q /\ l = s
    BY <1>1, <1>7, <2>1, <2>2
  <2>3. CASE k # q \/ l # s
    <3>1. waiting'[k][l] = waiting[k][l] /\ woken'[k][l] = woken[k][l] \ ran
      BY <1>1, <1>2, <2>3
    <3> QED BY <3>1, <2>1, <2>3
  <2> QED BY <2>2, <2>3
<1>9. ASSUME waiting'[q][s] # {}
      PROVE  Cardinality(woken'[q][s]) = Cardinality(woken[q][s] \ ran) + n
  <2>1. Cardinality(W) = n
    BY <1>1, <1>7, <1>9
  <2>2. (woken[q][s] \ ran) \cap W = {}
    BY <1>1 DEF KqLists
  <2> QED BY <1>3, <1>7, <2>1, <2>2, JoinCount
<1> QED BY <1>5, <1>6, <1>8, <1>9 DEF Woke

-----------------------------------------------------------------------------
(* A call leaves the other tasks' calls alone.                             *)

OnlyOf(t) ==
  \A u \in QTasks \ {t} :
    kpc'[u] = kpc[u] /\ op'[u] = op[u] /\ item'[u] = item[u] /\ giveUp'[u] = giveUp[u]

ListedFor(t) == \E q \in Queues, s \in Sides : t \in waiting[q][s] \cup woken[q][s]

LEMMA Nobody ==
  ASSUME KqTypeOK, KqControl, owner = NoOwner
  PROVE  /\ \A u \in QTasks : ~ Busy(u)
         /\ \A q \in Queues, s \in Sides : lock[q][s] = -1 /\ Owed(q, s) = 0
         /\ \A s \in Sides : Sleeper(s) => waiting["queue"][s] # {}
<1>1. \A u \in QTasks : ~ Busy(u)
  BY KernelQueueAssumption DEF KqControl
<1>2. \A q \in Queues, s \in Sides : lock[q][s] = -1
  BY KernelQueueAssumption DEF KqControl
<1>3. \A q \in Queues, s \in Sides : Owed(q, s) = 0
  BY <1>2 DEF Owed
<1>4. \A s \in Sides : Sleeper(s) => waiting["queue"][s] # {}
  BY <1>1 DEF Sleeper, Busy
<1> QED BY <1>1, <1>2, <1>3, <1>4

LEMMA NobodyNow ==
  ASSUME KqControl', owner' = NoOwner
  PROVE  /\ \A q \in Queues, s \in Sides : Owed(q, s)' = 0
         /\ \A s \in Sides : Sleeper(s)' => waiting'["queue"][s] # {}
<1>1. \A u \in QTasks : ~ Busy(u)'
  BY KernelQueueAssumption DEF KqControl
<1>2. \A q \in Queues, s \in Sides : lock'[q][s] = -1
  BY KernelQueueAssumption DEF KqControl
<1>3. \A q \in Queues, s \in Sides : Owed(q, s)' = 0
  BY <1>2 DEF Owed
<1>4. \A s \in Sides : Sleeper(s)' => waiting'["queue"][s] # {}
  BY <1>1 DEF Sleeper, Busy
<1> QED BY <1>3, <1>4

(* Where a task that runs outside of the locked steps finds things.        *)
LEMMA Free ==
  ASSUME KqTypeOK, KqControl, NEW t \in QTasks, NEW w \in {"idle", "try", "lock"}, Runs(t, w)
  PROVE  owner = NoOwner /\ kpc[t] = w /\ ~ Waits(t)
BY DEF Runs, KqControl, Busy

LEMMA ControlKept ==
  ASSUME KqTypeOK, KqControl, NEW t \in QTasks, owner = NoOwner, OnlyOf(t),
         UNCHANGED <<owner, member>>,
         \A q \in Queues, s \in Sides : lock'[q][s] = -1,
         kpc'[t] \in {"idle", "try", "lock"},
         op'[t] = "take" => kpc'[t] = "try",
         kpc'[t] # "idle" =>
           /\ op'[t] \in {"back", "front"} => item'[t] \in QItems
           /\ op'[t] \in {"receive", "peek"} => ~ member
           /\ op'[t] \in {"select", "take"} => member
  PROVE  KqControl'
<1>1. \A u \in QTasks : ~ Busy(u)'
  BY Nobody DEF OnlyOf, Busy
<1>2. \A u \in QTasks : owner' = u <=> Busy(u)'
  BY <1>1, KernelQueueAssumption
<1>3. \A u \in QTasks : kpc'[u] \notin {"test", "place", "unlockRx"}
  BY <1>1 DEF Busy
<1>4. \A u \in QTasks : op'[u] = "take" => kpc'[u] = "try"
  BY DEF OnlyOf, KqControl
<1>5. \A u \in QTasks : kpc'[u] # "idle" =>
       /\ op'[u] \in {"back", "front"} => item'[u] \in QItems
       /\ op'[u] \in {"receive", "peek"} => ~ member
       /\ op'[u] \in {"select", "take"} => member
  BY DEF OnlyOf, KqControl
<1> QED BY <1>2, <1>3, <1>4, <1>5 DEF KqControl

(* Who is not on a list any more may do as it likes.                       *)
LEMMA ListsKept ==
  ASSUME KqTypeOK, KqLists, NEW t \in QTasks, OnlyOf(t),
         \A q \in Queues, s \in Sides :
           /\ waiting'[q][s] \cup woken'[q][s] \subseteq (waiting[q][s] \cup woken[q][s]) \ {t}
           /\ waiting'[q][s] \cap woken'[q][s] = {}
  PROVE  KqLists'
<1> SUFFICES ASSUME NEW q \in Queues, NEW s \in Sides,
                    NEW u \in waiting'[q][s] \cup woken'[q][s]
             PROVE  OnList(u, q, s)'
  BY DEF KqLists
<1>1. u \in (waiting[q][s] \cup woken[q][s]) \ {t}
  OBVIOUS
<1>2. u \in QTasks \ {t}
  BY <1>1 DEF KqTypeOK
<1>3. OnList(u, q, s)
  BY <1>1 DEF KqLists
<1> QED BY <1>2, <1>3 DEF OnList, OnlyOf, Target, Side

(* A call that wakes tasks, of a task that then goes on.                   *)
LEMMA CallerLists ==
  ASSUME KqTypeOK, KqLists, NEW t \in QTasks, OnlyOf(t), ~ Waits(t),
         NEW q \in Queues, NEW s \in Sides, NEW n \in Int, Wake(q, s, n, {t})
  PROVE  KqLists'
<1>1. {t} \in SUBSET QTasks
  OBVIOUS
<1>2. Woke(q, s, n, {t})
  BY <1>1, WakeFacts
<1>3. \A k \in Queues, l \in Sides :
        /\ waiting'[k][l] \cup woken'[k][l] \subseteq (waiting[k][l] \cup woken[k][l]) \ {t}
        /\ waiting'[k][l] \cap woken'[k][l] = {}
  BY <1>2 DEF Waits, Woke
<1> QED BY <1>3, ListsKept

LEMMA ReturnsFacts ==
  ASSUME KqTypeOK, NEW t \in QTasks, Returns(t)
  PROVE  /\ OnlyOf(t) /\ kpc'[t] = "idle" /\ op'[t] = "receive"
         /\ kpc' \in [QTasks -> {"idle", "try", "lock", "test", "place", "unlockTx", "unlockRx"}]
         /\ op' \in [QTasks -> {"back", "front", "receive", "peek", "select", "take"}]
         /\ item' \in [QTasks -> QItems \cup {NoItem}]
         /\ giveUp' \in [QTasks -> BOOLEAN]
BY DEF Returns, KqTypeOK, OnlyOf

-----------------------------------------------------------------------------
(* The storage, the counts and the tasks that selected.                    *)

LEMMA PlaceType ==
  ASSUME NEW i \in Nat
  PROVE  i % QLength \in 0 .. (QLength - 1)
BY KernelQueueAssumption

LEMMA CopyTypes ==
  ASSUME KqTypeOK, NEW x \in QItems \cup {NoItem}, CopyToBack(x) \/ CopyToFront(x)
  PROVE  /\ ring' \in [0 .. (QLength - 1) -> QItems \cup {NoItem}]
         /\ writeTo' \in 0 .. (QLength - 1) /\ readFrom' \in 0 .. (QLength - 1)
<1>1. writeTo + 1 \in Nat /\ readFrom + QLength - 1 \in Nat
  BY KernelQueueAssumption DEF KqTypeOK
<1>2. (writeTo + 1) % QLength \in 0 .. (QLength - 1)
  BY <1>1, PlaceType
<1>3. (readFrom + QLength - 1) % QLength \in 0 .. (QLength - 1)
  BY <1>1, PlaceType
<1> QED BY <1>2, <1>3 DEF KqTypeOK, CopyToBack, CopyToFront

LEMMA NextReadType ==
  ASSUME KqTypeOK
  PROVE  NextRead \in 0 .. (QLength - 1) /\ ring[NextRead] \in QItems \cup {NoItem}
<1>1. readFrom + 1 \in Nat
  BY KernelQueueAssumption DEF KqTypeOK
<1>2. NextRead \in 0 .. (QLength - 1)
  BY <1>1, PlaceType DEF NextRead
<1> QED BY <1>2 DEF KqTypeOK

LEMMA SelectedFacts ==
  ASSUME KqTypeOK
  PROVE  Selected \in SUBSET QTasks /\ Cardinality(Selected) \in Nat
<1>1. Selected \in SUBSET QTasks
  BY DEF Selected
<1> QED BY <1>1, Finite

LEMMA SelectedKept ==
  ASSUME NEW t \in QTasks, OnlyOf(t), op[t] # "take" \/ kpc[t] # "try",
         op'[t] # "take" \/ kpc'[t] # "try"
  PROVE  Selected' = Selected
BY DEF Selected, OnlyOf

LEMMA OwedType ==
  ASSUME KqTypeOK, NEW q \in Queues, NEW s \in Sides
  PROVE  Owed(q, s) \in Nat
<1>1. lock[q][s] \in Int
  BY DEF KqTypeOK
<1> QED BY <1>1 DEF Owed

LEMMA WokenType ==
  ASSUME KqTypeOK, NEW s \in Sides
  PROVE  /\ woken["queue"][s] \in SUBSET QTasks
         /\ Cardinality(woken["queue"][s]) \in Nat /\ Promised(s) \in Nat
<1>1. woken["queue"][s] \in SUBSET QTasks
  BY DEF KqTypeOK, Queues
<1>2. Owed("queue", s) \in Nat
  BY OwedType DEF Queues
<1> QED BY <1>1, <1>2, Finite DEF Promised

(* In a set there are no more events than items in its member.             *)
LEMMA SetHasRoom ==
  ASSUME KqIInv, member
  PROVE  count["set"] + Owed("queue", "receive") <= count["queue"]
<1>1. /\ count["queue"] \in Nat /\ count["set"] \in Nat
  BY DEF KqIInv, KqTypeOK, Queues
<1>2. Cardinality(Selected) \in Nat /\ Owed("queue", "receive") \in Nat
  BY SelectedFacts, OwedType DEF KqIInv, Queues, Sides
<1>3. count["queue"] = count["set"] + Cardinality(Selected) + Owed("queue", "receive")
  BY DEF KqIInv, SetCovered, SetHoldsEvents
<1> QED BY <1>1, <1>2, <1>3

(* The receivers of a member use the set.                                  *)
LEMMA MemberHasNoReader ==
  ASSUME KqTypeOK, KqControl, KqLists, member
  PROVE  waiting["queue"]["receive"] = {} /\ woken["queue"]["receive"] = {}
<1> SUFFICES ASSUME NEW u \in waiting["queue"]["receive"] \cup woken["queue"]["receive"]
             PROVE  FALSE
  OBVIOUS
<1>1. u \in QTasks /\ OnList(u, "queue", "receive")
  BY DEF KqTypeOK, KqLists, Queues, Sides
<1>2. op[u] \in {"receive", "peek"} /\ kpc[u] # "idle"
  BY <1>1 DEF OnList, Target, Side, KqTypeOK
<1> QED BY <1>1, <1>2 DEF KqControl

-----------------------------------------------------------------------------
(* The attempts.                                                           *)

LEMMA SendInv ==
  ASSUME NEW t \in QTasks, KqIInv, Send(t)
  PROVE  KqIInv'
<1> DEFINE dest == IF member THEN "set" ELSE "queue"
<1> USE DEF KqIInv
<1>1. /\ owner = NoOwner /\ kpc[t] = "try" /\ ~ Waits(t)
  BY Free DEF Send
<1>2. \A s \in Sides : /\ lock["queue"][s] = -1 /\ Owed("queue", s) = 0
                       /\ Sleeper(s) => waiting["queue"][s] # {}
  BY <1>1, Nobody DEF Queues
<1>3. /\ op[t] \in {"back", "front"} /\ item[t] \in QItems
  BY <1>1 DEF Send, Side, KqControl, KqTypeOK
<1>4. /\ OnlyOf(t) /\ kpc'[t] = "idle" /\ op'[t] = "receive"
      /\ UNCHANGED <<member, lock, owner, received, wasReset>>
  BY ReturnsFacts DEF Send
<1>5. /\ dest \in Queues /\ "receive" \in Sides /\ Wake(dest, "receive", 1, {t})
      /\ count' = [count EXCEPT !["queue"] = count["queue"] + 1,
                                !["set"] = IF member THEN @ + 1 ELSE @]
  BY DEF Send, Announce, Queues, Sides
<1>6. Woke(dest, "receive", 1, {t})
  <2> HIDE DEF dest
  <2>1. {t} \in SUBSET QTasks
    OBVIOUS
  <2> QED BY <1>5, <2>1, WakeFacts
<1>7. /\ count["queue"] \in Nat /\ count["set"] \in Nat /\ count["queue"] < QLength
      /\ count'["queue"] = count["queue"] + 1
      /\ count'["set"] = IF member THEN count["set"] + 1 ELSE count["set"]
  BY <1>5, KernelQueueAssumption DEF KqTypeOK, Queues, Send, Full, QueueLength
<1>8. KqTypeOK'
  <2>1. /\ ring' \in [0 .. (QLength - 1) -> QItems \cup {NoItem}]
        /\ writeTo' \in 0 .. (QLength - 1) /\ readFrom' \in 0 .. (QLength - 1)
    BY <1>3, CopyTypes DEF Send
  <2>2. count' \in [Queues -> Nat] /\ \A q \in Queues : count'[q] <= QueueLength[q]
    <3>1. count' \in [Queues -> Nat]
      BY <1>5, <1>7 DEF KqTypeOK, Queues
    <3>2. count'["queue"] <= QLength
      BY <1>7, KernelQueueAssumption
    <3>3. count'["set"] <= SetLength
      <4>1. CASE member
        <5>1. count["set"] + Owed("queue", "receive") <= count["queue"]
          BY <4>1, SetHasRoom
        <5>2. Owed("queue", "receive") = 0
          BY <1>2 DEF Sides
        <5> QED BY <1>7, <5>1, <5>2, KernelQueueAssumption
      <4>2. CASE ~ member
        BY <1>7, <4>2 DEF KqTypeOK, Queues, QueueLength
      <4> QED BY <4>1, <4>2
    <3> QED BY <3>1, <3>2, <3>3 DEF Queues, QueueLength
  <2>3. /\ kpc' \in [QTasks -> {"idle", "try", "lock", "test", "place", "unlockTx", "unlockRx"}]
        /\ op' \in [QTasks -> {"back", "front", "receive", "peek", "select", "take"}]
        /\ item' \in [QTasks -> QItems \cup {NoItem}]
        /\ giveUp' \in [QTasks -> BOOLEAN]
    BY ReturnsFacts DEF Send
  <2> QED BY <1>4, <1>6, <2>1, <2>2, <2>3 DEF KqTypeOK, Woke
<1>9. KqControl'
  <2>1. \A q \in Queues, s \in Sides : lock'[q][s] = -1
    BY <1>1, <1>4, Nobody
  <2> QED BY <1>1, <1>4, <2>1, ControlKept
<1>10. KqLists'
  <2> HIDE DEF dest
  <2> QED BY <1>1, <1>4, <1>5, CallerLists
<1>11. Covered'
  <2>1. \A s \in Sides : Owed("queue", s)' = 0 /\ (Sleeper(s)' => waiting'["queue"][s] # {})
    BY <1>1, <1>4, <1>9, NobodyNow DEF Queues
  <2>2. t \notin woken["queue"]["receive"]
    BY <1>3 DEF KqLists, OnList, Side, Queues, Sides
  <2>3. ASSUME waiting'["queue"]["receive"] # {}
        PROVE  count'["queue"] <= Promised("receive")'
    <3>1. ~ member /\ waiting["queue"]["receive"] # {}
      BY <1>6, <2>3, MemberHasNoReader DEF Woke, Queues, Sides
    <3>2. Cardinality(woken'["queue"]["receive"])
            = Cardinality(woken["queue"]["receive"] \ {t}) + 1
      BY <1>6, <2>3, <3>1 DEF Woke
    <3>3. woken["queue"]["receive"] \ {t} = woken["queue"]["receive"]
      BY <2>2
    <3>4. count["queue"] <= Promised("receive")
      BY <3>1 DEF Covered, Sleeper
    <3>5. Cardinality(woken["queue"]["receive"]) \in Nat
      BY WokenType DEF Sides
    <3>6. Owed("queue", "receive") = 0 /\ Owed("queue", "receive")' = 0
      BY <1>2, <2>1 DEF Sides
    <3>7. Cardinality(woken'["queue"]["receive"]) = Cardinality(woken["queue"]["receive"]) + 1
      BY <3>2, <3>3
    <3> QED BY <1>7, <3>4, <3>5, <3>6, <3>7 DEF Promised
  <2>4. ASSUME waiting'["queue"]["send"] # {}, ~ wasReset
        PROVE  QLength - count'["queue"] <= Promised("send")'
    <3>1. waiting["queue"]["send"] # {} /\ woken'["queue"]["send"] = woken["queue"]["send"] \ {t}
      BY <1>6, <2>4 DEF Woke, Queues, Sides
    <3>2. /\ Cardinality(woken["queue"]["send"]) \in Nat
          /\ Cardinality(woken'["queue"]["send"]) \in Nat
          /\ Cardinality(woken["queue"]["send"]) <= Cardinality(woken'["queue"]["send"]) + 1
      BY <3>1, WokenType, Without DEF Sides
    <3>3. QLength - count["queue"] <= Promised("send")
      BY <2>4, <3>1 DEF Covered, Sleeper
    <3> QED BY <1>2, <1>7, <2>1, <3>2, <3>3, KernelQueueAssumption DEF Promised, Sides
  <2>5. ~ Empty("queue")'
    BY <1>7 DEF Empty
  <2> QED BY <1>4, <2>1, <2>3, <2>4, <2>5 DEF Covered, Sides
<1>12. SetCovered'
  <2>1. Selected' = Selected
    BY <1>3, <1>4, SelectedKept
  <2>2. Owed("queue", "receive")' = Owed("queue", "receive")
    BY <1>4 DEF Owed
  <2>3. Cardinality(Selected) \in Nat /\ Owed("queue", "receive") = 0
    BY <1>2, SelectedFacts DEF Sides
  <2> QED BY <1>4, <1>7, <2>1, <2>2, <2>3 DEF SetCovered, SetHoldsEvents
<1> QED BY <1>8, <1>9, <1>10, <1>11, <1>12

LEMMA SelectedLeaves ==
  ASSUME KqTypeOK, NEW t \in QTasks, OnlyOf(t), op[t] = "take", kpc[t] = "try", kpc'[t] = "idle"
  PROVE  Cardinality(Selected') = Cardinality(Selected) - 1 /\ Cardinality(Selected) > 0
<1>1. Selected' = Selected \ {t} /\ t \in Selected
  BY DEF Selected, OnlyOf
<1>2. /\ Cardinality(Selected \ {t}) \in Nat
      /\ Cardinality(Selected \ {t}) = Cardinality(Selected) - 1
      /\ Cardinality(Selected) \in Nat
  BY <1>1, SelectedFacts, Without
<1> QED BY <1>1, <1>2

LEMMA SelectedArrives ==
  ASSUME KqTypeOK, NEW t \in QTasks, OnlyOf(t), t \notin Selected,
         op'[t] = "take", kpc'[t] = "try"
  PROVE  Cardinality(Selected') = Cardinality(Selected) + 1
<1>1. Selected' = Selected \cup {t}
  BY DEF Selected, OnlyOf
<1>2. IsFiniteSet(Selected)
  BY SelectedFacts, Finite
<1> QED BY <1>1, <1>2, FS_AddElement

LEMMA ReceiveInv ==
  ASSUME NEW t \in QTasks, KqIInv, Receive(t)
  PROVE  KqIInv'
<1> USE DEF KqIInv
<1>1. /\ owner = NoOwner /\ kpc[t] = "try" /\ ~ Waits(t) /\ op[t] \in {"receive", "take"}
  BY Free DEF Receive
<1>2. \A s \in Sides : /\ lock["queue"][s] = -1 /\ Owed("queue", s) = 0
                       /\ Sleeper(s) => waiting["queue"][s] # {}
  BY <1>1, Nobody DEF Queues
<1>3. /\ OnlyOf(t) /\ kpc'[t] = "idle" /\ op'[t] = "receive"
      /\ UNCHANGED <<member, lock, owner, wasReset>>
  BY ReturnsFacts DEF Receive
<1>4. Wake("queue", "send", 1, {t})
  BY DEF Receive
<1>5. Woke("queue", "send", 1, {t})
  BY <1>4, WakeFacts DEF Queues, Sides
<1>6. /\ count["queue"] \in Nat /\ count["queue"] > 0 /\ count["queue"] <= QLength
      /\ count' \in [Queues -> Nat]
      /\ count'["queue"] = count["queue"] - 1 /\ count'["set"] = count["set"]
  BY DEF Receive, Empty, KqTypeOK, Queues, QueueLength
<1>7. KqTypeOK'
  <2>1. /\ ring' \in [0 .. (QLength - 1) -> QItems \cup {NoItem}]
        /\ writeTo' \in 0 .. (QLength - 1) /\ readFrom' \in 0 .. (QLength - 1)
        /\ received' \in QItems \cup {NoItem}
    BY NextReadType DEF Receive, CopyFrom, KqTypeOK
  <2>2. \A q \in Queues : count'[q] <= QueueLength[q]
    BY <1>6, KernelQueueAssumption DEF KqTypeOK, Queues, QueueLength
  <2>3. /\ kpc' \in [QTasks -> {"idle", "try", "lock", "test", "place", "unlockTx", "unlockRx"}]
        /\ op' \in [QTasks -> {"back", "front", "receive", "peek", "select", "take"}]
        /\ item' \in [QTasks -> QItems \cup {NoItem}]
        /\ giveUp' \in [QTasks -> BOOLEAN]
    BY ReturnsFacts DEF Receive
  <2> QED BY <1>3, <1>5, <1>6, <2>1, <2>2, <2>3 DEF KqTypeOK, Woke
<1>8. KqControl'
  <2>1. \A q \in Queues, s \in Sides : lock'[q][s] = -1
    BY <1>1, <1>3, Nobody
  <2> QED BY <1>1, <1>3, <2>1, ControlKept
<1>9. KqLists'
  BY <1>1, <1>3, <1>4, CallerLists DEF Queues, Sides
<1>10. Covered'
  <2>1. \A s \in Sides : Owed("queue", s)' = 0 /\ (Sleeper(s)' => waiting'["queue"][s] # {})
    BY <1>1, <1>3, <1>8, NobodyNow DEF Queues
  <2>2. t \notin woken["queue"]["send"]
    BY <1>1 DEF KqLists, OnList, Side, Queues, Sides
  <2>3. ASSUME waiting'["queue"]["receive"] # {}
        PROVE  count'["queue"] <= Promised("receive")'
    <3>1. /\ waiting["queue"]["receive"] # {}
          /\ woken'["queue"]["receive"] = woken["queue"]["receive"] \ {t}
      BY <1>5, <2>3 DEF Woke, Queues, Sides
    <3>2. /\ Cardinality(woken["queue"]["receive"]) \in Nat
          /\ Cardinality(woken'["queue"]["receive"]) \in Nat
          /\ Cardinality(woken["queue"]["receive"])
               <= Cardinality(woken'["queue"]["receive"]) + 1
      <4>1. woken["queue"]["receive"] \in SUBSET QTasks
        BY WokenType DEF Sides
      <4>2. Cardinality(woken["queue"]["receive"]) \in Nat
        BY WokenType DEF Sides
      <4> QED BY <3>1, <4>1, <4>2, Without
    <3>3. count["queue"] <= Promised("receive")
      BY <3>1 DEF Covered, Sleeper
    <3>4. Owed("queue", "receive") = 0 /\ Owed("queue", "receive")' = 0
      BY <1>2, <2>1 DEF Sides
    <3> QED BY <1>6, <3>2, <3>3, <3>4 DEF Promised
  <2>4. ASSUME waiting'["queue"]["send"] # {}
        PROVE  /\ Promised("send")' > 0
               /\ ~ wasReset => QLength - count'["queue"] <= Promised("send")'
    <3>1. /\ waiting["queue"]["send"] # {}
          /\ Cardinality(woken'["queue"]["send"])
               = Cardinality(woken["queue"]["send"] \ {t}) + 1
      BY <1>5, <2>4 DEF Woke, Queues, Sides
    <3>2. woken["queue"]["send"] \ {t} = woken["queue"]["send"]
      BY <2>2
    <3>3. Cardinality(woken'["queue"]["send"]) = Cardinality(woken["queue"]["send"]) + 1
      BY <3>1, <3>2
    <3>4. Cardinality(woken["queue"]["send"]) \in Nat
      BY WokenType DEF Sides
    <3>5. Owed("queue", "send") = 0 /\ Owed("queue", "send")' = 0
      BY <1>2, <2>1 DEF Sides
    <3>6. ~ wasReset => QLength - count["queue"] <= Promised("send")
      BY <3>1 DEF Covered, Sleeper
    <3> QED BY <1>6, <3>3, <3>4, <3>5, <3>6, KernelQueueAssumption DEF Promised
  <2> QED BY <1>3, <2>1, <2>3, <2>4 DEF Covered, Sides
<1>11. SetCovered'
  <2>1. Owed("queue", "receive")' = Owed("queue", "receive")
    BY <1>3 DEF Owed
  <2>2. Cardinality(Selected) \in Nat /\ Owed("queue", "receive") = 0
    BY <1>2, SelectedFacts DEF Sides
  <2>3. CASE member
    <3>1. op[t] = "take"
      BY <1>1, <2>3 DEF KqControl
    <3>2. Cardinality(Selected') = Cardinality(Selected) - 1
      BY <1>1, <1>3, <3>1, SelectedLeaves
    <3>3. count["queue"] = count["set"] + Cardinality(Selected) + Owed("queue", "receive")
      BY <2>3 DEF SetCovered, SetHoldsEvents
    <3>4. count["set"] \in Nat
      BY DEF KqTypeOK, Queues
    <3>5. count'["queue"] = count'["set"] + Cardinality(Selected') + Owed("queue", "receive")'
      BY <1>6, <2>1, <2>2, <3>2, <3>3, <3>4
    <3> QED BY <1>3, <2>3, <3>5 DEF SetCovered, SetHoldsEvents
  <2>4. CASE ~ member
    BY <1>3, <1>6, <2>4 DEF SetCovered, SetHoldsEvents
  <2> QED BY <2>3, <2>4
<1> QED BY <1>7, <1>8, <1>9, <1>10, <1>11

LEMMA PeekInv ==
  ASSUME NEW t \in QTasks, KqIInv, Peek(t)
  PROVE  KqIInv'
<1> USE DEF KqIInv
<1>1. /\ owner = NoOwner /\ kpc[t] = "try" /\ ~ Waits(t) /\ op[t] = "peek"
  BY Free DEF Peek
<1>2. \A s \in Sides : /\ lock["queue"][s] = -1 /\ Owed("queue", s) = 0
                       /\ Sleeper(s) => waiting["queue"][s] # {}
  BY <1>1, Nobody DEF Queues
<1>3. /\ OnlyOf(t) /\ kpc'[t] = "idle" /\ op'[t] = "receive"
      /\ UNCHANGED <<storeVars, member, count, lock, owner, wasReset>>
  BY ReturnsFacts DEF Peek
<1>4. Wake("queue", "receive", 1, {t})
  BY DEF Peek
<1>5. Woke("queue", "receive", 1, {t})
  BY <1>4, WakeFacts DEF Queues, Sides
<1>6. ~ member
  BY <1>1 DEF KqControl
<1>7. KqTypeOK'
  <2>1. received' \in QItems \cup {NoItem}
    BY NextReadType DEF Peek
  <2>2. /\ kpc' \in [QTasks -> {"idle", "try", "lock", "test", "place", "unlockTx", "unlockRx"}]
        /\ op' \in [QTasks -> {"back", "front", "receive", "peek", "select", "take"}]
        /\ item' \in [QTasks -> QItems \cup {NoItem}]
        /\ giveUp' \in [QTasks -> BOOLEAN]
    BY ReturnsFacts DEF Peek
  <2> QED BY <1>3, <1>5, <2>1, <2>2 DEF KqTypeOK, Woke, storeVars
<1>8. KqControl'
  <2>1. \A q \in Queues, s \in Sides : lock'[q][s] = -1
    BY <1>1, <1>3, Nobody
  <2> QED BY <1>1, <1>3, <2>1, ControlKept
<1>9. KqLists'
  <2>1. "queue" \in Queues /\ "receive" \in Sides /\ 1 \in Int
    BY DEF Queues, Sides
  <2> QED BY <1>1, <1>3, <1>4, <2>1, CallerLists
<1>10. Covered'
  <2>1. \A s \in Sides : Owed("queue", s)' = 0 /\ (Sleeper(s)' => waiting'["queue"][s] # {})
    BY <1>1, <1>3, <1>8, NobodyNow DEF Queues
  <2>2. ASSUME waiting'["queue"]["receive"] # {}
        PROVE  count'["queue"] <= Promised("receive")'
    <3>1. /\ waiting["queue"]["receive"] # {}
          /\ Cardinality(woken'["queue"]["receive"])
               = Cardinality(woken["queue"]["receive"] \ {t}) + 1
      BY <1>5, <2>2 DEF Woke, Queues, Sides
    <3>2. /\ Cardinality(woken["queue"]["receive"]) \in Nat
          /\ Cardinality(woken["queue"]["receive"] \ {t}) \in Nat
          /\ Cardinality(woken["queue"]["receive"])
               <= Cardinality(woken["queue"]["receive"] \ {t}) + 1
      BY WokenType, Without DEF Sides
    <3>3. count["queue"] <= Promised("receive")
      BY <3>1 DEF Covered, Sleeper
    <3>4. Owed("queue", "receive") = 0 /\ Owed("queue", "receive")' = 0
      BY <1>2, <2>1 DEF Sides
    <3>5. count["queue"] \in Nat
      BY DEF KqTypeOK, Queues
    <3> QED BY <1>3, <3>1, <3>2, <3>3, <3>4, <3>5 DEF Promised
  <2>3. waiting'["queue"]["send"] # {} => Promised("send")' = Promised("send")
    <3>1. t \notin woken["queue"]["send"]
      BY <1>1 DEF KqLists, OnList, Side, Queues, Sides
    <3>2. woken'["queue"]["send"] = woken["queue"]["send"] \ {t}
      BY <1>5 DEF Woke, Queues, Sides
    <3>3. woken'["queue"]["send"] = woken["queue"]["send"]
      BY <3>1, <3>2
    <3> QED BY <1>2, <2>1, <3>3 DEF Promised, Sides
  <2>4. waiting'["queue"]["send"] # {} => waiting["queue"]["send"] # {}
    BY <1>5 DEF Woke, Queues, Sides
  <2>5. Sleeper("send")' => /\ Empty("queue")' => Promised("send")' > 0
                            /\ ~ wasReset' => QLength - count'["queue"] <= Promised("send")'
    BY <1>3, <2>1, <2>3, <2>4 DEF Covered, Sleeper, Empty, Sides
  <2> QED BY <2>1, <2>2, <2>5 DEF Covered, Sides
<1>11. SetCovered'
  BY <1>3, <1>6 DEF SetCovered, SetHoldsEvents
<1> QED BY <1>7, <1>8, <1>9, <1>10, <1>11

-----------------------------------------------------------------------------
(* Steps that leave the queue's lists as they are.                         *)

LEMMA CoveredKept ==
  ASSUME Covered,
         \A s \in Sides : /\ Sleeper(s)' => Sleeper(s)
                          /\ woken'["queue"][s] = woken["queue"][s]
                          /\ Owed("queue", s)' = Owed("queue", s),
         count'["queue"] = count["queue"], wasReset' = wasReset
  PROVE  Covered'
<1>1. \A s \in Sides : Promised(s)' = Promised(s)
  BY DEF Promised
<1> QED BY <1>1 DEF Covered, Empty, Sides

LEMMA ListsFollow ==
  ASSUME KqTypeOK, KqLists,
         \A q \in Queues, s \in Sides :
           /\ waiting'[q][s] \cup woken'[q][s] \subseteq waiting[q][s] \cup woken[q][s]
           /\ waiting'[q][s] \cap woken'[q][s] = {},
         \A u \in QTasks, q \in Queues, s \in Sides : OnList(u, q, s) => OnList(u, q, s)'
  PROVE  KqLists'
<1> SUFFICES ASSUME NEW q \in Queues, NEW s \in Sides,
                    NEW u \in waiting'[q][s] \cup woken'[q][s]
             PROVE  OnList(u, q, s)'
  BY DEF KqLists
<1>1. u \in waiting[q][s] \cup woken[q][s]
  OBVIOUS
<1>2. u \in QTasks /\ OnList(u, q, s)
  BY <1>1 DEF KqTypeOK, KqLists
<1> QED BY <1>2

LEMMA NotListed ==
  ASSUME KqTypeOK, KqLists, NEW t \in QTasks, kpc[t] \in {"idle", "lock", "test", "place"},
         NEW q \in Queues, NEW s \in Sides
  PROVE  t \notin waiting[q][s] \cup woken[q][s]
BY DEF KqLists, OnList

LEMMA SelectInv ==
  ASSUME NEW t \in QTasks, KqIInv, xQueueSelectFromSet(t)
  PROVE  KqIInv'
<1> USE DEF KqIInv
<1>1. owner = NoOwner /\ kpc[t] = "try" /\ ~ Waits(t) /\ op[t] = "select"
  BY Free DEF xQueueSelectFromSet
<1>2. /\ OnlyOf(t) /\ op' = [op EXCEPT ![t] = "take"] /\ op'[t] = "take"
      /\ UNCHANGED <<storeVars, member, lock, owner, kpc, item, giveUp, received, wasReset>>
  BY DEF xQueueSelectFromSet, OnlyOf, KqTypeOK
<1>3. Wake("set", "send", 1, {t}) /\ "set" \in Queues /\ "send" \in Sides /\ 1 \in Int
  BY DEF xQueueSelectFromSet, Queues, Sides
<1>4. Woke("set", "send", 1, {t})
  BY <1>3, WakeFacts
<1>5. member
  BY <1>1 DEF KqControl
<1>6. /\ count["queue"] \in Nat /\ count["set"] \in Nat /\ count["set"] > 0
      /\ count' \in [Queues -> Nat]
      /\ count'["queue"] = count["queue"] /\ count'["set"] = count["set"] - 1
  BY DEF xQueueSelectFromSet, Empty, KqTypeOK, Queues
<1>7. KqTypeOK'
  <2>1. \A q \in Queues : count'[q] <= QueueLength[q]
    BY <1>6, KernelQueueAssumption DEF KqTypeOK, Queues, QueueLength
  <2> QED BY <1>2, <1>4, <1>6, <2>1 DEF KqTypeOK, Woke, storeVars
<1>8. KqControl'
  <2>1. \A q \in Queues, s \in Sides : lock'[q][s] = -1
    BY <1>1, <1>2, Nobody
  <2> QED BY <1>1, <1>2, <1>5, <2>1, ControlKept
<1>9. KqLists'
  BY <1>1, <1>2, <1>3, CallerLists
<1>10. Covered'
  <2>1. ASSUME NEW s \in Sides
        PROVE  /\ Sleeper(s)' => Sleeper(s)
               /\ woken'["queue"][s] = woken["queue"][s]
               /\ Owed("queue", s)' = Owed("queue", s)
    <3>1. waiting'["queue"][s] = waiting["queue"][s]
      BY <1>4 DEF Woke, Queues
    <3>2. woken'["queue"][s] = woken["queue"][s] \ {t}
      BY <1>4 DEF Woke, Queues
    <3>3. t \notin woken["queue"][s]
      BY <1>1 DEF KqLists, OnList, Target, Queues
    <3>4. Sleeper(s)' => waiting'["queue"][s] # {}
      BY <1>1, <1>2, <1>8, NobodyNow
    <3>5. Owed("queue", s)' = Owed("queue", s)
      BY <1>2 DEF Owed
    <3>6. woken'["queue"][s] = woken["queue"][s]
      BY <3>2, <3>3
    <3> QED BY <3>1, <3>4, <3>5, <3>6 DEF Sleeper
  <2> QED BY <1>2, <1>6, <2>1, CoveredKept
<1>11. SetCovered'
  <2>1. Owed("queue", "receive")' = Owed("queue", "receive")
    BY <1>2 DEF Owed
  <2>2. Cardinality(Selected) \in Nat /\ Owed("queue", "receive") \in Nat
    BY SelectedFacts, OwedType DEF Queues, Sides
  <2>3. Cardinality(Selected') = Cardinality(Selected) + 1
    <3>1. t \notin Selected
      BY <1>1 DEF Selected
    <3> QED BY <1>1, <1>2, <3>1, SelectedArrives
  <2>4. count["queue"] = count["set"] + Cardinality(Selected) + Owed("queue", "receive")
    BY <1>5 DEF SetCovered, SetHoldsEvents
  <2>5. count'["queue"] = count'["set"] + Cardinality(Selected') + Owed("queue", "receive")'
    BY <1>6, <2>1, <2>2, <2>3, <2>4
  <2> QED BY <1>2, <1>5, <2>5 DEF SetCovered, SetHoldsEvents
<1> QED BY <1>7, <1>8, <1>9, <1>10, <1>11

LEMMA RefusedInv ==
  ASSUME NEW t \in QTasks, KqIInv, Refused(t)
  PROVE  KqIInv'
<1> USE DEF KqIInv
<1>1. /\ owner = NoOwner /\ kpc[t] = "try" /\ ~ Waits(t)
      /\ IF Side(t) = "send" THEN Full("queue") ELSE Empty(Target(t))
  BY Free DEF Refused
<1>2. /\ OnlyOf(t) /\ kpc'[t] \in {"idle", "lock"}
      /\ kpc'[t] = "idle" => op'[t] = "receive"
      /\ kpc'[t] = "lock" => op'[t] = op[t] /\ op[t] # "take" /\ item'[t] = item[t]
      /\ kpc' \in [QTasks -> {"idle", "try", "lock", "test", "place", "unlockTx", "unlockRx"}]
      /\ op' \in [QTasks -> {"back", "front", "receive", "peek", "select", "take"}]
      /\ item' \in [QTasks -> QItems \cup {NoItem}]
      /\ giveUp' \in [QTasks -> BOOLEAN]
      /\ UNCHANGED <<storeVars, member, count, lock, owner, received, wasReset>>
  <2>1. CASE Returns(t)
    BY <2>1, ReturnsFacts DEF Refused
  <2>2. CASE op[t] # "take" /\ kpc' = [kpc EXCEPT ![t] = "lock"] /\ UNCHANGED callVars
    BY <2>2 DEF Refused, callVars, OnlyOf, KqTypeOK
  <2> QED BY <2>1, <2>2 DEF Refused
<1>3. Wake("queue", "send", 0, {t}) /\ "queue" \in Queues /\ "send" \in Sides /\ 0 \in Int
  BY DEF Refused, Queues, Sides
<1>4. Woke("queue", "send", 0, {t})
  BY <1>3, WakeFacts
<1>5. op[t] # "take"
  <2> SUFFICES ASSUME op[t] = "take" PROVE FALSE
    OBVIOUS
  <2>1. member /\ t \in Selected /\ Empty("queue")
    BY <1>1 DEF KqControl, Selected, Side, Target
  <2>2. Cardinality(Selected) > 0
    <3>1. /\ Cardinality(Selected \ {t}) \in Nat
          /\ Cardinality(Selected \ {t}) = Cardinality(Selected) - 1
      BY <2>1, SelectedFacts, Without
    <3> QED BY <3>1, SelectedFacts
  <2>3. Owed("queue", "receive") \in Nat /\ count["set"] \in Nat /\ count["queue"] = 0
    BY <2>1, OwedType DEF KqTypeOK, Queues, Sides, Empty
  <2> QED BY <2>1, <2>2, <2>3, SelectedFacts DEF SetCovered, SetHoldsEvents
<1>6. KqTypeOK'
  BY <1>2, <1>4 DEF KqTypeOK, Woke, storeVars
<1>7. KqControl'
  <2>1. \A q \in Queues, s \in Sides : lock'[q][s] = -1
    BY <1>1, <1>2, Nobody
  <2>2. kpc'[t] # "idle" =>
           /\ op'[t] \in {"back", "front"} => item'[t] \in QItems
           /\ op'[t] \in {"receive", "peek"} => ~ member
           /\ op'[t] \in {"select", "take"} => member
    BY <1>1, <1>2 DEF KqControl
  <2>3. op'[t] # "take"
    BY <1>2
  <2> QED BY <1>1, <1>2, <2>1, <2>2, <2>3, ControlKept
<1>8. KqLists'
  BY <1>1, <1>2, <1>3, CallerLists
<1>9. Covered'
  <2>1. \A s \in Sides : /\ Owed("queue", s)' = 0 /\ Owed("queue", s) = 0
                         /\ Sleeper(s)' => waiting'["queue"][s] # {}
    BY <1>1, <1>2, <1>7, Nobody, NobodyNow DEF Queues
  <2>2. \A s \in Sides : /\ waiting'["queue"][s] \subseteq waiting["queue"][s]
                         /\ woken'["queue"][s] \in SUBSET QTasks
                         /\ Cardinality(woken'["queue"][s]) \in Nat
    <3> SUFFICES ASSUME NEW s \in Sides
                 PROVE  /\ waiting'["queue"][s] \subseteq waiting["queue"][s]
                        /\ woken'["queue"][s] \in SUBSET QTasks
                        /\ Cardinality(woken'["queue"][s]) \in Nat
      OBVIOUS
    <3>1. woken'["queue"][s] \in SUBSET QTasks
      BY <1>4 DEF Woke, Queues
    <3>2. Cardinality(woken'["queue"][s]) \in Nat
      BY <3>1, Finite
    <3> QED BY <1>4, <3>1, <3>2 DEF Woke, Queues
  <2>3. ASSUME NEW s \in Sides, waiting'["queue"][s] # {}, t \notin woken["queue"][s]
        PROVE  Promised(s)' = Promised(s) /\ Sleeper(s)
    <3>1. woken["queue"][s] \ {t} = woken["queue"][s]
      BY <2>3
    <3>2. Cardinality(woken'["queue"][s]) = Cardinality(woken["queue"][s])
      <4>1. CASE s = "send"
        <5>1. Cardinality(woken'["queue"][s]) = Cardinality(woken["queue"][s] \ {t}) + 0
          BY <1>4, <2>3, <4>1 DEF Woke
        <5>2. Cardinality(woken["queue"][s]) \in Nat
          BY WokenType
        <5>3. Cardinality(woken'["queue"][s]) = Cardinality(woken["queue"][s]) + 0
          BY <3>1, <5>1
        <5> QED BY <5>2, <5>3
      <4>2. CASE s # "send"
        <5>1. woken'["queue"][s] = woken["queue"][s] \ {t}
          BY <1>4, <4>2 DEF Woke, Queues
        <5> QED BY <3>1, <5>1
      <4> QED BY <4>1, <4>2
    <3> QED BY <2>1, <2>2, <2>3, <3>2 DEF Promised, Sleeper
  <2>4. ASSUME Sleeper("receive")' PROVE count'["queue"] <= Promised("receive")'
    <3>1. waiting'["queue"]["receive"] # {}
      BY <2>1, <2>4 DEF Sides
    <3>2. CASE t \in woken["queue"]["receive"]
      <4>1. Empty("queue")
        BY <1>1, <3>2 DEF KqLists, OnList, Queues, Sides
      <4> QED BY <1>2, <2>1, <2>2, <4>1 DEF Empty, Promised, Sides
    <3>3. CASE t \notin woken["queue"]["receive"]
      BY <1>2, <2>3, <3>1, <3>3 DEF Covered, Sides
    <3> QED BY <3>2, <3>3
  <2>5. ASSUME Sleeper("send")'
        PROVE  /\ Empty("queue")' => Promised("send")' > 0
               /\ ~ wasReset' => QLength - count'["queue"] <= Promised("send")'
    <3>1. waiting'["queue"]["send"] # {}
      BY <2>1, <2>5 DEF Sides
    <3>2. CASE t \in woken["queue"]["send"]
      <4>1. Full("queue")
        BY <1>1, <3>2 DEF KqLists, OnList, Queues, Sides
      <4>2. count'["queue"] = QLength
        BY <1>2, <4>1 DEF Full, QueueLength, Queues
      <4> QED BY <2>1, <2>2, <4>2, KernelQueueAssumption DEF Empty, Promised, Sides
    <3>3. CASE t \notin woken["queue"]["send"]
      BY <1>2, <2>3, <3>1, <3>3 DEF Covered, Sides, Empty
    <3> QED BY <3>2, <3>3
  <2> QED BY <2>4, <2>5 DEF Covered
<1>10. SetCovered'
  <2>1. Selected' = Selected
    BY <1>2, <1>5, SelectedKept
  <2>2. Owed("queue", "receive")' = Owed("queue", "receive")
    BY <1>2 DEF Owed
  <2> QED BY <1>2, <2>1, <2>2 DEF SetCovered, SetHoldsEvents
<1> QED BY <1>6, <1>7, <1>8, <1>9, <1>10

LEMMA CallInv ==
  ASSUME NEW t \in QTasks, NEW o, NEW x, KqIInv, Call(t, o, x),
         \/ o \in {"back", "front"} /\ x \in QItems
         \/ o \in {"receive", "peek", "select"} /\ x = NoItem
  PROVE  KqIInv'
<1> USE DEF KqIInv
<1>1. /\ owner = NoOwner /\ kpc[t] = "idle" /\ ~ Waits(t)
      /\ o \in {"receive", "peek"} => ~ member
      /\ o = "select" => member
  BY Free DEF Call
<1>2. /\ OnlyOf(t) /\ kpc'[t] = "try" /\ op'[t] = o /\ item'[t] = x
      /\ kpc' \in [QTasks -> {"idle", "try", "lock", "test", "place", "unlockTx", "unlockRx"}]
      /\ op' \in [QTasks -> {"back", "front", "receive", "peek", "select", "take"}]
      /\ item' \in [QTasks -> QItems \cup {NoItem}]
      /\ UNCHANGED <<storeVars, member, listVars, lock, owner, giveUp, received, wasReset>>
  BY DEF Call, OnlyOf, KqTypeOK
<1>3. KqTypeOK'
  BY <1>2 DEF KqTypeOK, storeVars, listVars
<1>4. KqControl'
  <2>1. \A q \in Queues, s \in Sides : lock'[q][s] = -1
    BY <1>1, <1>2, Nobody
  <2>2. kpc'[t] # "idle" =>
           /\ op'[t] \in {"back", "front"} => item'[t] \in QItems
           /\ op'[t] \in {"receive", "peek"} => ~ member
           /\ op'[t] \in {"select", "take"} => member
    BY <1>1, <1>2
  <2> QED BY <1>1, <1>2, <2>1, <2>2, ControlKept
<1>5. KqLists'
  <2>1. \A q \in Queues, s \in Sides :
           /\ waiting'[q][s] \cup woken'[q][s] \subseteq (waiting[q][s] \cup woken[q][s]) \ {t}
           /\ waiting'[q][s] \cap woken'[q][s] = {}
    BY <1>1, <1>2, NotListed DEF listVars, KqLists
  <2> QED BY <1>2, <2>1, ListsKept
<1>6. Covered'
  <2>1. \A s \in Sides : Sleeper(s)' => Sleeper(s)
    BY <1>1, <1>2, <1>4, NobodyNow DEF listVars, Sleeper
  <2> QED BY <1>2, <2>1, CoveredKept DEF listVars, Owed
<1>7. SetCovered'
  <2>1. Selected' = Selected
    BY <1>1, <1>2, SelectedKept
  <2> QED BY <1>2, <2>1 DEF SetCovered, SetHoldsEvents, Owed, listVars
<1> QED BY <1>3, <1>4, <1>5, <1>6, <1>7

-----------------------------------------------------------------------------
(* The locked steps.  Only the owner and the interrupt are at work.        *)

(* The owner's next step, not its last.                                    *)
LEMMA OwnerControl ==
  ASSUME KqTypeOK, KqControl, NEW t \in QTasks, Busy(t), OnlyOf(t),
         UNCHANGED <<owner, member, op, item>>,
         Busy(t)',
         \A q \in Queues, s \in Sides : lock'[q][s] # -1 => lock[q][s] # -1,
         kpc'[t] \in {"test", "place"} =>
           /\ \A s \in Sides : lock'[Target(t)][s] >= 0
           /\ ~ giveUp'[t],
         kpc'[t] = "unlockRx" => lock'[Target(t)]["receive"] = -1
  PROVE  KqControl'
<1>1. owner = t /\ \A u \in QTasks \ {t} : ~ Busy(u) /\ ~ Busy(u)'
  BY DEF KqControl, OnlyOf, Busy
<1>2. \A u \in QTasks : owner' = u <=> Busy(u)'
  BY <1>1
<1>3. \A u \in QTasks : Target(u)' = Target(u)
  BY DEF Target
<1>4. \A q \in Queues, s \in Sides :
         lock'[q][s] # -1 => owner' \in QTasks /\ Target(owner)' = q
  BY <1>1, <1>3 DEF KqControl
<1>5. \A u \in QTasks : kpc'[u] \in {"test", "place"} =>
       /\ \A s \in Sides : lock'[Target(u)'][s] >= 0
       /\ ~ giveUp'[u]
  BY <1>1, <1>3 DEF Busy
<1>8. \A u \in QTasks : kpc'[u] = "unlockRx" => lock'[Target(u)']["receive"] = -1
  BY <1>1, <1>3 DEF Busy
<1>6. \A u \in QTasks : op'[u] = "take" => kpc'[u] = "try"
  BY <1>1 DEF OnlyOf, KqControl, Busy
<1>7. \A u \in QTasks : kpc'[u] # "idle" =>
       /\ op'[u] \in {"back", "front"} => item'[u] \in QItems
       /\ op'[u] \in {"receive", "peek"} => ~ member
       /\ op'[u] \in {"select", "take"} => member
  BY DEF OnlyOf, KqControl, Busy
<1> QED BY <1>2, <1>4, <1>5, <1>6, <1>7, <1>8 DEF KqControl

LEMMA LockInv ==
  ASSUME NEW t \in QTasks, KqIInv, Lock(t)
  PROVE  KqIInv'
<1> USE DEF KqIInv
<1>1. owner = NoOwner /\ kpc[t] = "lock" /\ ~ Waits(t)
  BY Free DEF Lock
<1>2. /\ OnlyOf(t) /\ kpc'[t] \in {"test", "unlockTx"} /\ giveUp'[t] \in BOOLEAN
      /\ kpc'[t] = "test" => ~ giveUp'[t]
      /\ kpc' \in [QTasks -> {"idle", "try", "lock", "test", "place", "unlockTx", "unlockRx"}]
      /\ giveUp' \in [QTasks -> BOOLEAN]
      /\ owner' = t
      /\ UNCHANGED <<storeVars, member, listVars, op, item, received, wasReset>>
  BY DEF Lock, OnlyOf, KqTypeOK
<1>3. \A q \in Queues, s \in Sides : lock[q][s] = -1 /\ Owed(q, s) = 0
  BY <1>1, Nobody
<1>4. \A q \in Queues, s \in Sides : lock'[q][s] = IF q = Target(t) THEN 0 ELSE -1
  BY <1>3 DEF Lock, KqTypeOK, Target, Queues
<1>5. lock' \in [Queues -> [Sides -> -1 .. MaxLock]]
  <2>1. /\ lock \in [Queues -> [Sides -> -1 .. MaxLock]]
        /\ 0 \in -1 .. MaxLock
    BY KernelQueueAssumption DEF KqTypeOK
  <2>2. [s \in Sides |-> IF lock[Target(t)][s] = -1 THEN 0 ELSE lock[Target(t)][s]]
          \in [Sides -> -1 .. MaxLock]
    BY <2>1 DEF Target, Queues
  <2> QED BY <2>1, <2>2 DEF Lock
<1>6. KqTypeOK'
  BY <1>2, <1>5 DEF KqTypeOK, storeVars, listVars
<1>7. \A u \in QTasks : Target(u)' = Target(u) /\ Target(u) \in Queues
  BY <1>2 DEF Target, Queues
<1>8. KqControl'
  <2>1. \A u \in QTasks : ~ Busy(u)
    BY <1>1, Nobody
  <2>2. \A u \in QTasks : owner' = u <=> Busy(u)'
    BY <1>2, <2>1 DEF Busy, OnlyOf
  <2>3. \A q \in Queues, s \in Sides :
           lock'[q][s] # -1 => owner' \in QTasks /\ Target(owner)' = q
    BY <1>2, <1>4, <1>7
  <2>4. \A u \in QTasks : kpc'[u] \in {"test", "place"} =>
         /\ \A s \in Sides : lock'[Target(u)'][s] >= 0
         /\ ~ giveUp'[u]
    BY <1>2, <1>4, <1>7, <2>1 DEF Busy, OnlyOf
  <2>7. \A u \in QTasks : kpc'[u] # "unlockRx"
    BY <1>2, <2>1 DEF Busy, OnlyOf
  <2>5. \A u \in QTasks : op'[u] = "take" => kpc'[u] = "try"
    BY <1>1, <1>2 DEF OnlyOf, KqControl
  <2>6. \A u \in QTasks : kpc'[u] # "idle" =>
         /\ op'[u] \in {"back", "front"} => item'[u] \in QItems
         /\ op'[u] \in {"receive", "peek"} => ~ member
         /\ op'[u] \in {"select", "take"} => member
    BY <1>1, <1>2 DEF OnlyOf, KqControl
  <2> QED BY <1>2, <2>2, <2>3, <2>4, <2>5, <2>6, <2>7 DEF KqControl
<1>9. KqLists'
  <2>1. \A q \in Queues, s \in Sides :
           /\ waiting'[q][s] \cup woken'[q][s] \subseteq (waiting[q][s] \cup woken[q][s]) \ {t}
           /\ waiting'[q][s] \cap woken'[q][s] = {}
    BY <1>1, <1>2, NotListed DEF listVars, KqLists
  <2> QED BY <1>2, <2>1, ListsKept
<1>10. \A q \in Queues, s \in Sides : Owed(q, s)' = Owed(q, s)
  BY <1>3, <1>4 DEF Owed
<1>11. Covered'
  <2>1. \A s \in Sides : Sleeper(s)' => Sleeper(s)
    <3>1. \A u \in QTasks : kpc'[u] # "place"
      BY <1>1, <1>2, Nobody DEF OnlyOf, Busy
    <3> QED BY <1>2, <3>1 DEF Sleeper, listVars
  <2> QED BY <1>2, <1>10, <2>1, CoveredKept DEF listVars, Queues
<1>12. SetCovered'
  <2>1. Selected' = Selected
    BY <1>1, <1>2, SelectedKept
  <2> QED BY <1>2, <1>10, <2>1 DEF SetCovered, SetHoldsEvents, listVars, Queues, Sides
<1> QED BY <1>6, <1>8, <1>9, <1>11, <1>12

LEMMA TestInv ==
  ASSUME NEW t \in QTasks, KqIInv, Test(t)
  PROVE  KqIInv'
<1> USE DEF KqIInv
<1>1. kpc[t] = "test" /\ Busy(t) /\ owner = t
  BY DEF Test, Runs, Busy, KqControl
<1>2. /\ OnlyOf(t) /\ kpc'[t] \in {"place", "unlockTx"}
      /\ kpc'[t] = "place" =>
           IF Side(t) = "send" THEN Full("queue") ELSE Empty(Target(t))
      /\ kpc' \in [QTasks -> {"idle", "try", "lock", "test", "place", "unlockTx", "unlockRx"}]
      /\ UNCHANGED <<storeVars, member, listVars, lock, owner, callVars, received, wasReset>>
      /\ UNCHANGED <<op, item, giveUp>>
  BY DEF Test, OnlyOf, KqTypeOK, callVars
<1>3. KqTypeOK'
  BY <1>2 DEF KqTypeOK, storeVars, listVars, callVars
<1>4. KqControl'
  <2>1. (\A s \in Sides : lock'[Target(t)][s] >= 0) /\ ~ giveUp'[t] /\ Busy(t)'
    BY <1>1, <1>2 DEF KqControl, Busy
  <2> QED BY <1>1, <1>2, <2>1, OwnerControl
<1>5. KqLists'
  <2>1. \A q \in Queues, s \in Sides :
           /\ waiting'[q][s] \cup woken'[q][s] \subseteq (waiting[q][s] \cup woken[q][s]) \ {t}
           /\ waiting'[q][s] \cap woken'[q][s] = {}
    BY <1>1, <1>2, NotListed DEF listVars, KqLists
  <2> QED BY <1>2, <2>1, ListsKept
<1>6. /\ \A s \in Sides : Promised(s)' = Promised(s) /\ Promised(s) \in Nat
      /\ count' = count /\ count["queue"] \in Nat
  BY <1>2, WokenType DEF Promised, Owed, listVars, KqTypeOK, Queues
<1>7. \A s \in Sides : Sleeper(s)' =>
        \/ Sleeper(s)
        \/ /\ s = Side(t)
           /\ IF s = "send" THEN Full("queue") ELSE Empty("queue")
  <2> SUFFICES ASSUME NEW s \in Sides, NEW u \in QTasks,
                      kpc'[u] = "place", Target(u)' = "queue", Side(u)' = s
               PROVE  \/ Sleeper(s)
                      \/ /\ s = Side(t)
                         /\ IF s = "send" THEN Full("queue") ELSE Empty("queue")
    BY <1>2 DEF Sleeper, listVars
  <2>1. Target(u) = "queue" /\ Side(u) = s
    BY <1>2 DEF Target, Side
  <2>2. CASE u = t
    BY <1>2, <2>1, <2>2
  <2>3. CASE u # t
    BY <1>2, <2>1, <2>3 DEF OnlyOf, Sleeper
  <2> QED BY <2>2, <2>3
<1>8. Covered'
  <2>1. ASSUME Sleeper("receive")' PROVE count'["queue"] <= Promised("receive")'
    <3>1. CASE Sleeper("receive")
      BY <1>6, <3>1 DEF Covered, Sides
    <3>2. CASE Empty("queue")
      BY <1>6, <3>2 DEF Empty, Sides
    <3> QED BY <1>7, <2>1, <3>1, <3>2 DEF Sides
  <2>2. ASSUME Sleeper("send")'
        PROVE  /\ Empty("queue")' => Promised("send")' > 0
               /\ ~ wasReset' => QLength - count'["queue"] <= Promised("send")'
    <3>1. CASE Sleeper("send")
      BY <1>2, <1>6, <3>1 DEF Covered, Sides, Empty
    <3>2. CASE Full("queue")
      <4>1. count["queue"] = QLength /\ QLength > 0
        BY <3>2, KernelQueueAssumption DEF Full, QueueLength, Queues
      <4> QED BY <1>6, <4>1, KernelQueueAssumption DEF Empty, Sides
    <3> QED BY <1>7, <2>2, <3>1, <3>2 DEF Sides
  <2> QED BY <2>1, <2>2 DEF Covered
<1>9. SetCovered'
  <2>1. Selected' = Selected
    BY <1>1, <1>2, SelectedKept
  <2> QED BY <1>2, <2>1 DEF SetCovered, SetHoldsEvents, Owed, listVars
<1> QED BY <1>3, <1>4, <1>5, <1>8, <1>9

LEMMA PlaceInv ==
  ASSUME NEW t \in QTasks, KqIInv, Place(t)
  PROVE  KqIInv'
<1> USE DEF KqIInv
<1> DEFINE q0 == Target(t)
           s0 == Side(t)
<1>1. kpc[t] = "place" /\ Busy(t) /\ owner = t /\ ~ giveUp[t] /\ op[t] # "take"
  BY DEF Place, Runs, Busy, KqControl
<1>2. /\ OnlyOf(t) /\ kpc'[t] = "unlockTx"
      /\ kpc' \in [QTasks -> {"idle", "try", "lock", "test", "place", "unlockTx", "unlockRx"}]
      /\ UNCHANGED <<storeVars, member, count, woken, lock, owner, callVars, received, wasReset>>
      /\ UNCHANGED <<op, item, giveUp>>
  BY DEF Place, OnlyOf, KqTypeOK, callVars
<1>3. /\ waiting' \in [Queues -> [Sides -> SUBSET QTasks]]
      /\ \A q \in Queues, s \in Sides :
           waiting'[q][s] = IF q = q0 /\ s = s0 THEN waiting[q][s] \cup {t} ELSE waiting[q][s]
  <2>1. waiting \in [Queues -> [Sides -> SUBSET QTasks]] /\ q0 \in Queues /\ s0 \in Sides
    BY DEF KqTypeOK, Target, Side, Queues, Sides
  <2>2. waiting' = [waiting EXCEPT ![q0][s0] = @ \cup {t}]
    BY DEF Place
  <2> HIDE DEF q0, s0
  <2>3. waiting[q0][s0] \cup {t} \in SUBSET QTasks
    BY <2>1
  <2> QED BY <2>1, <2>2, <2>3
<1>4. KqTypeOK'
  BY <1>2, <1>3 DEF KqTypeOK, storeVars, callVars
<1>5. KqControl'
  BY <1>1, <1>2, OwnerControl DEF Busy
<1>6. KqLists'
  <2>3. \A q \in Queues, s \in Sides : t \notin woken[q][s]
    BY <1>1, NotListed
  <2> SUFFICES ASSUME NEW q \in Queues, NEW s \in Sides
               PROVE  /\ \A u \in waiting'[q][s] \cup woken'[q][s] : OnList(u, q, s)'
                      /\ waiting'[q][s] \cap woken'[q][s] = {}
    BY DEF KqLists
  <2> HIDE DEF q0, s0
  <2>4. ASSUME NEW u \in waiting'[q][s] \cup woken'[q][s] PROVE OnList(u, q, s)'
    <3>1. CASE u \in waiting[q][s] \cup woken[q][s]
      <4>1. u \in QTasks /\ OnList(u, q, s)
        BY <3>1 DEF KqLists, KqTypeOK
      <4> QED BY <1>1, <1>2, <4>1 DEF OnList, OnlyOf, Target, Side
    <3>2. CASE u = t /\ q = q0 /\ s = s0
      BY <1>1, <1>2, <3>2 DEF OnList, Target, Side, q0, s0
    <3>3. u \in waiting[q][s] \cup woken[q][s] \/ (u = t /\ q = q0 /\ s = s0)
      BY <1>2, <1>3, <2>4
    <3> QED BY <3>1, <3>2, <3>3
  <2>5. waiting'[q][s] \cap woken'[q][s] = {}
    <3>1. waiting[q][s] \cap woken[q][s] = {} /\ woken'[q][s] = woken[q][s]
      BY <1>2 DEF KqLists
    <3>2. waiting'[q][s] \subseteq waiting[q][s] \cup {t}
      BY <1>3
    <3> QED BY <2>3, <3>1, <3>2
  <2> QED BY <2>4, <2>5
<1>7. Covered'
  <2>1. ASSUME NEW s \in Sides, Sleeper(s)' PROVE Sleeper(s)
    <3>1. CASE waiting'["queue"][s] # {}
      BY <1>1, <1>3, <3>1 DEF Sleeper, Queues
    <3>2. CASE \E u \in QTasks : kpc'[u] = "place" /\ Target(u)' = "queue" /\ Side(u)' = s
      BY <1>2, <3>2 DEF Sleeper, OnlyOf, Target, Side
    <3> QED BY <2>1, <3>1, <3>2 DEF Sleeper
  <2> QED BY <1>2, <2>1, CoveredKept DEF Owed
<1>8. SetCovered'
  <2>1. Selected' = Selected
    BY <1>1, <1>2, SelectedKept
  <2> QED BY <1>2, <2>1 DEF SetCovered, SetHoldsEvents, Owed
<1> QED BY <1>4, <1>5, <1>6, <1>7, <1>8

LEMMA UnlockTxInv ==
  ASSUME NEW t \in QTasks, KqIInv, UnlockTx(t)
  PROVE  KqIInv'
<1> USE DEF KqIInv
<1>1. kpc[t] = "unlockTx" /\ Busy(t) /\ owner = t
  BY DEF UnlockTx, Busy
<1>2. /\ OnlyOf(t) /\ kpc'[t] = "unlockRx"
      /\ kpc' \in [QTasks -> {"idle", "try", "lock", "test", "place", "unlockTx", "unlockRx"}]
      /\ UNCHANGED <<storeVars, member, owner, callVars, received, wasReset>>
      /\ UNCHANGED <<op, item, giveUp>>
  BY DEF UnlockTx, OnlyOf, KqTypeOK, callVars
<1>3. /\ lock' \in [Queues -> [Sides -> -1 .. MaxLock]]
      /\ \A q \in Queues, s \in Sides :
           lock'[q][s] = IF q = Target(t) /\ s = "receive" THEN -1 ELSE lock[q][s]
  <2>1. /\ lock \in [Queues -> [Sides -> -1 .. MaxLock]]
        /\ Target(t) \in Queues /\ "receive" \in Sides /\ -1 \in -1 .. MaxLock
    BY KernelQueueAssumption DEF KqTypeOK, Target, Queues, Sides
  <2>2. lock' = [lock EXCEPT ![Target(t)]["receive"] = -1]
    BY DEF UnlockTx
  <2> QED BY <2>1, <2>2
<1>4. KqControl'
  <2>1. \A q \in Queues, s \in Sides : lock'[q][s] # -1 => lock[q][s] # -1
    BY <1>3
  <2>2. lock'[Target(t)]["receive"] = -1
    BY <1>3 DEF Target, Queues, Sides
  <2> QED BY <1>1, <1>2, <2>1, <2>2, OwnerControl DEF Busy
<1>5. \A u \in QTasks, q \in Queues, s \in Sides : OnList(u, q, s) => OnList(u, q, s)'
  BY <1>1, <1>2 DEF OnList, OnlyOf, Target, Side
<1>6. Selected' = Selected
  BY <1>1, <1>2, SelectedKept
<1>7. \A u \in QTasks : kpc[u] # "place" /\ kpc'[u] # "place"
  BY <1>1, <1>2 DEF KqControl, Busy, OnlyOf
<1>8. CASE Target(t) = "set"
  <2>1. UNCHANGED listVars
    BY <1>8 DEF UnlockTx
  <2>2. KqTypeOK'
    BY <1>2, <1>3, <2>1 DEF KqTypeOK, storeVars, callVars, listVars
  <2>3. KqLists'
    <3>1. \A q \in Queues, s \in Sides :
           /\ waiting'[q][s] \cup woken'[q][s] \subseteq waiting[q][s] \cup woken[q][s]
           /\ waiting'[q][s] \cap woken'[q][s] = {}
      BY <2>1 DEF listVars, KqLists
    <3> QED BY <1>5, <3>1, ListsFollow
  <2>4. \A s \in Sides : Owed("queue", s)' = Owed("queue", s)
    BY <1>3, <1>8 DEF Owed, Queues
  <2>5. Covered'
    <3>1. \A s \in Sides : Sleeper(s)' => Sleeper(s)
      BY <1>7, <2>1 DEF Sleeper, listVars
    <3> QED BY <1>2, <2>1, <2>4, <3>1, CoveredKept DEF listVars
  <2>6. SetCovered'
    BY <1>2, <1>6, <2>1, <2>4 DEF SetCovered, SetHoldsEvents, listVars, Sides
  <2> QED BY <1>4, <2>2, <2>3, <2>5, <2>6
<1>9. CASE Target(t) = "queue"
  <2> DEFINE n == lock["queue"]["receive"]
             dest == IF member THEN "set" ELSE "queue"
  <2>1. /\ dest \in Queues /\ "receive" \in Sides /\ {} \in SUBSET QTasks /\ n \in Int
        /\ Wake(dest, "receive", n, {})
        /\ count' = [count EXCEPT !["queue"] = count["queue"],
                                  !["set"] = IF member THEN @ + n ELSE @]
    BY <1>9 DEF UnlockTx, Announce, Queues, Sides, KqTypeOK
  <2>2. Woke(dest, "receive", n, {})
    <3> HIDE DEF dest, n
    <3> QED BY <2>1, WakeFacts
  <2>3. n \in Nat /\ Owed("queue", "receive") = n
    BY <2>1, <2>2 DEF Woke, Owed
  <2>4. /\ count["queue"] \in Nat /\ count["set"] \in Nat /\ count["queue"] <= QLength
        /\ count'["queue"] = count["queue"]
        /\ count'["set"] = IF member THEN count["set"] + n ELSE count["set"]
    BY <2>1 DEF KqTypeOK, Queues, QueueLength
  <2>5. KqTypeOK'
    <3>1. count' \in [Queues -> Nat]
      BY <2>1, <2>3, <2>4 DEF KqTypeOK, Queues
    <3>2. count'["set"] <= SetLength
      <4>1. CASE member
        <5>1. count["set"] + n <= count["queue"]
          BY <2>3, <4>1, SetHasRoom
        <5> QED BY <2>3, <2>4, <4>1, <5>1, KernelQueueAssumption
      <4>2. CASE ~ member
        BY <2>4, <4>2 DEF KqTypeOK, Queues, QueueLength
      <4> QED BY <4>1, <4>2
    <3>3. \A q \in Queues : count'[q] <= QueueLength[q]
      BY <2>4, <3>2 DEF Queues, QueueLength
    <3> QED BY <1>2, <1>3, <2>2, <3>1, <3>3 DEF KqTypeOK, storeVars, callVars, Woke
  <2>6. KqLists'
    <3>1. \A q \in Queues, s \in Sides :
           /\ waiting'[q][s] \cup woken'[q][s] \subseteq waiting[q][s] \cup woken[q][s]
           /\ waiting'[q][s] \cap woken'[q][s] = {}
      BY <2>2 DEF Woke
    <3> QED BY <1>5, <3>1, ListsFollow
  <2>7. Owed("queue", "receive")' = 0 /\ Owed("queue", "send")' = Owed("queue", "send")
    BY <1>3, <1>9 DEF Owed, Queues, Sides
  <2>8. ASSUME Sleeper("receive")' PROVE count'["queue"] <= Promised("receive")'
    <3>1. waiting'["queue"]["receive"] # {}
      BY <1>7, <2>8 DEF Sleeper
    <3>2. ~ member /\ waiting["queue"]["receive"] # {}
      BY <2>2, <3>1, MemberHasNoReader DEF Woke, Queues, Sides
    <3>3. Cardinality(woken'["queue"]["receive"])
            = Cardinality(woken["queue"]["receive"] \ {}) + n
      BY <2>2, <3>1, <3>2 DEF Woke
    <3>4. woken["queue"]["receive"] \ {} = woken["queue"]["receive"]
      OBVIOUS
    <3>5. Cardinality(woken'["queue"]["receive"])
            = Cardinality(woken["queue"]["receive"]) + n
      BY <3>3, <3>4
    <3>6. count["queue"] <= Cardinality(woken["queue"]["receive"]) + n
      BY <2>3, <3>2 DEF Covered, Sleeper, Promised
    <3>7. Promised("receive")' = Cardinality(woken["queue"]["receive"]) + n + 0
      BY <2>7, <3>5 DEF Promised
    <3>8. Cardinality(woken["queue"]["receive"]) \in Nat
      BY WokenType DEF Sides
    <3> QED BY <2>3, <2>4, <3>6, <3>7, <3>8
  <2>9. ASSUME Sleeper("send")'
        PROVE  /\ Empty("queue")' => Promised("send")' > 0
               /\ ~ wasReset' => QLength - count'["queue"] <= Promised("send")'
    <3>1. waiting'["queue"]["send"] # {}
      BY <1>7, <2>9 DEF Sleeper
    <3>2. /\ waiting'["queue"]["send"] = waiting["queue"]["send"]
          /\ woken'["queue"]["send"] = woken["queue"]["send"] \ {}
      BY <2>2 DEF Woke, Queues, Sides
    <3>3. woken'["queue"]["send"] = woken["queue"]["send"]
      BY <3>2
    <3>4. Promised("send")' = Promised("send") /\ Sleeper("send")
      BY <2>7, <3>1, <3>2, <3>3 DEF Promised, Sleeper
    <3> QED BY <1>2, <2>4, <3>4 DEF Covered, Empty
  <2>10. SetCovered'
    <3>1. CASE member
      <4>1. count["queue"] = count["set"] + Cardinality(Selected) + n
        BY <2>3, <3>1 DEF SetCovered, SetHoldsEvents
      <4>2. Cardinality(Selected) \in Nat
        BY SelectedFacts
      <4>3. count'["queue"] = count'["set"] + Cardinality(Selected') + Owed("queue", "receive")'
        BY <1>6, <2>3, <2>4, <2>7, <3>1, <4>1, <4>2
      <4> QED BY <1>2, <3>1, <4>3 DEF SetCovered, SetHoldsEvents
    <3>2. CASE ~ member
      BY <1>2, <2>4, <3>2 DEF SetCovered, SetHoldsEvents
    <3> QED BY <3>1, <3>2
  <2>11. Covered'
    BY <2>8, <2>9 DEF Covered
  <2> QED BY <1>4, <2>5, <2>6, <2>10, <2>11
<1>10. Target(t) \in {"set", "queue"}
  BY DEF Target
<1> QED BY <1>8, <1>9, <1>10

LEMMA UnlockRxInv ==
  ASSUME NEW t \in QTasks, KqIInv, UnlockRx(t)
  PROVE  KqIInv'
<1> USE DEF KqIInv
<1> DEFINE q0 == Target(t)
           n == lock[q0]["send"]
<1>1. kpc[t] = "unlockRx" /\ Busy(t) /\ owner = t /\ op[t] # "take"
  BY DEF UnlockRx, Busy, KqControl
<1>2. /\ OnlyOf(t) /\ kpc'[t] \in {"idle", "try"}
      /\ kpc'[t] = "idle" => op'[t] = "receive"
      /\ kpc'[t] = "try" =>
           op'[t] = op[t] /\ item'[t] = item[t] /\ giveUp'[t] = giveUp[t] /\ ~ giveUp[t]
      /\ kpc'[t] # "try" => giveUp[t]
      /\ kpc' \in [QTasks -> {"idle", "try", "lock", "test", "place", "unlockTx", "unlockRx"}]
      /\ op' \in [QTasks -> {"back", "front", "receive", "peek", "select", "take"}]
      /\ item' \in [QTasks -> QItems \cup {NoItem}]
      /\ giveUp' \in [QTasks -> BOOLEAN]
      /\ owner' = NoOwner
      /\ UNCHANGED <<storeVars, member, count, received, wasReset>>
  <2>1. CASE giveUp[t]
    BY <2>1, ReturnsFacts DEF UnlockRx
  <2>2. CASE ~ giveUp[t]
    BY <2>2 DEF UnlockRx, callVars, OnlyOf, KqTypeOK
  <2> QED BY <2>1, <2>2
<1>3. /\ q0 \in Queues /\ "send" \in Sides /\ {} \in SUBSET QTasks /\ n \in Int
      /\ Wake(q0, "send", n, {})
  BY DEF UnlockRx, KqTypeOK, Target, Queues, Sides
<1>4. Woke(q0, "send", n, {})
  <2> HIDE DEF q0, n
  <2> QED BY <1>3, WakeFacts
<1>5. /\ \A q \in Queues, s \in Sides : q # q0 => lock[q][s] = -1
      /\ lock[q0]["receive"] = -1
  BY <1>1 DEF KqControl
<1>6. /\ lock' \in [Queues -> [Sides -> -1 .. MaxLock]]
      /\ \A q \in Queues, s \in Sides : lock'[q][s] = -1
  <2>1. lock' = [lock EXCEPT ![q0]["send"] = -1]
    BY DEF UnlockRx
  <2>2. lock \in [Queues -> [Sides -> -1 .. MaxLock]] /\ -1 \in -1 .. MaxLock
    BY KernelQueueAssumption DEF KqTypeOK
  <2> HIDE DEF q0
  <2> QED BY <1>3, <1>5, <2>1, <2>2 DEF Sides
<1>7. KqTypeOK'
  BY <1>2, <1>4, <1>6 DEF KqTypeOK, Woke, storeVars
<1>8. KqControl'
  <2>1. \A u \in QTasks : ~ Busy(u)'
    BY <1>1, <1>2 DEF KqControl, OnlyOf, Busy
  <2>2. \A u \in QTasks : owner' = u <=> Busy(u)'
    BY <1>2, <2>1, KernelQueueAssumption
  <2>3. \A u \in QTasks : kpc'[u] \notin {"test", "place", "unlockRx"}
    BY <2>1 DEF Busy
  <2>4. \A u \in QTasks : op'[u] = "take" => kpc'[u] = "try"
    BY <1>2 DEF OnlyOf, KqControl
  <2>5. \A u \in QTasks : kpc'[u] # "idle" =>
         /\ op'[u] \in {"back", "front"} => item'[u] \in QItems
         /\ op'[u] \in {"receive", "peek"} => ~ member
         /\ op'[u] \in {"select", "take"} => member
    BY <1>1, <1>2 DEF OnlyOf, KqControl
  <2> QED BY <1>2, <1>6, <2>2, <2>3, <2>4, <2>5 DEF KqControl
<1>9. KqLists'
  <2>1. \A q \in Queues, s \in Sides :
           /\ waiting'[q][s] \cup woken'[q][s] \subseteq waiting[q][s] \cup woken[q][s]
           /\ waiting'[q][s] \cap woken'[q][s] = {}
    BY <1>4 DEF Woke
  <2>2. CASE giveUp[t]
    <3>1. \A q \in Queues, s \in Sides : t \notin waiting[q][s] \cup woken[q][s]
      BY <2>2 DEF KqLists, OnList
    <3>2. \A q \in Queues, s \in Sides :
            waiting'[q][s] \cup woken'[q][s] \subseteq (waiting[q][s] \cup woken[q][s]) \ {t}
      BY <2>1, <3>1
    <3> QED BY <1>2, <2>1, <3>2, ListsKept
  <2>3. CASE ~ giveUp[t]
    <3>1. \A u \in QTasks, q \in Queues, s \in Sides : OnList(u, q, s) => OnList(u, q, s)'
      BY <1>1, <1>2, <2>3 DEF OnList, OnlyOf, Target, Side
    <3> QED BY <2>1, <3>1, ListsFollow
  <2> QED BY <2>2, <2>3
<1>10. \A s \in Sides : /\ Owed("queue", s)' = 0
                        /\ Sleeper(s)' => waiting'["queue"][s] # {}
  BY <1>2, <1>8, NobodyNow DEF Queues
<1>11. Owed("queue", "receive") = 0
  BY <1>3, <1>5 DEF Owed, Queues, Sides
<1>12. Covered'
  <2>1. ASSUME NEW s \in Sides, Sleeper(s)'
        PROVE  Sleeper(s) /\ Promised(s)' = Promised(s)
    <3>1. waiting'["queue"][s] # {} /\ Owed("queue", s)' = 0
      BY <1>10, <2>1
    <3>2. waiting["queue"][s] # {}
      BY <1>4, <3>1 DEF Woke, Queues
    <3>3. woken["queue"][s] \ {} = woken["queue"][s]
      OBVIOUS
    <3>4. Cardinality(woken["queue"][s]) \in Nat
      BY WokenType
    <3>5. CASE q0 = "queue" /\ s = "send"
      <4>1. n \in Nat /\ Owed("queue", s) = n
        BY <1>3, <1>4, <3>5 DEF Woke, Owed
      <4>2. Cardinality(woken'["queue"][s]) = Cardinality(woken["queue"][s] \ {}) + n
        BY <1>4, <3>1, <3>5 DEF Woke
      <4>3. Cardinality(woken'["queue"][s]) = Cardinality(woken["queue"][s]) + n
        BY <3>3, <4>2
      <4>4. Promised(s)' = Cardinality(woken["queue"][s]) + n + 0
        BY <3>1, <4>3 DEF Promised
      <4> QED BY <3>2, <3>4, <4>1, <4>4 DEF Promised, Sleeper
    <3>6. CASE q0 # "queue" \/ s # "send"
      <4>1. woken'["queue"][s] = woken["queue"][s] \ {}
        BY <1>4, <3>6 DEF Woke, Queues
      <4>2. woken'["queue"][s] = woken["queue"][s]
        BY <4>1
      <4>3. lock["queue"][s] = -1
        BY <1>3, <1>5, <3>6 DEF Queues, Sides
      <4>4. Owed("queue", s) = 0
        BY <4>3 DEF Owed
      <4> QED BY <3>1, <3>2, <4>2, <4>4 DEF Promised, Sleeper
    <3> QED BY <3>5, <3>6
  <2> QED BY <1>2, <2>1 DEF Covered, Empty, Sides
<1>13. SetCovered'
  <2>1. Selected' = Selected
    BY <1>1, <1>2, SelectedKept
  <2>2. Owed("queue", "receive")' = Owed("queue", "receive")
    BY <1>10, <1>11 DEF Sides
  <2> QED BY <1>2, <2>1, <2>2 DEF SetCovered, SetHoldsEvents
<1> QED BY <1>7, <1>8, <1>9, <1>12, <1>13

-----------------------------------------------------------------------------
(* The tick, the reset and joining the set: no call goes on.               *)

LEMMA ControlSame ==
  ASSUME KqControl, UNCHANGED <<owner, member, lock, kpc, op, item, giveUp>>
  PROVE  KqControl'
BY DEF KqControl, Target, Busy

LEMMA TimeoutInv ==
  ASSUME NEW t \in QTasks, KqIInv, Timeout(t)
  PROVE  KqIInv'
<1> USE DEF KqIInv
<1>1. /\ UNCHANGED <<storeVars, member, count, woken, lock, owner, kpc, callVars,
                     received, wasReset>>
      /\ UNCHANGED <<op, item, giveUp>>
  BY DEF Timeout, callVars
<1>2. /\ waiting' \in [Queues -> [Sides -> SUBSET QTasks]]
      /\ \A q \in Queues, s \in Sides : waiting'[q][s] \subseteq waiting[q][s]
  BY DEF Timeout, KqTypeOK
<1>3. KqTypeOK'
  BY <1>1, <1>2 DEF KqTypeOK, storeVars
<1>4. KqControl'
  BY <1>1, ControlSame
<1>5. KqLists'
  <2>1. \A q \in Queues, s \in Sides :
           /\ waiting'[q][s] \cup woken'[q][s] \subseteq waiting[q][s] \cup woken[q][s]
           /\ waiting'[q][s] \cap woken'[q][s] = {}
    BY <1>1, <1>2 DEF KqLists
  <2>2. \A u \in QTasks, q \in Queues, s \in Sides : OnList(u, q, s) => OnList(u, q, s)'
    BY <1>1 DEF OnList, Target, Side
  <2> QED BY <2>1, <2>2, ListsFollow
<1>6. Covered'
  <2>1. \A s \in Sides : Sleeper(s)' => Sleeper(s)
    BY <1>1, <1>2 DEF Sleeper, Target, Side, Queues
  <2> QED BY <1>1, <2>1, CoveredKept DEF Owed
<1>7. SetCovered'
  BY <1>1 DEF SetCovered, SetHoldsEvents, Selected, Owed
<1> QED BY <1>3, <1>4, <1>5, <1>6, <1>7

LEMMA ResetInv ==
  ASSUME NEW t \in QTasks, KqIInv, xQueueReset(t)
  PROVE  KqIInv'
<1> USE DEF KqIInv
<1>1. owner = NoOwner /\ ~ member
  BY Free DEF xQueueReset
<1>2. /\ UNCHANGED <<ring, member, owner, kpc, callVars, received>>
      /\ UNCHANGED <<op, item, giveUp>> /\ wasReset'
  BY DEF xQueueReset, callVars
<1>3. Wake("queue", "send", 1, {}) /\ "queue" \in Queues /\ "send" \in Sides
      /\ 1 \in Int /\ {} \in SUBSET QTasks
  BY DEF xQueueReset, Queues, Sides
<1>4. Woke("queue", "send", 1, {})
  BY <1>3, WakeFacts
<1>5. /\ lock' \in [Queues -> [Sides -> -1 .. MaxLock]]
      /\ \A q \in Queues, s \in Sides : lock'[q][s] = -1
  <2>1. /\ lock \in [Queues -> [Sides -> -1 .. MaxLock]]
        /\ [s \in Sides |-> -1] \in [Sides -> -1 .. MaxLock]
    BY KernelQueueAssumption DEF KqTypeOK
  <2>2. lock' = [lock EXCEPT !["queue"] = [s \in Sides |-> -1]]
    BY DEF xQueueReset
  <2>3. \A q \in Queues, s \in Sides : lock[q][s] = -1
    BY <1>1, Nobody
  <2> QED BY <2>1, <2>2, <2>3
<1>6. /\ count' \in [Queues -> Nat] /\ count'["queue"] = 0 /\ count'["set"] = count["set"]
  BY DEF xQueueReset, KqTypeOK, Queues
<1>7. KqTypeOK'
  <2>1. /\ writeTo' \in 0 .. (QLength - 1) /\ readFrom' \in 0 .. (QLength - 1)
        /\ wasReset' \in BOOLEAN
    BY KernelQueueAssumption DEF xQueueReset
  <2>2. \A q \in Queues : count'[q] <= QueueLength[q]
    BY <1>6, KernelQueueAssumption DEF KqTypeOK, Queues, QueueLength
  <2> QED BY <1>2, <1>4, <1>5, <1>6, <2>1, <2>2 DEF KqTypeOK, Woke
<1>8. KqControl'
  <2>1. UNCHANGED lock
    <3>1. \A q \in Queues, s \in Sides : lock[q][s] = lock'[q][s]
      BY <1>1, <1>5, Nobody
    <3> QED BY <1>5, <3>1 DEF KqTypeOK
  <2> QED BY <1>2, <2>1, ControlSame
<1>9. KqLists'
  <2>1. \A q \in Queues, s \in Sides :
           /\ waiting'[q][s] \cup woken'[q][s] \subseteq waiting[q][s] \cup woken[q][s]
           /\ waiting'[q][s] \cap woken'[q][s] = {}
    BY <1>4 DEF Woke
  <2>2. \A u \in QTasks, q \in Queues, s \in Sides : OnList(u, q, s) => OnList(u, q, s)'
    BY <1>2 DEF OnList, Target, Side
  <2> QED BY <2>1, <2>2, ListsFollow
<1>10. Covered'
  <2>1. \A s \in Sides : /\ Owed("queue", s)' = 0
                         /\ Sleeper(s)' => waiting'["queue"][s] # {}
    BY <1>1, <1>2, <1>8, NobodyNow DEF Queues
  <2>2. \A s \in Sides : Cardinality(woken'["queue"][s]) \in Nat
    <3>1. \A s \in Sides : woken'["queue"][s] \in SUBSET QTasks
      BY <1>4 DEF Woke, Queues
    <3> QED BY <3>1, Finite
  <2>3. count'["queue"] <= Promised("receive")'
    BY <1>6, <2>1, <2>2 DEF Promised, Sides
  <2>4. ASSUME Sleeper("send")' PROVE Promised("send")' > 0
    <3>1. Cardinality(woken'["queue"]["send"]) = Cardinality(woken["queue"]["send"] \ {}) + 1
      BY <1>4, <2>1, <2>4 DEF Woke, Sides
    <3>2. woken["queue"]["send"] \ {} = woken["queue"]["send"]
      OBVIOUS
    <3>3. Cardinality(woken'["queue"]["send"]) = Cardinality(woken["queue"]["send"]) + 1
      BY <3>1, <3>2
    <3>4. Cardinality(woken["queue"]["send"]) \in Nat
      BY WokenType DEF Sides
    <3> QED BY <2>1, <3>3, <3>4 DEF Promised, Sides
  <2> QED BY <1>2, <2>3, <2>4 DEF Covered
<1>11. SetCovered'
  BY <1>1, <1>2, <1>6 DEF SetCovered, SetHoldsEvents
<1> QED BY <1>7, <1>8, <1>9, <1>10, <1>11

LEMMA AddToSetInv ==
  ASSUME KqIInv, xQueueAddToSet
  PROVE  KqIInv'
<1> USE DEF KqIInv
<1>1. /\ ~ member /\ count["queue"] = 0 /\ \A t \in QTasks : kpc[t] = "idle"
      /\ member' = TRUE
      /\ UNCHANGED <<storeVars, listVars, lock, owner, kpc, callVars, received, wasReset>>
      /\ UNCHANGED <<op, item, giveUp>>
  BY DEF xQueueAddToSet, Empty, callVars
<1>2. owner = NoOwner
  BY <1>1 DEF KqTypeOK, KqControl, Busy
<1>3. KqTypeOK'
  BY <1>1 DEF KqTypeOK, storeVars, listVars
<1>4. KqControl'
  BY <1>1 DEF KqControl, Target, Busy
<1>5. KqLists'
  <2>1. \A q \in Queues, s \in Sides :
           /\ waiting'[q][s] \cup woken'[q][s] \subseteq waiting[q][s] \cup woken[q][s]
           /\ waiting'[q][s] \cap woken'[q][s] = {}
    BY <1>1 DEF KqLists, listVars
  <2>2. \A u \in QTasks, q \in Queues, s \in Sides : OnList(u, q, s) => OnList(u, q, s)'
    BY <1>1 DEF OnList, Target, Side
  <2> QED BY <2>1, <2>2, ListsFollow
<1>6. Covered'
  <2>1. \A s \in Sides : Sleeper(s)' => Sleeper(s)
    BY <1>1 DEF Sleeper, Target, Side, listVars
  <2> QED BY <1>1, <2>1, CoveredKept DEF Owed, listVars
<1>7. SetCovered'
  <2>1. Owed("queue", "receive") = 0
    BY <1>2, Nobody DEF Queues, Sides
  <2>2. Selected = {}
    BY <1>1 DEF Selected
  <2>3. Selected' = {}
    BY <1>1 DEF Selected
  <2>4. Cardinality(Selected') = 0
    BY <2>3, FS_EmptySet
  <2>5. Owed("queue", "receive")' = 0
    BY <1>1, <2>1 DEF Owed
  <2>6. count["set"] = 0
    BY <1>1 DEF SetCovered
  <2> QED BY <1>1, <2>4, <2>5, <2>6 DEF SetCovered, SetHoldsEvents, listVars
<1> QED BY <1>3, <1>4, <1>5, <1>6, <1>7

-----------------------------------------------------------------------------
(* The interrupt.                                                          *)

(* What it leaves alone, and that no task is between its test and its      *)
(* place on the list when the queue is not locked.                         *)
LEMMA InterruptFacts ==
  ASSUME KqTypeOK, KqControl, UNCHANGED <<owner, kpc, callVars>>
  PROVE  /\ UNCHANGED <<op, item, giveUp>>
         /\ \A u \in QTasks, q \in Queues, s \in Sides : OnList(u, q, s) => OnList(u, q, s)'
         /\ Selected' = Selected
         /\ \A s \in Sides :
              /\ waiting'["queue"][s] \subseteq waiting["queue"][s] =>
                   (Sleeper(s)' => Sleeper(s))
              /\ ~ (\A l \in Sides : lock["queue"][l] >= 0) =>
                   (Sleeper(s)' => waiting'["queue"][s] # {})
<1>1. UNCHANGED <<op, item, giveUp>>
  BY DEF callVars
<1>2. \A u \in QTasks : Target(u)' = Target(u) /\ Side(u)' = Side(u)
  BY <1>1 DEF Target, Side
<1>3. \A u \in QTasks, q \in Queues, s \in Sides : OnList(u, q, s) => OnList(u, q, s)'
  BY <1>1, <1>2 DEF OnList
<1>4. Selected' = Selected
  BY <1>1 DEF Selected
<1>5. ASSUME NEW s \in Sides, waiting'["queue"][s] \subseteq waiting["queue"][s], Sleeper(s)'
      PROVE  Sleeper(s)
  BY <1>2, <1>5 DEF Sleeper
<1>6. ASSUME NEW s \in Sides, ~ (\A l \in Sides : lock["queue"][l] >= 0), Sleeper(s)'
      PROVE  waiting'["queue"][s] # {}
  BY <1>2, <1>6 DEF Sleeper, KqControl
<1> QED BY <1>1, <1>3, <1>4, <1>5, <1>6

LEMMA InterruptControl ==
  ASSUME KqTypeOK, KqControl, UNCHANGED <<owner, member, kpc, callVars>>,
         \A q \in Queues, s \in Sides :
           \/ lock'[q][s] = lock[q][s]
           \/ lock[q][s] # -1 /\ lock'[q][s] = lock[q][s] + 1 /\ lock'[q][s] >= 0
  PROVE  KqControl'
<1>1. UNCHANGED <<op, item, giveUp>> /\ \A u \in QTasks : Target(u)' = Target(u)
  BY DEF callVars, Target
<1>2. \A u \in QTasks : Target(u) \in Queues
  BY DEF Target, Queues
<1>3. \A q \in Queues, s \in Sides : lock[q][s] \in Int
  BY DEF KqTypeOK
<1>4. \A u \in QTasks : owner' = u <=> Busy(u)'
  BY DEF KqControl, Busy
<1>5. \A q \in Queues, s \in Sides :
         lock'[q][s] # -1 => owner' \in QTasks /\ Target(owner)' = q
  BY <1>1 DEF KqControl
<1>6. \A u \in QTasks : kpc'[u] \in {"test", "place"} =>
       /\ \A s \in Sides : lock'[Target(u)'][s] >= 0
       /\ ~ giveUp'[u]
  BY <1>1, <1>2, <1>3 DEF KqControl
<1>7. \A u \in QTasks : kpc'[u] = "unlockRx" => lock'[Target(u)']["receive"] = -1
  BY <1>1, <1>2 DEF KqControl, Sides
<1>8. \A u \in QTasks : op'[u] = "take" => kpc'[u] = "try"
  BY <1>1 DEF KqControl
<1>9. \A u \in QTasks : kpc'[u] # "idle" =>
       /\ op'[u] \in {"back", "front"} => item'[u] \in QItems
       /\ op'[u] \in {"receive", "peek"} => ~ member'
       /\ op'[u] \in {"select", "take"} => member'
  BY <1>1 DEF KqControl
<1> QED BY <1>4, <1>5, <1>6, <1>7, <1>8, <1>9 DEF KqControl

LEMMA ReceiveFromISRInv ==
  ASSUME KqIInv, xQueueReceiveFromISR
  PROVE  KqIInv'
<1> USE DEF KqIInv
<1>1. /\ UNCHANGED <<member, owner, kpc, callVars, wasReset>> /\ ~ member
      /\ UNCHANGED <<op, item, giveUp>>
  BY DEF xQueueReceiveFromISR, callVars
<1>2. /\ count["queue"] \in Nat /\ count["queue"] > 0 /\ count["queue"] <= QLength
      /\ count' \in [Queues -> Nat]
      /\ count'["queue"] = count["queue"] - 1 /\ count'["set"] = count["set"]
      /\ \A q \in Queues : count'[q] <= QueueLength[q]
  <2>1. /\ count["queue"] \in Nat /\ count["queue"] > 0 /\ count["queue"] <= QLength
        /\ count' \in [Queues -> Nat]
        /\ count'["queue"] = count["queue"] - 1 /\ count'["set"] = count["set"]
    BY DEF xQueueReceiveFromISR, Empty, KqTypeOK, Queues, QueueLength
  <2> QED BY <2>1, KernelQueueAssumption DEF KqTypeOK, Queues, QueueLength
<1>3. /\ ring' \in [0 .. (QLength - 1) -> QItems \cup {NoItem}]
      /\ writeTo' \in 0 .. (QLength - 1) /\ readFrom' \in 0 .. (QLength - 1)
      /\ received' \in QItems \cup {NoItem}
  BY NextReadType DEF xQueueReceiveFromISR, CopyFrom, KqTypeOK
<1>4. SetCovered'
  BY <1>1, <1>2 DEF SetCovered, SetHoldsEvents
<1>5. \A s \in Sides : Cardinality(woken["queue"][s]) \in Nat /\ Owed("queue", s) \in Nat
  BY WokenType, OwedType DEF Queues
<1>6. CASE lock["queue"]["send"] = -1
  <2>1. /\ Wake("queue", "send", 1, {}) /\ lock' = lock
        /\ "queue" \in Queues /\ "send" \in Sides /\ 1 \in Int /\ {} \in SUBSET QTasks
    BY <1>6 DEF xQueueReceiveFromISR, Queues, Sides
  <2>2. Woke("queue", "send", 1, {})
    BY <2>1, WakeFacts
  <2>3. KqTypeOK'
    BY <1>1, <1>2, <1>3, <2>1, <2>2 DEF KqTypeOK, Woke
  <2>4. KqControl'
    BY <1>1, <2>1, ControlSame
  <2>5. KqLists'
    <3>1. \A q \in Queues, s \in Sides :
             /\ waiting'[q][s] \cup woken'[q][s] \subseteq waiting[q][s] \cup woken[q][s]
             /\ waiting'[q][s] \cap woken'[q][s] = {}
      BY <2>2 DEF Woke
    <3>2. \A u \in QTasks, q \in Queues, s \in Sides : OnList(u, q, s) => OnList(u, q, s)'
      BY <1>1, InterruptFacts
    <3> QED BY <3>1, <3>2, ListsFollow
  <2>6. \A s \in Sides : Owed("queue", s)' = Owed("queue", s)
    BY <2>1 DEF Owed
  <2>7. ~ (\A l \in Sides : lock["queue"][l] >= 0)
    BY <1>6, <2>1
  <2>8. ASSUME Sleeper("receive")' PROVE count'["queue"] <= Promised("receive")'
    <3>1. /\ waiting'["queue"]["receive"] = waiting["queue"]["receive"]
          /\ woken'["queue"]["receive"] = woken["queue"]["receive"] \ {}
      BY <2>2 DEF Woke, Queues, Sides
    <3>2. woken'["queue"]["receive"] = woken["queue"]["receive"]
      BY <3>1
    <3>3. Sleeper("receive")
      BY <1>1, <2>8, <3>1, InterruptFacts DEF Sides
    <3>4. count["queue"] <= Promised("receive")
      BY <3>3 DEF Covered
    <3>5. Promised("receive")' = Promised("receive") /\ Promised("receive") \in Nat
      BY <2>6, <3>2, WokenType DEF Promised, Sides
    <3> QED BY <1>2, <3>4, <3>5
  <2>9. ASSUME Sleeper("send")'
        PROVE  /\ Empty("queue")' => Promised("send")' > 0
               /\ ~ wasReset' => QLength - count'["queue"] <= Promised("send")'
    <3>1. waiting'["queue"]["send"] # {} /\ waiting["queue"]["send"] # {}
      BY <1>1, <2>2, <2>7, <2>9, InterruptFacts DEF Sides, Woke, Queues
    <3>2. Cardinality(woken'["queue"]["send"]) = Cardinality(woken["queue"]["send"] \ {}) + 1
      BY <2>2, <3>1 DEF Woke
    <3>3. woken["queue"]["send"] \ {} = woken["queue"]["send"]
      OBVIOUS
    <3>4. Cardinality(woken'["queue"]["send"]) = Cardinality(woken["queue"]["send"]) + 1
      BY <3>2, <3>3
    <3>5. ~ wasReset => QLength - count["queue"] <= Promised("send")
      BY <3>1 DEF Covered, Sleeper
    <3>6. Promised("send")' = Cardinality(woken["queue"]["send"]) + 1 + Owed("queue", "send")
      BY <2>6, <3>4 DEF Promised, Sides
    <3> QED BY <1>1, <1>2, <1>5, <3>5, <3>6, KernelQueueAssumption DEF Promised, Sides
  <2> QED BY <1>4, <2>3, <2>4, <2>5, <2>8, <2>9 DEF Covered
<1>7. CASE lock["queue"]["send"] # -1
  <2>1. /\ lock["queue"]["send"] < MaxLock /\ UNCHANGED <<waiting, woken>>
        /\ lock' = [lock EXCEPT !["queue"]["send"] = @ + 1]
    BY <1>7 DEF xQueueReceiveFromISR
  <2>2. lock \in [Queues -> [Sides -> -1 .. MaxLock]] /\ "queue" \in Queues /\ "send" \in Sides
    BY DEF KqTypeOK, Queues, Sides
  <2>3. lock["queue"]["send"] \in 0 .. MaxLock
    BY <1>7, <2>2, KernelQueueAssumption
  <2>4. /\ lock' \in [Queues -> [Sides -> -1 .. MaxLock]]
        /\ lock'["queue"]["send"] = lock["queue"]["send"] + 1
        /\ \A q \in Queues, s \in Sides :
             q # "queue" \/ s # "send" => lock'[q][s] = lock[q][s]
    <3>1. lock["queue"]["send"] + 1 \in -1 .. MaxLock
      BY <2>1, <2>3, KernelQueueAssumption
    <3> QED BY <2>1, <2>2, <3>1
  <2>5. KqTypeOK'
    BY <1>1, <1>2, <1>3, <2>1, <2>4 DEF KqTypeOK
  <2>6. KqControl'
    <3>1. \A q \in Queues, s \in Sides :
             \/ lock'[q][s] = lock[q][s]
             \/ lock[q][s] # -1 /\ lock'[q][s] = lock[q][s] + 1 /\ lock'[q][s] >= 0
      BY <1>7, <2>3, <2>4
    <3> QED BY <1>1, <3>1, InterruptControl
  <2>7. KqLists'
    <3>1. \A u \in QTasks, q \in Queues, s \in Sides : OnList(u, q, s) => OnList(u, q, s)'
      BY <1>1, InterruptFacts
    <3>2. \A q \in Queues, s \in Sides :
             /\ waiting'[q][s] \cup woken'[q][s] \subseteq waiting[q][s] \cup woken[q][s]
             /\ waiting'[q][s] \cap woken'[q][s] = {}
      BY <2>1 DEF KqLists
    <3> QED BY <3>1, <3>2, ListsFollow
  <2>8. /\ Owed("queue", "receive")' = Owed("queue", "receive")
        /\ Owed("queue", "send")' = Owed("queue", "send") + 1
    BY <2>2, <2>3, <2>4 DEF Owed, Sides
  <2>9. \A s \in Sides : Sleeper(s)' => Sleeper(s)
    BY <1>1, <2>1, InterruptFacts
  <2>10. /\ Promised("receive")' = Promised("receive") /\ Promised("receive") \in Nat
         /\ Promised("send")' = Promised("send") + 1 /\ Promised("send") \in Nat
    BY <1>5, <2>1, <2>8, WokenType DEF Promised, Sides
  <2>11. Covered'
    <3>1. Sleeper("receive")' => count'["queue"] <= Promised("receive")'
      BY <1>2, <2>9, <2>10 DEF Covered, Sides
    <3>2. Sleeper("send")' => /\ Promised("send")' > 0
                              /\ ~ wasReset' => QLength - count'["queue"] <= Promised("send")'
      BY <1>1, <1>2, <2>9, <2>10, KernelQueueAssumption DEF Covered, Sides
    <3> QED BY <3>1, <3>2 DEF Covered
  <2> QED BY <1>4, <2>5, <2>6, <2>7, <2>11
<1> QED BY <1>6, <1>7

LEMMA SendFromISRInv ==
  ASSUME NEW x \in QItems, NEW front \in BOOLEAN, KqIInv, xQueueGenericSendFromISR(x, front)
  PROVE  KqIInv'
<1> USE DEF KqIInv
<1>1. /\ UNCHANGED <<member, owner, kpc, callVars, received, wasReset>>
      /\ UNCHANGED <<op, item, giveUp>>
  BY DEF xQueueGenericSendFromISR, callVars
<1>2. count["queue"] \in Nat /\ count["set"] \in Nat /\ count["queue"] < QLength
  BY KernelQueueAssumption
     DEF xQueueGenericSendFromISR, Full, KqTypeOK, Queues, QueueLength
<1>3. /\ ring' \in [0 .. (QLength - 1) -> QItems \cup {NoItem}]
      /\ writeTo' \in 0 .. (QLength - 1) /\ readFrom' \in 0 .. (QLength - 1)
  <2>1. CopyToBack(x) \/ CopyToFront(x)
    BY DEF xQueueGenericSendFromISR
  <2> QED BY <2>1, CopyTypes
<1>4. \A s \in Sides : Cardinality(woken["queue"][s]) \in Nat /\ Owed("queue", s) \in Nat
  BY WokenType, OwedType DEF Queues
<1>5. Cardinality(Selected) \in Nat /\ Selected' = Selected
  BY <1>1, SelectedFacts, InterruptFacts
<1>6. \A u \in QTasks, q \in Queues, s \in Sides : OnList(u, q, s) => OnList(u, q, s)'
  BY <1>1, InterruptFacts
<1>7. CASE lock["queue"]["receive"] = -1
  <2> DEFINE dest == IF member THEN "set" ELSE "queue"
  <2>1. /\ Wake(dest, "receive", 1, {}) /\ lock' = lock
        /\ dest \in Queues /\ "receive" \in Sides /\ 1 \in Int /\ {} \in SUBSET QTasks
        /\ count' = [count EXCEPT !["queue"] = count["queue"] + 1,
                                  !["set"] = IF member THEN @ + 1 ELSE @]
    BY <1>7 DEF xQueueGenericSendFromISR, Announce, Queues, Sides
  <2>2. Woke(dest, "receive", 1, {})
    <3> HIDE DEF dest
    <3> QED BY <2>1, WakeFacts
  <2>3. /\ count' \in [Queues -> Nat] /\ count'["queue"] = count["queue"] + 1
        /\ count'["set"] = IF member THEN count["set"] + 1 ELSE count["set"]
    BY <1>2, <2>1 DEF KqTypeOK, Queues
  <2>4. KqTypeOK'
    <3>1. count'["queue"] <= QLength
      BY <1>2, <2>3, KernelQueueAssumption
    <3>2. count'["set"] <= SetLength
      <4>1. CASE member
        <5>1. count["set"] + Owed("queue", "receive") <= count["queue"]
          BY <4>1, SetHasRoom
        <5>2. Owed("queue", "receive") \in Nat
          BY <1>4 DEF Sides
        <5> QED BY <1>2, <2>3, <4>1, <5>1, <5>2, KernelQueueAssumption
      <4>2. CASE ~ member
        BY <2>3, <4>2 DEF KqTypeOK, Queues, QueueLength
      <4> QED BY <4>1, <4>2
    <3>3. \A q \in Queues : count'[q] <= QueueLength[q]
      BY <3>1, <3>2 DEF Queues, QueueLength
    <3> QED BY <1>1, <1>3, <2>1, <2>2, <2>3, <3>3 DEF KqTypeOK, Woke
  <2>5. KqControl'
    BY <1>1, <2>1, ControlSame
  <2>6. KqLists'
    <3>1. \A q \in Queues, s \in Sides :
             /\ waiting'[q][s] \cup woken'[q][s] \subseteq waiting[q][s] \cup woken[q][s]
             /\ waiting'[q][s] \cap woken'[q][s] = {}
      BY <2>2 DEF Woke
    <3> QED BY <1>6, <3>1, ListsFollow
  <2>7. \A s \in Sides : Owed("queue", s)' = Owed("queue", s)
    BY <2>1 DEF Owed
  <2>8. ~ (\A l \in Sides : lock["queue"][l] >= 0)
    BY <1>7, <2>1
  <2>9. ASSUME Sleeper("receive")' PROVE count'["queue"] <= Promised("receive")'
    <3>1. waiting'["queue"]["receive"] # {}
      BY <1>1, <2>8, <2>9, InterruptFacts DEF Sides
    <3>2. ~ member /\ waiting["queue"]["receive"] # {}
      BY <2>2, <3>1, MemberHasNoReader DEF Woke, Queues, Sides
    <3>3. Cardinality(woken'["queue"]["receive"])
            = Cardinality(woken["queue"]["receive"] \ {}) + 1
      BY <2>2, <3>1, <3>2 DEF Woke
    <3>4. woken["queue"]["receive"] \ {} = woken["queue"]["receive"]
      OBVIOUS
    <3>5. Cardinality(woken'["queue"]["receive"]) = Cardinality(woken["queue"]["receive"]) + 1
      BY <3>3, <3>4
    <3>6. count["queue"] <= Promised("receive")
      BY <3>2 DEF Covered, Sleeper
    <3>7. Promised("receive")' = Cardinality(woken["queue"]["receive"]) + 1 + Owed("queue", "receive")
      BY <2>7, <3>5 DEF Promised, Sides
    <3> QED BY <1>2, <1>4, <2>3, <3>6, <3>7 DEF Promised, Sides
  <2>10. ASSUME Sleeper("send")'
         PROVE  /\ ~ Empty("queue")'
                /\ ~ wasReset' => QLength - count'["queue"] <= Promised("send")'
    <3>1. /\ waiting'["queue"]["send"] = waiting["queue"]["send"]
          /\ woken'["queue"]["send"] = woken["queue"]["send"] \ {}
      BY <2>2 DEF Woke, Queues, Sides
    <3>2. woken'["queue"]["send"] = woken["queue"]["send"]
      BY <3>1
    <3>3. Sleeper("send")
      BY <1>1, <2>10, <3>1, InterruptFacts DEF Sides
    <3>4. Promised("send")' = Promised("send") /\ Promised("send") \in Nat
      BY <2>7, <3>2, WokenType DEF Promised, Sides
    <3>5. ~ wasReset => QLength - count["queue"] <= Promised("send")
      BY <3>3 DEF Covered
    <3> QED BY <1>1, <1>2, <2>3, <3>4, <3>5, KernelQueueAssumption DEF Empty
  <2>11. SetCovered'
    <3>1. Owed("queue", "receive")' = Owed("queue", "receive") /\ Owed("queue", "receive") \in Nat
      BY <1>4, <2>7 DEF Sides
    <3> QED BY <1>1, <1>2, <1>5, <2>3, <3>1 DEF SetCovered, SetHoldsEvents
  <2>12. Covered'
    BY <2>9, <2>10 DEF Covered
  <2> QED BY <2>4, <2>5, <2>6, <2>11, <2>12
<1>8. CASE lock["queue"]["receive"] # -1
  <2>1. /\ lock["queue"]["receive"] < MaxLock /\ UNCHANGED <<waiting, woken>>
        /\ lock' = [lock EXCEPT !["queue"]["receive"] = @ + 1]
        /\ count' = [count EXCEPT !["queue"] = @ + 1]
    BY <1>8 DEF xQueueGenericSendFromISR
  <2>2. lock \in [Queues -> [Sides -> -1 .. MaxLock]] /\ "queue" \in Queues /\ "receive" \in Sides
    BY DEF KqTypeOK, Queues, Sides
  <2>3. lock["queue"]["receive"] \in 0 .. MaxLock
    BY <1>8, <2>2, KernelQueueAssumption
  <2>4. /\ lock' \in [Queues -> [Sides -> -1 .. MaxLock]]
        /\ lock'["queue"]["receive"] = lock["queue"]["receive"] + 1
        /\ \A q \in Queues, s \in Sides :
             q # "queue" \/ s # "receive" => lock'[q][s] = lock[q][s]
    <3>1. lock["queue"]["receive"] + 1 \in -1 .. MaxLock
      BY <2>1, <2>3, KernelQueueAssumption
    <3> QED BY <2>1, <2>2, <3>1
  <2>5. /\ count' \in [Queues -> Nat] /\ count'["queue"] = count["queue"] + 1
        /\ count'["set"] = count["set"]
        /\ \A q \in Queues : count'[q] <= QueueLength[q]
    <3>1. /\ count' \in [Queues -> Nat] /\ count'["queue"] = count["queue"] + 1
          /\ count'["set"] = count["set"]
      BY <1>2, <2>1 DEF KqTypeOK, Queues
    <3> QED BY <1>2, <3>1, KernelQueueAssumption DEF KqTypeOK, Queues, QueueLength
  <2>6. KqTypeOK'
    BY <1>1, <1>3, <2>1, <2>4, <2>5 DEF KqTypeOK
  <2>7. KqControl'
    <3>1. \A q \in Queues, s \in Sides :
             \/ lock'[q][s] = lock[q][s]
             \/ lock[q][s] # -1 /\ lock'[q][s] = lock[q][s] + 1 /\ lock'[q][s] >= 0
      BY <1>8, <2>3, <2>4
    <3> QED BY <1>1, <3>1, InterruptControl
  <2>8. KqLists'
    <3>1. \A q \in Queues, s \in Sides :
             /\ waiting'[q][s] \cup woken'[q][s] \subseteq waiting[q][s] \cup woken[q][s]
             /\ waiting'[q][s] \cap woken'[q][s] = {}
      BY <2>1 DEF KqLists
    <3> QED BY <1>6, <3>1, ListsFollow
  <2>9. /\ Owed("queue", "send")' = Owed("queue", "send")
        /\ Owed("queue", "receive")' = Owed("queue", "receive") + 1
    BY <2>2, <2>3, <2>4 DEF Owed, Sides
  <2>10. \A s \in Sides : Sleeper(s)' => Sleeper(s)
    BY <1>1, <2>1, InterruptFacts
  <2>11. /\ Promised("send")' = Promised("send") /\ Promised("send") \in Nat
         /\ Promised("receive")' = Promised("receive") + 1 /\ Promised("receive") \in Nat
    BY <1>4, <2>1, <2>9, WokenType DEF Promised, Sides
  <2>12. Covered'
    <3>1. Sleeper("receive")' => count'["queue"] <= Promised("receive")'
      BY <1>2, <2>5, <2>10, <2>11 DEF Covered, Sides
    <3>2. Sleeper("send")' => /\ ~ Empty("queue")'
                              /\ ~ wasReset' => QLength - count'["queue"] <= Promised("send")'
      BY <1>1, <1>2, <2>5, <2>10, <2>11, KernelQueueAssumption DEF Covered, Sides, Empty
    <3> QED BY <3>1, <3>2 DEF Covered
  <2>13. SetCovered'
    <3>1. Owed("queue", "receive") \in Nat
      BY <1>4 DEF Sides
    <3> QED BY <1>1, <1>2, <1>5, <2>5, <2>9, <3>1 DEF SetCovered, SetHoldsEvents
  <2> QED BY <2>6, <2>7, <2>8, <2>12, <2>13
<1> QED BY <1>7, <1>8

-----------------------------------------------------------------------------
(* The results.                                                            *)

LEMMA KqInitInv == KqInit => KqIInv
<1> SUFFICES ASSUME KqInit PROVE KqIInv
  OBVIOUS
<1> USE DEF KqInit
<1>1. KqTypeOK
  <2>1. 0 \in 0 .. (QLength - 1) /\ QLength - 1 \in 0 .. (QLength - 1) /\ -1 \in -1 .. MaxLock
    BY KernelQueueAssumption
  <2>2. ring \in [0 .. (QLength - 1) -> QItems \cup {NoItem}]
    OBVIOUS
  <2>3. count \in [Queues -> Nat] /\ \A q \in Queues : count[q] <= QueueLength[q]
    BY KernelQueueAssumption DEF Queues, QueueLength
  <2>4. lock \in [Queues -> [Sides -> -1 .. MaxLock]]
    BY <2>1
  <2> QED BY <2>1, <2>2, <2>3, <2>4 DEF KqTypeOK
<1>2. KqControl
  BY KernelQueueAssumption DEF KqControl, Busy
<1>3. KqLists
  BY DEF KqLists
<1>4. \A s \in Sides : ~ Sleeper(s)
  BY DEF Sleeper, Queues
<1>5. Covered
  BY <1>4 DEF Covered, Sides
<1>6. SetCovered
  BY DEF SetCovered, SetHoldsEvents, Queues
<1> QED BY <1>1, <1>2, <1>3, <1>5, <1>6 DEF KqIInv

LEMMA StutterInv == KqIInv /\ UNCHANGED kqVars => KqIInv'
<1> SUFFICES ASSUME KqIInv, UNCHANGED kqVars PROVE KqIInv'
  OBVIOUS
<1> USE DEF KqIInv
<1>1. /\ UNCHANGED <<ring, writeTo, readFrom, member, count, waiting, woken, lock, owner,
                     kpc, op, item, giveUp, received, wasReset>>
  BY DEF kqVars, storeVars, listVars, callVars
<1>2. KqTypeOK'
  BY <1>1 DEF KqTypeOK
<1>3. KqControl'
  BY <1>1, ControlSame
<1>4. KqLists'
  BY <1>1 DEF KqLists, OnList, Target, Side
<1>5. Covered'
  <2>1. \A s \in Sides : Sleeper(s)' => Sleeper(s)
    BY <1>1 DEF Sleeper, Target, Side
  <2> QED BY <1>1, <2>1, CoveredKept DEF Owed
<1>6. SetCovered'
  BY <1>1 DEF SetCovered, SetHoldsEvents, Selected, Owed
<1> QED BY <1>2, <1>3, <1>4, <1>5, <1>6

LEMMA KqStepInv == KqIInv /\ [KqNext]_kqVars => KqIInv'
<1> SUFFICES ASSUME KqIInv, [KqNext]_kqVars PROVE KqIInv'
  OBVIOUS
<1>1. CASE UNCHANGED kqVars
  BY <1>1, StutterInv
<1>2. CASE xQueueAddToSet
  BY <1>2, AddToSetInv
<1>3. ASSUME NEW t \in QTasks, NEW x \in TaskItems, Call(t, "back", x) \/ Call(t, "front", x)
      PROVE  KqIInv'
  <2>1. x \in QItems
    BY KernelQueueAssumption
  <2> QED BY <1>3, <2>1, CallInv
<1>4. ASSUME NEW t \in QTasks, NEW o \in {"receive", "peek", "select"}, Call(t, o, NoItem)
      PROVE  KqIInv'
  BY <1>4, CallInv
<1>5. ASSUME NEW t \in QTasks, kqStep(t)
      PROVE  KqIInv'
  BY <1>5, SendInv, ReceiveInv, PeekInv, SelectInv, RefusedInv, LockInv, TestInv, PlaceInv,
     UnlockTxInv, UnlockRxInv DEF kqStep
<1>6. ASSUME NEW t \in QTasks, Timeout(t) \/ xQueueReset(t)
      PROVE  KqIInv'
  BY <1>6, TimeoutInv, ResetInv
<1>7. ASSUME NEW x \in QItems, NEW front \in BOOLEAN, xQueueGenericSendFromISR(x, front)
      PROVE  KqIInv'
  BY <1>7, SendFromISRInv
<1>8. CASE xQueueReceiveFromISR
  BY <1>8, ReceiveFromISRInv
<1> QED BY <1>1, <1>2, <1>3, <1>4, <1>5, <1>6, <1>7, <1>8 DEF KqNext

(* The inductive invariant holds: in particular the types, and that the    *)
(* counts never exceed the lengths, the configASSERT() on the queue set.   *)
THEOREM QueueInvariance == KqSpec => []KqIInv
<1>1. KqInit => KqIInv
  BY KqInitInv
<1>2. KqIInv /\ [KqNext]_kqVars => KqIInv'
  BY KqStepInv
<1> QED BY <1>1, <1>2, PTL DEF KqSpec

(* No task waits for an item, or for a place, that nobody was woken for or *)
(* that prvUnlockQueue() is not going to announce: for any tasks, lengths  *)
(* and posts by interrupts while the queue is locked.                      *)
THEOREM NothingLost == KqSpec => []NoLostWakeup
<1>1. KqIInv => NoLostWakeup
  BY DEF KqIInv, Covered, Sleeper, Promised, NoLostWakeup
<1> QED BY <1>1, QueueInvariance, PTL

(* Each item of a member of the set has an event in the set, a task that   *)
(* selected the queue, or a count of prvLockQueue()'s.                     *)
THEOREM EventsHeld == KqSpec => []SetHoldsEvents
<1>1. KqIInv => SetHoldsEvents
  BY DEF KqIInv, SetCovered
<1> QED BY <1>1, QueueInvariance, PTL

-----------------------------------------------------------------------------
(* That KernelQueue implements BoundedQueue: the ring between pcReadFrom   *)
(* and pcWriteTo is a sequence.                                            *)

(* The place written next follows the last item.                           *)
StoreOK == writeTo = (readFrom + 1 + count["queue"]) % QLength

Stored == QItems \cup {NoItem}

-----------------------------------------------------------------------------
LEMMA QueueWraps ==
  ASSUME NEW n \in Nat
  PROVE  /\ n < QLength => n % QLength = n
         /\ n >= QLength /\ n < QLength + QLength => n % QLength = n - QLength
         /\ n = QLength + QLength => n % QLength = 0
<1>1. QLength \in Nat /\ QLength > 0
  BY KernelQueueAssumption
<1>2. n < QLength => n % QLength = n
  BY <1>1
<1>3. n >= QLength /\ n < QLength + QLength => n % QLength = n - QLength
  BY <1>1
<1>4. n = QLength + QLength => n % QLength = 0
  BY <1>1
<1> QED BY <1>2, <1>3, <1>4

(* The place i after place a.                                              *)
LEMMA NthPlace ==
  ASSUME NEW a \in 0 .. (QLength - 1), NEW i \in 0 .. (QLength + 1)
  PROVE  (a + i) % QLength =
           IF a + i < QLength THEN a + i
           ELSE IF a + i < QLength + QLength THEN a + i - QLength ELSE 0
<1>1. QLength \in Nat /\ QLength > 0 /\ a \in Nat /\ i \in Nat /\ a + i \in Nat
  BY KernelQueueAssumption
<1>2. a + i <= QLength + QLength
  BY <1>1
<1>3. /\ a + i < QLength => (a + i) % QLength = a + i
      /\ a + i >= QLength /\ a + i < QLength + QLength => (a + i) % QLength = a + i - QLength
      /\ a + i = QLength + QLength => (a + i) % QLength = 0
  <2> DEFINE n == a + i
  <2>1. n \in Nat
    BY <1>1
  <2> HIDE DEF n
  <2>2. /\ n < QLength => n % QLength = n
        /\ n >= QLength /\ n < QLength + QLength => n % QLength = n - QLength
        /\ n = QLength + QLength => n % QLength = 0
    BY <2>1, QueueWraps
  <2> QED BY <1>1, <2>2 DEF n
<1> QED BY <1>1, <1>2, <1>3

(* Going on by i from the place after a is going on by i + 1 from a.       *)
LEMMA After ==
  ASSUME NEW a \in 0 .. (QLength - 1), NEW b, b = (a + 1) % QLength, NEW i \in 0 .. QLength
  PROVE  /\ b \in 0 .. (QLength - 1)
         /\ (b + i) % QLength = (a + (i + 1)) % QLength
<1>1. QLength \in Nat /\ QLength > 0 /\ a \in Nat /\ i \in Nat
  BY KernelQueueAssumption
<1>2. b = IF a + 1 < QLength THEN a + 1 ELSE 0
  <2>1. 1 \in 0 .. (QLength + 1)
    BY <1>1
  <2> QED BY <1>1, <2>1, NthPlace
<1>3. b \in 0 .. (QLength - 1)
  BY <1>1, <1>2
<1>4. (b + i) % QLength =
        IF b + i < QLength THEN b + i
        ELSE IF b + i < QLength + QLength THEN b + i - QLength ELSE 0
  <2>1. i \in 0 .. (QLength + 1)
    BY <1>1
  <2> QED BY <1>3, <2>1, NthPlace
<1>5. (a + (i + 1)) % QLength =
        IF a + (i + 1) < QLength THEN a + (i + 1)
        ELSE IF a + (i + 1) < QLength + QLength THEN a + (i + 1) - QLength ELSE 0
  <2>1. i + 1 \in 0 .. (QLength + 1)
    BY <1>1
  <2> QED BY <2>1, NthPlace
<1> QED BY <1>1, <1>2, <1>3, <1>4, <1>5

(* The place before a.                                                     *)
LEMMA Before ==
  ASSUME NEW a \in 0 .. (QLength - 1), NEW b, b = (a + QLength - 1) % QLength
  PROVE  b \in 0 .. (QLength - 1) /\ a = (b + 1) % QLength
<1>1. QLength \in Nat /\ QLength > 0 /\ a \in Nat
  BY KernelQueueAssumption
<1>2. b = IF a > 0 THEN a - 1 ELSE QLength - 1
  <2>1. QLength - 1 \in 0 .. (QLength + 1)
    BY <1>1
  <2>2. (a + (QLength - 1)) % QLength =
          IF a + (QLength - 1) < QLength THEN a + (QLength - 1)
          ELSE IF a + (QLength - 1) < QLength + QLength THEN a + (QLength - 1) - QLength ELSE 0
    BY <2>1, NthPlace
  <2>3. a + QLength - 1 = a + (QLength - 1)
    BY <1>1
  <2> QED BY <1>1, <2>2, <2>3
<1>3. b \in 0 .. (QLength - 1)
  BY <1>1, <1>2
<1>4. (b + 1) % QLength =
        IF b + 1 < QLength THEN b + 1
        ELSE IF b + 1 < QLength + QLength THEN b + 1 - QLength ELSE 0
  <2>1. 1 \in 0 .. (QLength + 1)
    BY <1>1
  <2> QED BY <1>3, <2>1, NthPlace
<1> QED BY <1>1, <1>2, <1>3, <1>4

(* Distinct items are at distinct places.                                  *)
LEMMA PlacesDiffer ==
  ASSUME NEW a \in 0 .. (QLength - 1), NEW i \in 0 .. QLength, NEW j \in 0 .. QLength,
         i < j, j - i < QLength
  PROVE  (a + i) % QLength # (a + j) % QLength
<1>1. QLength \in Nat /\ QLength > 0 /\ a \in Nat /\ i \in Nat /\ j \in Nat
  BY KernelQueueAssumption
<1>2. i \in 0 .. (QLength + 1) /\ j \in 0 .. (QLength + 1)
  BY <1>1
<1>3. (a + i) % QLength =
        IF a + i < QLength THEN a + i
        ELSE IF a + i < QLength + QLength THEN a + i - QLength ELSE 0
  BY <1>2, NthPlace
<1>4. (a + j) % QLength =
        IF a + j < QLength THEN a + j
        ELSE IF a + j < QLength + QLength THEN a + j - QLength ELSE 0
  BY <1>2, NthPlace
<1> QED BY <1>1, <1>3, <1>4

LEMMA ContentsFacts ==
  ASSUME KqTypeOK
  PROVE  /\ count["queue"] \in Nat /\ count["queue"] <= QLength
         /\ readFrom \in 0 .. (QLength - 1)
         /\ Contents \in Seq(Stored) /\ Len(Contents) = count["queue"]
         /\ \A i \in 1 .. count["queue"] : Contents[i] = ring[(readFrom + i) % QLength]
<1>1. /\ count["queue"] \in Nat /\ count["queue"] <= QLength
      /\ readFrom \in 0 .. (QLength - 1)
      /\ ring \in [0 .. (QLength - 1) -> Stored]
  BY DEF KqTypeOK, Queues, QueueLength, Stored
<1>2. \A i \in 1 .. count["queue"] : ring[(readFrom + i) % QLength] \in Stored
  <2> SUFFICES ASSUME NEW i \in 1 .. count["queue"]
               PROVE  ring[(readFrom + i) % QLength] \in Stored
    OBVIOUS
  <2>1. readFrom + i \in Nat
    BY <1>1, KernelQueueAssumption
  <2>2. (readFrom + i) % QLength \in 0 .. (QLength - 1)
    BY <2>1, PlaceType
  <2> QED BY <1>1, <2>2
<1>3. Contents \in [1 .. count["queue"] -> Stored]
  BY <1>2 DEF Contents
<1>4. Contents \in Seq(Stored) /\ Len(Contents) = count["queue"]
  BY <1>1, <1>3
<1> QED BY <1>1, <1>4 DEF Contents

LEMMA ContentsNow ==
  ASSUME KqTypeOK'
  PROVE  /\ Contents' \in Seq(Stored) /\ Len(Contents') = count'["queue"]
         /\ \A i \in 1 .. count'["queue"] : Contents'[i] = ring'[(readFrom' + i) % QLength]
<1>1. /\ count'["queue"] \in Nat
      /\ readFrom' \in 0 .. (QLength - 1)
      /\ ring' \in [0 .. (QLength - 1) -> Stored]
  BY DEF KqTypeOK, Queues, Stored
<1>2. \A i \in 1 .. count'["queue"] : ring'[(readFrom' + i) % QLength] \in Stored
  <2> SUFFICES ASSUME NEW i \in 1 .. count'["queue"]
               PROVE  ring'[(readFrom' + i) % QLength] \in Stored
    OBVIOUS
  <2> DEFINE r == readFrom'
  <2>1. r \in Nat /\ i \in Nat
    BY <1>1, KernelQueueAssumption
  <2> HIDE DEF r
  <2>2. r + i \in Nat
    BY <2>1
  <2>3. (r + i) % QLength \in 0 .. (QLength - 1)
    BY <2>2, PlaceType
  <2> QED BY <1>1, <2>3 DEF r
<1>3. Contents' \in [1 .. count'["queue"] -> Stored]
  BY <1>2 DEF Contents
<1>4. Contents' \in Seq(Stored) /\ Len(Contents') = count'["queue"]
  BY <1>1, <1>3
<1> QED BY <1>1, <1>4 DEF Contents

-----------------------------------------------------------------------------
(* What is put at the back follows the items there, ...                    *)
LEMMA Back ==
  ASSUME KqTypeOK, KqTypeOK', StoreOK, NEW x \in Stored, CopyToBack(x),
         count["queue"] < QLength, count'["queue"] = count["queue"] + 1
  PROVE  Contents' = Append(Contents, x) /\ StoreOK'
<1> DEFINE c == count["queue"]
<1>1. /\ c \in Nat /\ c < QLength /\ readFrom \in 0 .. (QLength - 1) /\ readFrom' = readFrom
      /\ Contents \in Seq(Stored) /\ Len(Contents) = c
      /\ \A i \in 1 .. c : Contents[i] = ring[(readFrom + i) % QLength]
      /\ ring \in [0 .. (QLength - 1) -> Stored] /\ QLength \in Nat
      /\ count'["queue"] = c + 1
  BY ContentsFacts, KernelQueueAssumption DEF CopyToBack, KqTypeOK, Stored
<1>2. /\ Contents' \in Seq(Stored) /\ Len(Contents') = c + 1
      /\ \A i \in 1 .. (c + 1) : Contents'[i] = ring'[(readFrom + i) % QLength]
  BY <1>1, ContentsNow
<1>3. writeTo = (readFrom + (c + 1)) % QLength /\ writeTo \in 0 .. (QLength - 1)
  <2> HIDE DEF c
  <2>1. readFrom + 1 + c = readFrom + (c + 1)
    BY <1>1
  <2> QED BY <2>1 DEF StoreOK, KqTypeOK, c
<1> HIDE DEF c
<1>4. \A i \in 1 .. c : ring'[(readFrom + i) % QLength] = ring[(readFrom + i) % QLength]
  <2> SUFFICES ASSUME NEW i \in 1 .. c
               PROVE  ring'[(readFrom + i) % QLength] = ring[(readFrom + i) % QLength]
    OBVIOUS
  <2>1. /\ i \in 0 .. QLength /\ c + 1 \in 0 .. QLength /\ i < c + 1 /\ (c + 1) - i < QLength
        /\ readFrom + i \in Nat
    BY <1>1
  <2>2. (readFrom + i) % QLength # (readFrom + (c + 1)) % QLength
    <3>1. readFrom \in 0 .. (QLength - 1)
      BY <1>1
    <3> HIDE <1>1, <1>2, <1>3
    <3> QED BY <2>1, <3>1, PlacesDiffer
  <2>3. (readFrom + i) % QLength \in 0 .. (QLength - 1)
    BY <2>1, PlaceType
  <2> QED BY <1>1, <1>3, <2>2, <2>3 DEF CopyToBack
<1>5. ring'[(readFrom + (c + 1)) % QLength] = x
  BY <1>1, <1>3 DEF CopyToBack
<1>6. Contents' = Append(Contents, x)
  <2>1. /\ Append(Contents, x) \in Seq(Stored) /\ Len(Append(Contents, x)) = c + 1
        /\ \A i \in 1 .. c : Append(Contents, x)[i] = Contents[i]
        /\ Append(Contents, x)[c + 1] = x
    BY <1>1, AppendProperties
  <2>2. \A i \in 1 .. (c + 1) : Contents'[i] = Append(Contents, x)[i]
    <3> SUFFICES ASSUME NEW i \in 1 .. (c + 1) PROVE Contents'[i] = Append(Contents, x)[i]
      OBVIOUS
    <3>1. CASE i = c + 1
      BY <1>1, <1>2, <1>5, <2>1, <3>1
    <3>2. CASE i \in 1 .. c
      BY <1>1, <1>2, <1>4, <2>1, <3>2
    <3> QED BY <1>1, <3>1, <3>2
  <2> QED BY <1>2, <2>1, <2>2, SeqEqual
<1>7. StoreOK'
  <2>1. c + 1 \in 0 .. QLength
    BY <1>1
  <2>2. writeTo' = (writeTo + 1) % QLength
    BY DEF CopyToBack
  <2>3. (readFrom + (c + 1)) \in Nat
    BY <1>1
  <2>4. writeTo' = (readFrom' + 1 + count'["queue"]) % QLength
    <3>1. writeTo = IF readFrom + (c + 1) < QLength THEN readFrom + (c + 1)
                    ELSE IF readFrom + (c + 1) < QLength + QLength
                      THEN readFrom + (c + 1) - QLength ELSE 0
      <4>1. c + 1 \in 0 .. (QLength + 1)
        BY <1>1
      <4> QED BY <1>1, <1>3, <4>1, NthPlace
    <3>2. writeTo' = IF writeTo + 1 < QLength THEN writeTo + 1 ELSE 0
      <4>1. 1 \in 0 .. (QLength + 1)
        BY <1>1
      <4>2. (writeTo + 1) % QLength =
              IF writeTo + 1 < QLength THEN writeTo + 1
              ELSE IF writeTo + 1 < QLength + QLength THEN writeTo + 1 - QLength ELSE 0
        BY <1>3, <4>1, NthPlace
      <4> QED BY <1>1, <1>3, <2>2, <4>2
    <3>3. (readFrom + (c + 2)) % QLength =
            IF readFrom + (c + 2) < QLength THEN readFrom + (c + 2)
            ELSE IF readFrom + (c + 2) < QLength + QLength
              THEN readFrom + (c + 2) - QLength ELSE 0
      <4>1. c + 2 \in 0 .. (QLength + 1)
        BY <1>1
      <4> QED BY <1>1, <4>1, NthPlace
    <3>4. readFrom' + 1 + count'["queue"] = readFrom + (c + 2)
      BY <1>1
    <3>5. writeTo' = (readFrom + (c + 2)) % QLength
      BY <1>1, <3>1, <3>2, <3>3
    <3> QED BY <3>4, <3>5
  <2> QED BY <2>4 DEF StoreOK
<1> QED BY <1>6, <1>7

(* ... what is put at the front precedes them, ...                         *)
LEMMA FrontPuts ==
  ASSUME KqTypeOK, KqTypeOK', StoreOK, NEW x \in Stored, CopyToFront(x),
         count["queue"] < QLength, count'["queue"] = count["queue"] + 1
  PROVE  Contents' = <<x>> \o Contents /\ StoreOK'
<1> DEFINE c == count["queue"]
           r == readFrom'
<1>1. /\ c \in Nat /\ c < QLength /\ readFrom \in 0 .. (QLength - 1)
      /\ Contents \in Seq(Stored) /\ Len(Contents) = c
      /\ \A i \in 1 .. c : Contents[i] = ring[(readFrom + i) % QLength]
      /\ ring \in [0 .. (QLength - 1) -> Stored] /\ QLength \in Nat
      /\ count'["queue"] = c + 1
  BY ContentsFacts, KernelQueueAssumption DEF KqTypeOK, Stored
<1>2. /\ Contents' \in Seq(Stored) /\ Len(Contents') = c + 1
      /\ \A i \in 1 .. (c + 1) : Contents'[i] = ring'[(r + i) % QLength]
  BY <1>1, ContentsNow
<1>3. r \in 0 .. (QLength - 1) /\ readFrom = (r + 1) % QLength
  <2>1. r = (readFrom + QLength - 1) % QLength
    BY DEF CopyToFront
  <2> HIDE DEF r
  <2> QED BY <1>1, <2>1, Before
<1> HIDE DEF c, r
<1>4. \A i \in 0 .. QLength : (r + (i + 1)) % QLength = (readFrom + i) % QLength
  BY <1>3, After
<1>5. ring'[(r + 1) % QLength] = x
  BY <1>1, <1>3 DEF CopyToFront
<1>6. \A i \in 1 .. c : ring'[(readFrom + i) % QLength] = ring[(readFrom + i) % QLength]
  <2> SUFFICES ASSUME NEW i \in 1 .. c
               PROVE  ring'[(readFrom + i) % QLength] = ring[(readFrom + i) % QLength]
    OBVIOUS
  <2>1. /\ 0 \in 0 .. QLength /\ i \in 0 .. QLength /\ 0 < i /\ i - 0 < QLength
        /\ readFrom + i \in Nat
    BY <1>1
  <2>2. (readFrom + 0) % QLength # (readFrom + i) % QLength
    BY <1>1, <2>1, PlacesDiffer
  <2>3. (readFrom + 0) % QLength = readFrom
    <3>1. readFrom + 0 = readFrom /\ readFrom \in Nat /\ readFrom < QLength
      BY <1>1
    <3> QED BY <3>1, QueueWraps
  <2>4. (readFrom + i) % QLength \in 0 .. (QLength - 1)
    BY <2>1, PlaceType
  <2> QED BY <1>1, <2>2, <2>3, <2>4 DEF CopyToFront
<1>7. Contents' = <<x>> \o Contents
  <2>1. <<x>> \in Seq(Stored) /\ Len(<<x>>) = 1 /\ <<x>>[1] = x
    OBVIOUS
  <2>2. /\ <<x>> \o Contents \in Seq(Stored)
        /\ Len(<<x>> \o Contents) = Len(<<x>>) + Len(Contents)
        /\ \A i \in 1 .. Len(<<x>>) + Len(Contents) :
             (<<x>> \o Contents)[i] =
               IF i <= Len(<<x>>) THEN <<x>>[i] ELSE Contents[i - Len(<<x>>)]
    BY <1>1, <2>1, ConcatProperties
  <2>3. /\ Len(<<x>> \o Contents) = c + 1
        /\ \A i \in 1 .. (c + 1) :
             (<<x>> \o Contents)[i] = IF i = 1 THEN x ELSE Contents[i - 1]
    BY <1>1, <2>1, <2>2
  <2>4. \A i \in 1 .. (c + 1) : Contents'[i] = (<<x>> \o Contents)[i]
    <3> SUFFICES ASSUME NEW i \in 1 .. (c + 1)
                 PROVE  Contents'[i] = (<<x>> \o Contents)[i]
      OBVIOUS
    <3>1. CASE i = 1
      BY <1>1, <1>2, <1>5, <2>3, <3>1
    <3>2. CASE i # 1
      <4> DEFINE j == i - 1
      <4>1. j \in 1 .. c /\ j \in 0 .. QLength /\ i = j + 1
        BY <1>1, <3>2
      <4>2. (<<x>> \o Contents)[i] = Contents[j]
        BY <2>3, <3>2
      <4> HIDE DEF j
      <4>3. Contents'[i] = ring'[(readFrom + j) % QLength]
        BY <1>2, <1>4, <4>1
      <4> QED BY <1>1, <1>6, <4>1, <4>2, <4>3
    <3> QED BY <3>1, <3>2
  <2> DEFINE y == <<x>> \o Contents
  <2>5. /\ y \in Seq(Stored) /\ Len(Contents') = Len(y)
        /\ \A i \in 1 .. Len(Contents') : Contents'[i] = y[i]
    BY <1>2, <2>2, <2>3, <2>4
  <2> HIDE DEF y
  <2>6. Contents' = y
    BY <1>2, <2>5, SeqEqual
  <2> QED BY <2>6 DEF y
<1>8. StoreOK'
  <2>1. c + 1 \in 0 .. QLength
    BY <1>1
  <2>2. (r + ((c + 1) + 1)) % QLength = (readFrom + (c + 1)) % QLength
    BY <1>4, <2>1
  <2>3. writeTo' = (readFrom + (c + 1)) % QLength
    <3>1. readFrom + 1 + c = readFrom + (c + 1)
      BY <1>1
    <3> QED BY <3>1 DEF StoreOK, CopyToFront, c
  <2>4. r + 1 + count'["queue"] = r + ((c + 1) + 1)
    BY <1>1, <1>3
  <2>5. writeTo' = (r + 1 + count'["queue"]) % QLength
    BY <2>2, <2>3, <2>4
  <2> QED BY <2>5 DEF StoreOK, r
<1> QED BY <1>7, <1>8

(* ... and what is taken comes from the front.                             *)
LEMMA Taken ==
  ASSUME KqTypeOK, KqTypeOK', StoreOK, CopyFrom,
         count["queue"] > 0, count'["queue"] = count["queue"] - 1
  PROVE  /\ Contents # <<>> /\ Contents' = Tail(Contents)
         /\ received' = Head(Contents) /\ StoreOK'
<1> DEFINE c == count["queue"]
           r == readFrom'
<1>1. /\ c \in Nat /\ c > 0 /\ c <= QLength /\ readFrom \in 0 .. (QLength - 1)
      /\ Contents \in Seq(Stored) /\ Len(Contents) = c
      /\ \A i \in 1 .. c : Contents[i] = ring[(readFrom + i) % QLength]
      /\ QLength \in Nat /\ count'["queue"] = c - 1 /\ ring' = ring
  BY ContentsFacts, KernelQueueAssumption DEF CopyFrom
<1>2. /\ Contents' \in Seq(Stored) /\ Len(Contents') = c - 1
      /\ \A i \in 1 .. (c - 1) : Contents'[i] = ring[(r + i) % QLength]
  BY <1>1, ContentsNow
<1>3. r = (readFrom + 1) % QLength
  BY DEF CopyFrom, NextRead
<1> HIDE DEF c, r
<1>4. r \in 0 .. (QLength - 1)
  <2>1. 0 \in 0 .. QLength
    BY <1>1
  <2> QED BY <1>1, <1>3, <2>1, After
<1>5. \A i \in 0 .. QLength : (r + i) % QLength = (readFrom + (i + 1)) % QLength
  BY <1>1, <1>3, After
<1>6. Contents # <<>>
  BY <1>1
<1>7. received' = Head(Contents)
  <2>1. received' = ring[(readFrom + 1) % QLength]
    BY DEF CopyFrom, NextRead
  <2>2. Contents[1] = ring[(readFrom + 1) % QLength]
    BY <1>1
  <2>3. Head(Contents) = Contents[1]
    BY <1>1
  <2> QED BY <2>1, <2>2, <2>3
<1>8. Contents' = Tail(Contents)
  <2>1. /\ Tail(Contents) \in Seq(Stored) /\ Len(Tail(Contents)) = c - 1
        /\ \A i \in 1 .. (c - 1) : Tail(Contents)[i] = Contents[i + 1]
    BY <1>1, <1>6, HeadTailProperties
  <2>2. \A i \in 1 .. (c - 1) : Contents'[i] = Tail(Contents)[i]
    <3> SUFFICES ASSUME NEW i \in 1 .. (c - 1) PROVE Contents'[i] = Tail(Contents)[i]
      OBVIOUS
    <3>1. i \in 0 .. QLength /\ i + 1 \in 1 .. c
      BY <1>1
    <3>2. Contents'[i] = ring[(readFrom + (i + 1)) % QLength]
      BY <1>2, <1>5, <3>1
    <3> QED BY <1>1, <2>1, <3>1, <3>2
  <2> QED BY <1>2, <2>1, <2>2, SeqEqual
<1>9. StoreOK'
  <2>1. c \in 0 .. QLength
    BY <1>1
  <2>2. (r + c) % QLength = (readFrom + (c + 1)) % QLength
    BY <1>5, <2>1
  <2>3. writeTo' = (readFrom + (c + 1)) % QLength
    <3>1. readFrom + 1 + c = readFrom + (c + 1)
      BY <1>1
    <3> QED BY <3>1 DEF StoreOK, CopyFrom, c
  <2>4. r + 1 + count'["queue"] = r + c
    BY <1>1, <1>4
  <2>5. writeTo' = (r + 1 + count'["queue"]) % QLength
    BY <2>2, <2>3, <2>4
  <2> QED BY <2>5 DEF StoreOK, r
<1> QED BY <1>6, <1>7, <1>8, <1>9

-----------------------------------------------------------------------------
(* The steps.                                                              *)

LEMMA Untouched ==
  ASSUME StoreOK, UNCHANGED <<ring, writeTo, readFrom>>, count'["queue"] = count["queue"]
  PROVE  Contents' = Contents /\ StoreOK'
BY DEF Contents, StoreOK

(* Which steps leave the storage alone, and what was received.             *)
LEMMA Aside ==
  ASSUME NEW t \in QTasks, KqTypeOK,
         \/ xQueueAddToSet \/ (\E o, x : Call(t, o, x)) \/ xQueueSelectFromSet(t)
         \/ Refused(t) \/ Lock(t) \/ Test(t) \/ Place(t) \/ UnlockTx(t) \/ UnlockRx(t)
         \/ Timeout(t) \/ UNCHANGED kqVars
  PROVE  UNCHANGED <<ring, writeTo, readFrom, received>> /\ count'["queue"] = count["queue"]
<1>1. CASE xQueueSelectFromSet(t)
  BY <1>1 DEF xQueueSelectFromSet, storeVars, KqTypeOK, Queues
<1>2. CASE UnlockTx(t)
  <2>1. UNCHANGED <<ring, writeTo, readFrom, received>>
    BY <1>2 DEF UnlockTx, storeVars
  <2>2. CASE Target(t) = "queue"
    BY <1>2, <2>1, <2>2 DEF UnlockTx, Announce, KqTypeOK, Queues
  <2>3. CASE Target(t) # "queue"
    BY <1>2, <2>1, <2>3 DEF UnlockTx, listVars
  <2> QED BY <2>2, <2>3
<1>3. CASE \/ xQueueAddToSet \/ (\E o, x : Call(t, o, x))
           \/ Refused(t) \/ Lock(t) \/ Test(t) \/ Place(t) \/ UnlockRx(t) \/ Timeout(t)
  BY <1>3 DEF xQueueAddToSet, Call, Refused, Lock, Test, Place, UnlockRx, Timeout,
              storeVars, listVars
<1>4. CASE UNCHANGED kqVars
  BY <1>4 DEF kqVars, storeVars, listVars
<1> QED BY <1>1, <1>2, <1>3, <1>4

LEMMA PutStep ==
  ASSUME KqTypeOK, KqTypeOK', StoreOK, NEW x \in QItems,
         CopyToBack(x) \/ CopyToFront(x), UNCHANGED received,
         count["queue"] < QLength, count'["queue"] = count["queue"] + 1
  PROVE  StoreOK' /\ Bounded!Put(x)
<1>1. x \in Stored
  BY DEF Stored
<1>2. Contents' \in {Append(Contents, x), <<x>> \o Contents} /\ StoreOK'
  BY <1>1, Back, FrontPuts
<1>3. Len(Contents) < QLength
  BY ContentsFacts
<1> QED BY <1>2, <1>3 DEF Bounded!Put

LEMMA SendPuts ==
  ASSUME NEW t \in QTasks, KqIInv, KqIInv', StoreOK, Send(t)
  PROVE  StoreOK' /\ \E x \in QItems : Bounded!Put(x)
<1> USE DEF KqIInv
<1>1. item[t] \in QItems
  BY DEF Send, Runs, Side, KqControl, KqTypeOK
<1>2. CopyToBack(item[t]) \/ CopyToFront(item[t])
  BY DEF Send
<1>3. UNCHANGED received
  BY DEF Send
<1>4. count["queue"] < QLength /\ count'["queue"] = count["queue"] + 1
  BY KernelQueueAssumption DEF Send, Announce, KqTypeOK, Queues, Full, QueueLength
<1> QED BY <1>1, <1>2, <1>3, <1>4, PutStep

LEMMA SendFromISRPuts ==
  ASSUME NEW x \in QItems, NEW front \in BOOLEAN, KqIInv, KqIInv', StoreOK,
         xQueueGenericSendFromISR(x, front)
  PROVE  StoreOK' /\ Bounded!Put(x)
<1> USE DEF KqIInv
<1>1. (CopyToBack(x) \/ CopyToFront(x)) /\ UNCHANGED received
  BY DEF xQueueGenericSendFromISR
<1>2. count["queue"] < QLength /\ count'["queue"] = count["queue"] + 1
  BY KernelQueueAssumption
     DEF xQueueGenericSendFromISR, Announce, KqTypeOK, Queues, Full, QueueLength
<1> QED BY <1>1, <1>2, PutStep

LEMMA TakeStep ==
  ASSUME KqTypeOK, KqTypeOK', StoreOK, CopyFrom,
         count["queue"] # 0, count' = [count EXCEPT !["queue"] = @ - 1]
  PROVE  StoreOK' /\ Bounded!Take
<1>1. count["queue"] > 0 /\ count'["queue"] = count["queue"] - 1
  BY DEF KqTypeOK, Queues
<1> QED BY <1>1, Taken DEF Bounded!Take

LEMMA PeekLooks ==
  ASSUME NEW t \in QTasks, KqIInv, StoreOK, Peek(t)
  PROVE  StoreOK' /\ Bounded!Peek
<1>1. /\ UNCHANGED <<ring, writeTo, readFrom>> /\ count' = count
      /\ count["queue"] # 0 /\ received' = ring[(readFrom + 1) % QLength]
  BY DEF Peek, storeVars, Empty, NextRead
<1>2. Contents' = Contents /\ StoreOK'
  BY <1>1, Untouched
<1>3. /\ count["queue"] \in Nat /\ Contents \in Seq(Stored) /\ Len(Contents) = count["queue"]
      /\ \A i \in 1 .. count["queue"] : Contents[i] = ring[(readFrom + i) % QLength]
  BY ContentsFacts DEF KqIInv
<1>4. Contents # <<>> /\ Contents[1] = ring[(readFrom + 1) % QLength]
  BY <1>1, <1>3
<1>5. Head(Contents) = Contents[1]
  BY <1>3, <1>4
<1> QED BY <1>1, <1>2, <1>4, <1>5 DEF Bounded!Peek

LEMMA ResetDrops ==
  ASSUME NEW t \in QTasks, KqIInv, KqIInv', xQueueReset(t)
  PROVE  StoreOK' /\ Bounded!Reset
<1>1. /\ count'["queue"] = 0 /\ writeTo' = 0 /\ readFrom' = QLength - 1
      /\ received' = received
  BY DEF xQueueReset, KqIInv, KqTypeOK, Queues
<1>2. Contents' = <<>>
  <2>1. Contents' \in Seq(Stored) /\ Len(Contents') = 0
    BY <1>1, ContentsNow DEF KqIInv
  <2> QED BY <2>1
<1>3. StoreOK'
  <2>1. QLength - 1 + 1 + 0 = QLength /\ QLength \in Nat /\ QLength % QLength = 0
    <3>1. QLength \in Nat /\ QLength > 0 /\ QLength - 1 + 1 + 0 = QLength
      BY KernelQueueAssumption
    <3>2. QLength % QLength = QLength - QLength
      BY <3>1, QueueWraps
    <3> QED BY <3>1, <3>2
  <2>2. readFrom' + 1 + count'["queue"] = QLength
    BY <1>1, KernelQueueAssumption
  <2> QED BY <1>1, <2>1, <2>2 DEF StoreOK
<1> QED BY <1>1, <1>2, <1>3 DEF Bounded!Reset

LEMMA StepRefines ==
  KqIInv /\ KqIInv' /\ StoreOK /\ [KqNext]_kqVars
    => StoreOK' /\ [Bounded!Next]_(Bounded!queueVars)
<1> SUFFICES ASSUME KqIInv, KqIInv', StoreOK, [KqNext]_kqVars
             PROVE  StoreOK' /\ [Bounded!Next]_(Bounded!queueVars)
  OBVIOUS
<1>1. ASSUME UNCHANGED <<ring, writeTo, readFrom, received>>, count'["queue"] = count["queue"]
      PROVE  StoreOK' /\ [Bounded!Next]_(Bounded!queueVars)
  BY <1>1, Untouched DEF Bounded!queueVars
<1>2. CASE UNCHANGED kqVars
  BY <1>1, <1>2 DEF kqVars, storeVars, listVars
<1>3. CASE xQueueAddToSet
  BY <1>1, <1>3 DEF xQueueAddToSet, storeVars, listVars
<1>4. ASSUME NEW t \in QTasks,
             \/ \E x \in TaskItems : Call(t, "back", x) \/ Call(t, "front", x)
             \/ \E o \in {"receive", "peek", "select"} : Call(t, o, NoItem)
             \/ kqStep(t) \/ Timeout(t) \/ xQueueReset(t)
      PROVE  StoreOK' /\ [Bounded!Next]_(Bounded!queueVars)
  <2>1. CASE Send(t)
    BY <2>1, SendPuts DEF Bounded!Next
  <2>2. CASE Receive(t)
    BY <2>2, TakeStep DEF Receive, Empty, KqIInv, Bounded!Next
  <2>3. CASE Peek(t)
    BY <2>3, PeekLooks DEF Bounded!Next
  <2>4. CASE xQueueReset(t)
    BY <2>4, ResetDrops DEF Bounded!Next
  <2>5. CASE \/ \E x \in TaskItems : Call(t, "back", x) \/ Call(t, "front", x)
             \/ \E o \in {"receive", "peek", "select"} : Call(t, o, NoItem)
             \/ xQueueSelectFromSet(t) \/ Refused(t) \/ Lock(t) \/ Test(t) \/ Place(t)
             \/ UnlockTx(t) \/ UnlockRx(t) \/ Timeout(t)
    <3>1. KqTypeOK
      BY DEF KqIInv
    <3> QED BY <1>1, <2>5, <3>1, Aside
  <2> QED BY <1>4, <2>1, <2>2, <2>3, <2>4, <2>5 DEF kqStep
<1>5. ASSUME NEW x \in QItems, NEW front \in BOOLEAN, xQueueGenericSendFromISR(x, front)
      PROVE  StoreOK' /\ [Bounded!Next]_(Bounded!queueVars)
  BY <1>5, SendFromISRPuts DEF Bounded!Next
<1>6. CASE xQueueReceiveFromISR
  BY <1>6, TakeStep DEF xQueueReceiveFromISR, Empty, KqIInv, Bounded!Next
<1> QED BY <1>2, <1>3, <1>4, <1>5, <1>6 DEF KqNext

LEMMA InitRefines == KqInit => StoreOK /\ Bounded!Init
<1> SUFFICES ASSUME KqInit PROVE StoreOK /\ Bounded!Init
  OBVIOUS
<1>1. /\ count["queue"] = 0 /\ writeTo = 0 /\ readFrom = QLength - 1 /\ received = NoItem
  BY DEF KqInit, Queues
<1>2. Contents = <<>>
  <2>1. Contents \in Seq(Stored) /\ Len(Contents) = 0
    BY <1>1, KqInitInv, ContentsFacts DEF KqIInv
  <2> QED BY <2>1
<1>3. StoreOK
  <2>1. QLength \in Nat /\ QLength > 0 /\ readFrom + 1 + count["queue"] = QLength
    BY <1>1, KernelQueueAssumption
  <2>2. QLength % QLength = QLength - QLength
    BY <2>1, QueueWraps
  <2> QED BY <1>1, <2>1, <2>2 DEF StoreOK
<1> QED BY <1>1, <1>2, <1>3 DEF Bounded!Init

(* The ring with its wrapping places is the sequence that BoundedQueue     *)
(* describes: nothing sent is lost, doubled or put in another order, by    *)
(* tasks or by interrupts, locked or not.                                  *)
THEOREM Refinement == KqSpec => ImplementsQueue
<1>1. KqInit => StoreOK /\ Bounded!Init
  BY InitRefines
<1>2. KqIInv /\ KqIInv' /\ StoreOK /\ [KqNext]_kqVars
        => StoreOK' /\ [Bounded!Next]_(Bounded!queueVars)
  BY StepRefines
<1>3. KqSpec => []KqIInv
  BY QueueInvariance
<1> QED BY <1>1, <1>2, <1>3, PTL DEF KqSpec, ImplementsQueue, Bounded!Spec

-----------------------------------------------------------------------------
(* Time.                                                                   *)

(* The ticks processed when the present turn of the wheel began.           *)
Base == IF overflows = 0 THEN 0 ELSE Wheel

(* The ticks processed when the call of t last looked at the time.         *)
Began(t) == (IF entering[t].over = 0 THEN 0 ELSE Wheel) + entering[t].tick

ClockRight ==
  /\ overflows \in {0, 1} /\ processed = Base + tickCount
  /\ ktOwner = NobodyKt => pendedTicks = 0 /\ pendingReady = {}

(* Where a task holds the scheduler.                                       *)
Inside == {"delay", "until", "check", "place", "passed", "resume"}

OwnerRight == \A t \in KtTasks : ktPc[t] \in Inside <=> ktOwner = t

ListsApart ==
  /\ readyTasks \cap (delayed \cup overflowed) = {}
  /\ asleep \cap (delayed \cup overflowed) = {}
  /\ readyTasks \cap asleep = {} /\ delayed \cap overflowed = {}

(* The wake-up times of this turn and of the next.                         *)
InThisTurn(t) == wakeTick[t] > tickCount /\ due[t] = Base + wakeTick[t] /\ nextUnblock <= wakeTick[t]
InNextTurn(t) == wakeTick[t] < tickCount /\ due[t] = Base + Wheel + wakeTick[t]

WakeRight ==
  /\ \A t \in delayed : InThisTurn(t)
  /\ \A t \in overflowed : InNextTurn(t)

(* What is left of a block time.                                           *)
WaitRight(t) ==
  /\ entering[t].over \in {0, 1} /\ Began(t) <= processed
  /\ ticksToWait[t] = MaxDelay => due[t] = Forever
  /\ ticksToWait[t] # MaxDelay => due[t] = Began(t) + ticksToWait[t]

(* vTaskDelayUntil(): the time before was at most a turn ago.              *)
UntilRight(t) ==
  \E p \in 0 .. processed :
    /\ prevWake[t] = (IF p < Wheel THEN p ELSE p - Wheel)
    /\ due[t] = p + ticksToWait[t]
    /\ processed - p + ticksToWait[t] < Wheel

CallRight(t) ==
  /\ ticksToWait[t] \in 0 .. MaxWait \cup {MaxDelay}
  /\ ktPc[t] \in {"delay", "until"} => ticksToWait[t] \in 1 .. MaxWait
  /\ ktPc[t] = "delay" => due[t] = processed + ticksToWait[t]
  /\ ktPc[t] = "until" => UntilRight(t)
  /\ ktPc[t] \in {"lock", "check", "place"} => ticksToWait[t] # 0
  /\ ktPc[t] \in {"lock", "check", "place", "resume", "resumed"} /\ ticksToWait[t] # 0 => WaitRight(t)
  /\ ktPc[t] = "place" /\ ticksToWait[t] # MaxDelay => Began(t) = processed
  /\ ktPc[t] = "passed" => due[t] <= processed

CallsRight == \A t \in KtTasks : CallRight(t)

KtIInv == KtTypeOK /\ ClockRight /\ OwnerRight /\ ListsApart /\ WakeRight /\ CallsRight

-----------------------------------------------------------------------------
(* Arithmetic of the wheel.                                                *)
LEMMA Turns ==
  ASSUME NEW W \in Nat \ {0}, NEW x \in 0 .. (2 * W - 1)
  PROVE  x % W = (IF x < W THEN x ELSE x - W)
<1>1. CASE x < W
  <2>1. x \in 0 .. (W - 1)
    BY <1>1
  <2> QED BY <2>1, SMT
<1>2. CASE x >= W
  <2>1. x \in W .. (2 * W - 1)
    BY <1>2
  <2>2. x % W = x - W
    BY <2>1, SMT
  <2> QED BY <1>2, <2>2
<1> QED BY <1>1, <1>2

LEMMA TurnsBack ==
  ASSUME NEW W \in Nat \ {0}, NEW x \in 0 .. (W - 1), NEW y \in 0 .. (W - 1)
  PROVE  (x - y) % W = (IF x >= y THEN x - y ELSE x - y + W)
<1>1. CASE x >= y
  <2>1. x - y \in 0 .. (W - 1)
    BY <1>1
  <2> QED BY <1>1, <2>1, SMT
<1>2. CASE x < y
  <2>1. x - y \in -W .. -1 /\ x - y + W \in 0 .. (W - 1)
    BY <1>2
  <2>2. (x - y) % W = x - y + W
    BY <2>1, SMT
  <2> QED BY <1>2, <2>2
<1> QED BY <1>1, <1>2

(* A non-empty set of natural numbers has a least element.                 *)
LEMMA LeastNatural ==
  ASSUME NEW S \in SUBSET Nat, S # {}
  PROVE  \E x \in S : \A y \in S : x <= y
<1> DEFINE R == OpToRel(<, Nat)
<1>1. IsWellFoundedOn(R, Nat)
  BY NatLessThanWellFounded
<1>2. \E x \in S : \A y \in S : ~ (<<y, x>> \in R)
  <2> HIDE DEF R
  <2> QED BY <1>1, WFMin
<1>3. PICK x \in S : \A y \in S : ~ (<<y, x>> \in R)
  BY <1>2
<1>4. ASSUME NEW y \in S PROVE x <= y
  <2>1. ~ (<<y, x>> \in R)
    BY <1>3
  <2>2. x \in Nat /\ y \in Nat
    OBVIOUS
  <2>3. ~ (y < x)
    BY <2>1, <2>2 DEF OpToRel
  <2> HIDE DEF R
  <2> QED BY <2>2, <2>3
<1> HIDE DEF R
<1> QED BY <1>3, <1>4

(* xNextTaskUnblockTime, when it is computed anew.                         *)
LEMMA EarliestIsLeast ==
  ASSUME KtTypeOK, NEW S \in SUBSET KtTasks
  PROVE  Earliest(S) \in 0 .. MaxDelay /\ \A t \in S : Earliest(S) <= wakeTick[t]
<1>1. wakeTick \in [KtTasks -> 0 .. MaxDelay] /\ MaxDelay \in Nat
  BY KernelTimeAssumption DEF KtTypeOK, MaxDelay
<1>2. CASE S = {}
  BY <1>1, <1>2 DEF Earliest
<1>3. CASE S # {}
  <2> DEFINE T == {wakeTick[t] : t \in S}
  <2>1. T \in SUBSET Nat /\ T # {}
    BY <1>1, <1>3
  <2>2. \E x \in T : \A y \in T : x <= y
    <3> HIDE DEF T
    <3> QED BY <2>1, LeastNatural
  <2>3. \E x \in T : \A t \in S : x <= wakeTick[t]
    BY <2>2
  <2>4. Earliest(S) \in T /\ \A t \in S : Earliest(S) <= wakeTick[t]
    BY <1>3, <2>3 DEF Earliest
  <2> QED BY <1>1, <2>4
<1> QED BY <1>2, <1>3

-----------------------------------------------------------------------------
(* The types, one by one.                                                  *)
ListTypes ==
  /\ readyTasks \subseteq KtTasks /\ delayed \subseteq KtTasks /\ overflowed \subseteq KtTasks
  /\ asleep \subseteq KtTasks /\ onEvent \subseteq KtTasks /\ pendingReady \subseteq KtTasks

ClockTypes ==
  /\ tickCount \in 0 .. MaxDelay /\ overflows \in Nat /\ nextUnblock \in 0 .. MaxDelay
  /\ now \in 0 .. MaxTicks /\ pendedTicks \in 0 .. now

WaitTypes ==
  /\ wakeTick \in [KtTasks -> 0 .. MaxDelay]
  /\ entering \in [KtTasks -> [over : Nat, tick : 0 .. MaxDelay]]
  /\ ticksToWait \in [KtTasks -> 0 .. MaxDelay] /\ prevWake \in [KtTasks -> 0 .. MaxDelay]
  /\ due \in [KtTasks -> 0 .. Forever]

OwnerTypes ==
  /\ ktOwner \in KtTasks \cup {NobodyKt}
  /\ ktPc \in [KtTasks -> {"run", "delay", "until", "lock", "check", "place", "passed",
                           "resume", "resumed"}]

LEMMA TypeParts == KtTypeOK <=> ListTypes /\ ClockTypes /\ WaitTypes /\ OwnerTypes
BY DEF KtTypeOK, ListTypes, ClockTypes, WaitTypes, OwnerTypes

LEMMA TypePartsNext == KtTypeOK' <=> ListTypes' /\ ClockTypes' /\ WaitTypes' /\ OwnerTypes'
BY DEF KtTypeOK, ListTypes, ClockTypes, WaitTypes, OwnerTypes

LEMMA KtConstants ==
  /\ Wheel \in Nat /\ Wheel > 2 /\ MaxDelay = Wheel - 1 /\ MaxDelay \in Nat
  /\ MaxWait \in Nat /\ 0 < MaxWait /\ MaxWait < MaxDelay
  /\ MaxTicks \in Nat /\ MaxTicks < 2 * Wheel
  /\ Forever = MaxTicks + Wheel /\ Forever \in Nat
BY KernelTimeAssumption DEF MaxDelay, Forever

LEMMA KtInitInv == KtInit => KtIInv
<1> SUFFICES ASSUME KtInit PROVE KtIInv
  OBVIOUS
<1>1. KtTypeOK
  <2>1. ListTypes /\ OwnerTypes
    BY DEF KtInit, ListTypes, OwnerTypes
  <2>2. ClockTypes /\ WaitTypes
    BY KtConstants DEF KtInit, ClockTypes, WaitTypes
  <2> QED BY <2>1, <2>2, TypeParts
<1>2. ClockRight
  BY DEF KtInit, ClockRight, processed, Base
<1>3. OwnerRight /\ ListsApart
  BY KernelTimeAssumption DEF KtInit, OwnerRight, ListsApart, Inside
<1>4. WakeRight
  BY DEF KtInit, WakeRight
<1>5. CallsRight
  BY KtConstants DEF KtInit, CallsRight, CallRight
<1> QED BY <1>1, <1>2, <1>3, <1>4, <1>5 DEF KtIInv

-----------------------------------------------------------------------------
(* What leaves a part of the invariant as it is.                           *)

(* The call of t is right as long as t does nothing, and no tick is        *)
(* processed while t has the scheduler to itself.                          *)
LEMMA CallFrame ==
  ASSUME KtIInv, NEW t \in KtTasks, ktPc'[t] = ktPc[t], ticksToWait'[t] = ticksToWait[t],
         due'[t] = due[t], entering'[t] = entering[t], prevWake'[t] = prevWake[t],
         processed' \in Nat, processed' >= processed,
         processed' = processed \/ ktPc[t] \notin {"delay", "until", "place"}
  PROVE  CallRight(t)'
<1>1. CallRight(t) /\ ClockTypes /\ WaitTypes
  BY TypeParts DEF KtIInv, CallsRight
<1>2. processed \in Nat /\ due[t] \in Nat /\ Began(t) \in Nat
  <2>1. processed \in Nat
    BY <1>1 DEF ClockTypes, processed
  <2>2. due[t] \in Nat /\ entering[t].tick \in Nat
    BY <1>1, KtConstants DEF WaitTypes
  <2> QED BY <2>1, <2>2, KtConstants DEF Began
<1>3. Began(t)' = Began(t)
  BY DEF Began
<1> DEFINE P == processed
<1> DEFINE Pn == processed'
<1>4. WaitRight(t) => WaitRight(t)'
  <2>1. Began(t) <= P => Began(t) <= Pn
    <3>1. P \in Nat /\ Pn \in Nat /\ P <= Pn
      BY <1>2
    <3> HIDE DEF P, Pn
    <3> QED BY <1>2, <3>1
  <2> QED BY <1>3, <2>1 DEF WaitRight
<1>5. ktPc[t] = "passed" => due[t] <= Pn
  <2>1. ktPc[t] = "passed" => due[t] <= P
    BY <1>1 DEF CallRight
  <2>2. P \in Nat /\ Pn \in Nat /\ P <= Pn
    BY <1>2
  <2> HIDE DEF P, Pn
  <2> QED BY <1>2, <2>1, <2>2
<1>6. ktPc[t] = "until" => UntilRight(t)'
  <2> SUFFICES ASSUME ktPc[t] = "until" PROVE UntilRight(t)'
    OBVIOUS
  <2>1. processed' = processed /\ UntilRight(t)
    BY <1>1 DEF CallRight
  <2> QED BY <2>1 DEF UntilRight
<1>7. ktPc[t] = "delay" => due[t] = processed' + ticksToWait[t]
  BY <1>1 DEF CallRight
<1>8. ktPc[t] = "place" /\ ticksToWait[t] # MaxDelay => Began(t) = processed'
  BY <1>1 DEF CallRight
<1> QED BY <1>1, <1>3, <1>4, <1>5, <1>6, <1>7, <1>8 DEF CallRight

(* Tasks may leave the lists of delayed tasks at any time.                 *)
LEMMA WakeFrame ==
  ASSUME KtIInv, delayed' \subseteq delayed, overflowed' \subseteq overflowed,
         \A t \in delayed' \cup overflowed' : wakeTick'[t] = wakeTick[t] /\ due'[t] = due[t],
         tickCount' = tickCount, overflows' = overflows,
         nextUnblock' = nextUnblock \/ \A t \in delayed' : nextUnblock' <= wakeTick[t]
  PROVE  WakeRight'
<1>1. \A t \in delayed' : InThisTurn(t)'
  BY DEF KtIInv, WakeRight, InThisTurn, Base
<1>2. \A t \in overflowed' : InNextTurn(t)'
  BY DEF KtIInv, WakeRight, InNextTurn, Base
<1> QED BY <1>1, <1>2 DEF WakeRight

(* The same for a step that leaves clock, lists and owner alone.           *)
LEMMA ClockFrame ==
  ASSUME KtIInv, UNCHANGED <<tickCount, overflows, now, pendedTicks>>,
         ktOwner' = NobodyKt => pendedTicks = 0 /\ pendingReady' = {}
  PROVE  ClockRight' /\ processed' = processed /\ processed' \in Nat /\ processed' >= processed
<1>1. processed' = processed
  BY DEF processed
<1>2. processed \in Nat
  BY TypeParts DEF KtIInv, ClockTypes, processed
<1>3. ClockRight'
  BY <1>1 DEF KtIInv, ClockRight, Base
<1> QED BY <1>1, <1>2, <1>3

LEMMA Processed ==
  ASSUME KtIInv
  PROVE  /\ processed \in Nat /\ now \in Nat /\ pendedTicks \in Nat /\ now = processed + pendedTicks
         /\ tickCount \in Nat /\ tickCount < Wheel /\ processed = Base + tickCount
         /\ processed < 2 * Wheel /\ now <= MaxTicks
<1>1. ClockTypes /\ ClockRight
  BY TypeParts DEF KtIInv
<1>2. now \in Nat /\ pendedTicks \in Nat /\ pendedTicks <= now /\ now <= MaxTicks
  BY <1>1, KtConstants DEF ClockTypes
<1>3. processed \in Nat /\ now = processed + pendedTicks /\ processed <= now
  BY <1>2 DEF processed
<1>4. tickCount \in Nat /\ tickCount < Wheel
  BY <1>1, KtConstants DEF ClockTypes
<1>5. processed = Base + tickCount
  BY <1>1 DEF ClockRight
<1>6. processed < 2 * Wheel
  BY <1>2, <1>3, KtConstants
<1> QED BY <1>2, <1>3, <1>4, <1>5, <1>6

(* What a step of the call of t leaves alone: the other calls.             *)
OnlyCallOf(t) ==
  \A u \in KtTasks \ {t} :
    /\ ktPc'[u] = ktPc[u] /\ ticksToWait'[u] = ticksToWait[u] /\ due'[u] = due[u]
    /\ entering'[u] = entering[u] /\ prevWake'[u] = prevWake[u] /\ wakeTick'[u] = wakeTick[u]

LEMMA OthersRight ==
  ASSUME KtIInv, NEW t \in KtTasks, OnlyCallOf(t), processed' = processed, CallRight(t)'
  PROVE  CallsRight'
<1>1. ASSUME NEW u \in KtTasks, u # t PROVE CallRight(u)'
  <2>1. /\ ktPc'[u] = ktPc[u] /\ ticksToWait'[u] = ticksToWait[u] /\ due'[u] = due[u]
        /\ entering'[u] = entering[u] /\ prevWake'[u] = prevWake[u]
    BY <1>1 DEF OnlyCallOf
  <2>2. processed' \in Nat /\ processed' >= processed
    BY Processed
  <2> QED BY <2>1, <2>2, CallFrame
<1> QED BY <1>1 DEF CallsRight

(* The owner goes where an owner is, and only the owner.                   *)
OwnerMoves(t, w) ==
  /\ ktOwner' \in KtTasks \cup {NobodyKt}
  /\ w \in Inside <=> ktOwner' = t
  /\ \A u \in KtTasks \ {t} : ktOwner' = u <=> ktOwner = u

LEMMA OwnerFrame ==
  ASSUME KtIInv, NEW t \in KtTasks, NEW w \in Inside \cup {"run", "lock", "resumed"},
         Goes(t, w), OwnerMoves(t, w)
  PROVE  OwnerRight' /\ OwnerTypes' /\ ktPc'[t] = w /\ \A u \in KtTasks \ {t} : ktPc'[u] = ktPc[u]
<1>1. OwnerTypes /\ OwnerRight
  BY TypeParts DEF KtIInv
<1>2. ktPc'[t] = w /\ \A u \in KtTasks \ {t} : ktPc'[u] = ktPc[u]
  BY <1>1 DEF OwnerTypes, Goes
<1>3. OwnerTypes'
  BY <1>1 DEF OwnerTypes, Goes, OwnerMoves, Inside
<1>4. OwnerRight'
  BY <1>1, <1>2 DEF OwnerRight, OwnerMoves
<1> QED BY <1>2, <1>3, <1>4

(* A step of the call of t that leaves the clock and the lists alone.      *)
LEMMA CallStep ==
  ASSUME KtIInv, NEW t \in KtTasks, NEW w \in Inside \cup {"run", "lock", "resumed"},
         t \notin delayed \cup overflowed \/ UNCHANGED waitVars,
         Goes(t, w), OwnerMoves(t, w), OnlyCallOf(t), WaitTypes',
         UNCHANGED <<clockVars, listsVars, pendedTicks, now>>,
         ktOwner' = NobodyKt => pendedTicks = 0 /\ pendingReady = {},
         CallRight(t)'
  PROVE  KtIInv'
<1>1. /\ UNCHANGED <<tickCount, overflows, nextUnblock, now, pendedTicks>>
      /\ UNCHANGED <<readyTasks, delayed, overflowed, asleep, onEvent, pendingReady>>
  BY DEF clockVars, listsVars
<1>2. ClockRight' /\ processed' = processed
  BY <1>1, ClockFrame
<1>3. OwnerRight' /\ OwnerTypes'
  BY OwnerFrame
<1>4. KtTypeOK'
  <2>1. ListTypes' /\ ClockTypes'
    BY <1>1, TypeParts DEF KtIInv, ListTypes, ClockTypes
  <2> QED BY <2>1, <1>3, TypePartsNext
<1>5. ListsApart'
  BY <1>1 DEF KtIInv, ListsApart
<1>6. WakeRight'
  <2>1. delayed \subseteq KtTasks /\ overflowed \subseteq KtTasks
    BY TypeParts DEF KtIInv, ListTypes
  <2>2. \A u \in delayed' \cup overflowed' : wakeTick'[u] = wakeTick[u] /\ due'[u] = due[u]
    BY <1>1, <2>1 DEF OnlyCallOf, waitVars
  <2> QED BY <1>1, <2>2, WakeFrame
<1>7. CallsRight'
  BY <1>2, OthersRight
<1> QED BY <1>2, <1>3, <1>4, <1>5, <1>6, <1>7 DEF KtIInv

(* Of a task that runs.                                                    *)
LEMMA RunFacts ==
  ASSUME KtIInv, NEW t \in KtTasks, NEW w, RunsAt(t, w)
  PROVE  /\ t \notin delayed \cup overflowed \cup asleep /\ ktPc[t] = w
         /\ w \in Inside => ktOwner = t
         /\ w \notin Inside => ktOwner = NobodyKt /\ pendedTicks = 0 /\ pendingReady = {}
<1>1. t \in readyTasks /\ ktOwner \in {NobodyKt, t} /\ ktPc[t] = w
  BY DEF RunsAt
<1>2. t \notin delayed \cup overflowed \cup asleep
  BY <1>1 DEF KtIInv, ListsApart
<1>3. w \in Inside <=> ktOwner = t
  BY <1>1 DEF KtIInv, OwnerRight
<1> QED BY <1>1, <1>2, <1>3 DEF KtIInv, ClockRight

-----------------------------------------------------------------------------
(* The steps of a call that leave the clock and the lists alone.           *)

LEMMA CallDelayStep ==
  ASSUME KtIInv, NEW t \in KtTasks, NEW n \in 1 .. MaxWait, CallDelay(t, n), WaitTypes'
  PROVE  KtIInv'
<1>1. RunsAt(t, "run") /\ Goes(t, "delay") /\ ktOwner = NobodyKt /\ ktOwner' = t
  BY DEF CallDelay
<1>2. t \notin delayed \cup overflowed /\ WaitTypes /\ OwnerTypes
  BY <1>1, RunFacts, TypeParts DEF KtIInv
<1>3. OnlyCallOf(t) /\ ktPc'[t] = "delay" /\ ticksToWait'[t] = n /\ due'[t] = now + n
  BY <1>2 DEF CallDelay, OnlyCallOf, WaitTypes, OwnerTypes, Goes
<1>4. OwnerMoves(t, "delay")
  BY <1>1, KernelTimeAssumption DEF OwnerMoves, Inside
<1>5. UNCHANGED <<clockVars, listsVars, pendedTicks, now>> /\ ktOwner' # NobodyKt
  BY <1>1, KernelTimeAssumption DEF CallDelay
<1>6. processed' = now /\ processed' = processed
  BY <1>1, <1>5, Processed DEF KtIInv, ClockRight, processed
<1>7. CallRight(t)'
  BY <1>3, <1>6 DEF CallRight
<1> QED BY <1>1, <1>2, <1>3, <1>4, <1>5, <1>7, CallStep DEF Inside

LEMMA CallDelayUntilStep ==
  ASSUME KtIInv, NEW t \in KtTasks, NEW n \in 1 .. MaxWait, CallDelayUntil(t, n), WaitTypes'
  PROVE  KtIInv'
<1>1. RunsAt(t, "run") /\ Goes(t, "until") /\ ktOwner = NobodyKt /\ ktOwner' = t
  BY DEF CallDelayUntil
<1>2. t \notin delayed \cup overflowed /\ WaitTypes /\ OwnerTypes
  BY <1>1, RunFacts, TypeParts DEF KtIInv
<1>3. PICK ago \in 0 .. (Wheel - 1 - n) :
        /\ ago <= now
        /\ prevWake' = [prevWake EXCEPT ![t] = (now - ago) % Wheel]
        /\ due' = [due EXCEPT ![t] = now - ago + n]
  BY DEF CallDelayUntil
<1>4. /\ OnlyCallOf(t) /\ ktPc'[t] = "until" /\ ticksToWait'[t] = n
      /\ prevWake'[t] = (now - ago) % Wheel /\ due'[t] = now - ago + n
  BY <1>2, <1>3 DEF CallDelayUntil, OnlyCallOf, WaitTypes, OwnerTypes, Goes
<1>5. OwnerMoves(t, "until")
  BY <1>1, KernelTimeAssumption DEF OwnerMoves, Inside
<1>6. UNCHANGED <<clockVars, listsVars, pendedTicks, now>> /\ ktOwner' # NobodyKt
  BY <1>1, KernelTimeAssumption DEF CallDelayUntil
<1>7. processed' = now /\ processed' = processed /\ now \in Nat /\ now <= MaxTicks
  BY <1>1, <1>6, Processed DEF KtIInv, ClockRight, processed
<1>8. UntilRight(t)'
  <2> DEFINE p == now - ago
  <2>1. p \in 0 .. now /\ p \in 0 .. (2 * Wheel - 1)
    BY <1>3, <1>7, KtConstants
  <2>2. p % Wheel = (IF p < Wheel THEN p ELSE p - Wheel)
    <3>1. Wheel \in Nat \ {0}
      BY KtConstants
    <3> HIDE DEF p
    <3> QED BY <2>1, <3>1, Turns
  <2>3. now - p + n < Wheel
    BY <1>3, <1>7, KtConstants
  <2>4. /\ p \in 0 .. processed'
        /\ prevWake'[t] = (IF p < Wheel THEN p ELSE p - Wheel)
        /\ due'[t] = p + ticksToWait'[t]
        /\ processed' - p + ticksToWait'[t] < Wheel
    BY <1>4, <1>7, <2>1, <2>2, <2>3
  <2> HIDE DEF p
  <2> QED BY <2>4 DEF UntilRight
<1>9. CallRight(t)'
  BY <1>4, <1>8 DEF CallRight
<1> QED BY <1>1, <1>2, <1>4, <1>5, <1>6, <1>9, CallStep DEF Inside

LEMMA CallWaitStep ==
  ASSUME KtIInv, NEW t \in KtTasks, NEW n \in 1 .. MaxWait \cup {MaxDelay}, CallWait(t, n), WaitTypes'
  PROVE  KtIInv'
<1>1. RunsAt(t, "run") /\ Goes(t, "lock") /\ ktOwner = NobodyKt /\ ktOwner' = NobodyKt
  BY DEF CallWait
<1>2. /\ t \notin delayed \cup overflowed /\ WaitTypes /\ OwnerTypes
      /\ pendedTicks = 0 /\ pendingReady = {}
  BY <1>1, RunFacts, TypeParts DEF KtIInv, ClockRight
<1>3. /\ OnlyCallOf(t) /\ ktPc'[t] = "lock" /\ ticksToWait'[t] = n
      /\ entering'[t] = [over |-> overflows, tick |-> tickCount]
      /\ due'[t] = IF n = MaxDelay THEN Forever ELSE now + n
  BY <1>2 DEF CallWait, OnlyCallOf, WaitTypes, OwnerTypes, Goes
<1>4. OwnerMoves(t, "lock")
  BY <1>1, KernelTimeAssumption DEF OwnerMoves, Inside
<1>5. UNCHANGED <<clockVars, listsVars, pendedTicks, now>>
  BY DEF CallWait
<1>6. /\ processed' = now /\ processed' = processed /\ processed \in Nat
      /\ processed = Base + tickCount /\ overflows \in {0, 1}
  BY <1>2, <1>5, Processed DEF KtIInv, ClockRight, processed
<1>7. Began(t)' = processed'
  BY <1>3, <1>6 DEF Began, Base
<1>8. n # 0 /\ n \in 0 .. MaxWait \cup {MaxDelay}
  BY KtConstants
<1>9. WaitRight(t)'
  <2>1. MaxDelay' = MaxDelay /\ Forever' = Forever
    BY DEF MaxDelay, Forever
  <2>2. entering'[t].over \in {0, 1} /\ Began(t)' <= processed'
    BY <1>3, <1>6, <1>7
  <2>3. /\ ticksToWait'[t] = MaxDelay => due'[t] = Forever
        /\ ticksToWait'[t] # MaxDelay => due'[t] = Began(t)' + ticksToWait'[t]
    BY <1>3, <1>6, <1>7
  <2> QED BY <2>1, <2>2, <2>3 DEF WaitRight
<1>10. CallRight(t)'
  BY <1>3, <1>8, <1>9 DEF CallRight
<1> QED BY <1>1, <1>2, <1>3, <1>4, <1>5, <1>10, CallStep

LEMMA LockSchedulerStep ==
  ASSUME KtIInv, NEW t \in KtTasks, LockScheduler(t)
  PROVE  KtIInv'
<1>1. RunsAt(t, "lock") /\ Goes(t, "check") /\ ktOwner = NobodyKt /\ ktOwner' = t
  BY DEF LockScheduler
<1>2. /\ t \notin delayed \cup overflowed /\ WaitTypes /\ OwnerTypes
      /\ ktPc[t] = "lock"
  BY <1>1, RunFacts, TypeParts DEF KtIInv
<1>3. UNCHANGED <<clockVars, listsVars, waitVars, pendedTicks, now>> /\ ktOwner' # NobodyKt
  BY <1>1, KernelTimeAssumption DEF LockScheduler
<1>4. UNCHANGED <<wakeTick, entering, ticksToWait, prevWake, due>>
  BY <1>3 DEF waitVars
<1>5. OnlyCallOf(t) /\ ktPc'[t] = "check" /\ WaitTypes'
  BY <1>1, <1>2, <1>4 DEF OnlyCallOf, OwnerTypes, WaitTypes, Goes
<1>6. OwnerMoves(t, "check")
  BY <1>1, KernelTimeAssumption DEF OwnerMoves, Inside
<1>7. processed' = processed /\ Began(t)' = Began(t)
  BY <1>3, <1>4 DEF processed, Began
<1>8. ticksToWait[t] \in 0 .. MaxWait \cup {MaxDelay} /\ ticksToWait[t] # 0 /\ WaitRight(t)
  BY <1>2 DEF KtIInv, CallsRight, CallRight
<1>9. WaitRight(t)'
  BY <1>4, <1>7, <1>8 DEF WaitRight, Forever, MaxDelay
<1>10. CallRight(t)'
  BY <1>4, <1>5, <1>8, <1>9 DEF CallRight, MaxDelay
<1> QED BY <1>1, <1>2, <1>3, <1>5, <1>6, <1>10, CallStep DEF Inside

(* xTaskCheckForTimeOut() knows what has passed since the call looked at   *)
(* the time, or that it was a turn of the wheel.                           *)
LEMMA TimeSince ==
  ASSUME KtIInv, NEW t \in KtTasks, WaitRight(t)
  PROVE  LET since == (tickCount - entering[t].tick) % Wheel
             turned == overflows # entering[t].over /\ tickCount >= entering[t].tick
         IN  /\ Began(t) \in Nat
             /\ ~ turned => since = processed - Began(t)
             /\ turned => processed - Began(t) >= Wheel
<1> DEFINE e == entering[t].tick
<1> DEFINE o == entering[t].over
<1> DEFINE b == Began(t)
<1> DEFINE p == processed
<1>1. /\ o \in {0, 1} /\ e \in 0 .. (Wheel - 1) /\ b \in Nat /\ b <= p
      /\ b = (IF o = 0 THEN 0 ELSE Wheel) + e
  <2>1. e \in 0 .. (Wheel - 1)
    BY TypeParts, KtConstants DEF KtIInv, WaitTypes
  <2>2. o \in {0, 1} /\ b <= p /\ b = (IF o = 0 THEN 0 ELSE Wheel) + e
    BY DEF WaitRight, Began
  <2> QED BY <2>1, <2>2, KtConstants
<1>2. /\ tickCount \in 0 .. (Wheel - 1) /\ p \in Nat /\ overflows \in {0, 1}
      /\ p = (IF overflows = 0 THEN 0 ELSE Wheel) + tickCount
  <2>1. tickCount \in Nat /\ tickCount < Wheel /\ p \in Nat /\ p = Base + tickCount
    BY Processed
  <2>2. overflows \in {0, 1}
    BY DEF KtIInv, ClockRight
  <2>3. tickCount \in 0 .. (Wheel - 1)
    BY <2>1, KtConstants
  <2>4. p = (IF overflows = 0 THEN 0 ELSE Wheel) + tickCount
    BY <2>1 DEF Base
  <2> QED BY <2>1, <2>2, <2>3, <2>4
<1>3. (tickCount - e) % Wheel = (IF tickCount >= e THEN tickCount - e ELSE tickCount - e + Wheel)
  <2>1. Wheel \in Nat \ {0}
    BY KtConstants
  <2> HIDE DEF e
  <2> QED BY <1>1, <1>2, <2>1, TurnsBack
<1>4. Wheel \in Nat
  BY KtConstants
<1> DEFINE s == (tickCount - e) % Wheel
<1>5. /\ ~ (overflows # o /\ tickCount >= e) => s = p - b
      /\ (overflows # o /\ tickCount >= e) => p - b >= Wheel
  <2>1. s = (IF tickCount >= e THEN tickCount - e ELSE tickCount - e + Wheel)
    BY <1>3
  <2> HIDE DEF s, p, b, e, o
  <2> QED BY <1>1, <1>2, <1>4, <2>1
<1> QED BY <1>1, <1>5

LEMMA CheckForTimeOutStep ==
  ASSUME KtIInv, NEW t \in KtTasks, xTaskCheckForTimeOut(t)
  PROVE  KtIInv'
<1> DEFINE since == (tickCount - entering[t].tick) % Wheel
<1> DEFINE turned == overflows # entering[t].over /\ tickCount >= entering[t].tick
<1> DEFINE p == processed
<1> DEFINE b == Began(t)
<1>1. RunsAt(t, "check")
  BY DEF xTaskCheckForTimeOut
<1>2. /\ t \notin delayed \cup overflowed /\ WaitTypes /\ OwnerTypes
      /\ ktPc[t] = "check" /\ ktOwner = t
  BY <1>1, RunFacts, TypeParts DEF KtIInv, Inside
<1>3. /\ UNCHANGED <<clockVars, listsVars, wakeTick, prevWake, due, ktOwner, pendedTicks, now>>
      /\ ktOwner' # NobodyKt /\ ktOwner' = t
  BY <1>2, KernelTimeAssumption DEF xTaskCheckForTimeOut
<1>4. processed' = processed /\ p \in Nat
  BY <1>3, Processed DEF processed
<1>5. /\ ticksToWait[t] \in 0 .. MaxWait \cup {MaxDelay} /\ ticksToWait[t] # 0 /\ WaitRight(t)
  BY <1>2 DEF KtIInv, CallsRight, CallRight
<1>6. b \in Nat /\ (~ turned => since = p - b) /\ (turned => p - b >= Wheel) /\ b <= p
  BY <1>5, TimeSince DEF WaitRight
<1>7. OwnerMoves(t, "place") /\ OwnerMoves(t, "passed")
  BY <1>2, <1>3, KernelTimeAssumption DEF OwnerMoves, Inside
<1>8. CASE ticksToWait[t] = MaxDelay /\ Goes(t, "place") /\ UNCHANGED <<ticksToWait, entering>>
  <2>1. OnlyCallOf(t) /\ ktPc'[t] = "place" /\ WaitTypes'
    BY <1>2, <1>3, <1>8 DEF OnlyCallOf, OwnerTypes, WaitTypes, Goes
  <2>2. WaitRight(t)'
    BY <1>3, <1>4, <1>5, <1>8 DEF WaitRight, Forever, MaxDelay, Began
  <2>3. CallRight(t)'
    BY <1>5, <1>8, <2>1, <2>2 DEF CallRight, MaxDelay
  <2> QED BY <1>2, <1>3, <1>7, <1>8, <2>1, <2>3, CallStep DEF Inside
<1>9. CASE /\ ticksToWait[t] # MaxDelay /\ ~ turned /\ since < ticksToWait[t]
           /\ ticksToWait' = [ticksToWait EXCEPT ![t] = @ - since]
           /\ entering' = [entering EXCEPT ![t] = [over |-> overflows, tick |-> tickCount]]
           /\ Goes(t, "place")
  <2>1. since = p - b /\ since \in Nat
    <3> HIDE DEF since, p, b
    <3> QED BY <1>4, <1>6, <1>9
  <2>2. ticksToWait[t] \in 1 .. MaxWait /\ MaxWait < MaxDelay /\ MaxDelay \in Nat /\ MaxWait \in Nat
    BY <1>5, <1>9, KtConstants
  <2>3. ticksToWait[t] - since \in 1 .. MaxWait
    <3> HIDE DEF since
    <3> QED BY <1>9, <2>1, <2>2
  <2>4. tickCount \in 0 .. MaxDelay /\ overflows \in {0, 1} /\ overflows \in Nat
    BY TypeParts DEF KtIInv, ClockTypes, ClockRight
  <2>5. /\ ktPc'[t] = "place" /\ ticksToWait'[t] = ticksToWait[t] - since
        /\ entering'[t] = [over |-> overflows, tick |-> tickCount] /\ due'[t] = due[t]
    BY <1>2, <1>3, <1>9 DEF OwnerTypes, WaitTypes, Goes
  <2>6. OnlyCallOf(t)
    BY <1>2, <1>3, <1>9 DEF OnlyCallOf, OwnerTypes, WaitTypes, Goes
  <2>7. WaitTypes'
    <3>1. ticksToWait' \in [KtTasks -> 0 .. MaxDelay]
      <4>1. ticksToWait[t] - since \in 0 .. MaxDelay
        <5> HIDE DEF since
        <5> QED BY <2>2, <2>3
      <4> HIDE DEF since
      <4> QED BY <1>2, <1>9, <4>1 DEF WaitTypes
    <3>2. entering' \in [KtTasks -> [over : Nat, tick : 0 .. MaxDelay]]
      BY <1>2, <1>9, <2>4 DEF WaitTypes
    <3> QED BY <1>2, <1>3, <3>1, <3>2 DEF WaitTypes, MaxDelay, Forever
  <2>8. Began(t)' = processed'
    BY <1>4, <2>4, <2>5, Processed DEF Began, Base
  <2>9. due[t] = b + ticksToWait[t]
    BY <1>5, <1>9 DEF WaitRight
  <2>10. due'[t] = processed' + ticksToWait'[t] /\ ticksToWait'[t] \in 1 .. MaxWait
    <3>1. due'[t] = p + (ticksToWait[t] - since)
      <4> HIDE DEF p, b, since
      <4> QED BY <1>4, <1>6, <2>1, <2>2, <2>5, <2>9
    <3> QED BY <1>4, <2>3, <2>5, <3>1
  <2>11. WaitRight(t)'
    <3>1. ticksToWait'[t] # MaxDelay /\ MaxDelay' = MaxDelay
      BY <2>2, <2>10 DEF MaxDelay
    <3>2. Began(t)' <= processed' /\ entering'[t].over \in {0, 1}
      BY <1>4, <2>4, <2>5, <2>8
    <3> QED BY <2>8, <2>10, <3>1, <3>2 DEF WaitRight
  <2>12. CallRight(t)'
    BY <2>2, <2>5, <2>8, <2>10, <2>11 DEF CallRight
  <2> QED BY <1>2, <1>3, <1>7, <1>9, <2>6, <2>7, <2>12, CallStep DEF Inside
<1>10. CASE /\ ticksToWait[t] # MaxDelay /\ (turned \/ since >= ticksToWait[t])
            /\ Goes(t, "passed") /\ UNCHANGED <<ticksToWait, entering>>
  <2>1. OnlyCallOf(t) /\ ktPc'[t] = "passed" /\ WaitTypes'
    BY <1>2, <1>3, <1>10 DEF OnlyCallOf, OwnerTypes, WaitTypes, Goes
  <2>2. due[t] = b + ticksToWait[t] /\ ticksToWait[t] \in 1 .. MaxWait /\ MaxWait < Wheel
    BY <1>5, <1>10, KtConstants DEF WaitRight
  <2>3. due[t] <= p
    <3>1. turned \/ since >= ticksToWait[t]
      BY <1>10
    <3>2. Wheel \in Nat /\ MaxWait \in Nat
      BY KtConstants
    <3> HIDE DEF p, b, since, turned
    <3> QED BY <1>4, <1>6, <2>2, <3>1, <3>2
  <2>4. CallRight(t)'
    BY <1>3, <1>4, <1>5, <1>10, <2>1, <2>3 DEF CallRight, MaxDelay
  <2> QED BY <1>2, <1>3, <1>7, <1>10, <2>1, <2>4, CallStep DEF Inside
<1> QED BY <1>8, <1>9, <1>10 DEF xTaskCheckForTimeOut

LEMMA DoesNotWaitStep ==
  ASSUME KtIInv, NEW t \in KtTasks, DoesNotWait(t)
  PROVE  KtIInv'
<1>1. /\ UNCHANGED <<clockVars, listsVars, wakeTick, entering, prevWake, due>>
      /\ UNCHANGED <<ktOwner, pendedTicks, now>> /\ Goes(t, "resume")
  BY DEF DoesNotWait
<1>2. RunsAt(t, "passed") \/ RunsAt(t, "place")
  BY DEF DoesNotWait
<1>3. /\ t \notin delayed \cup overflowed /\ WaitTypes /\ OwnerTypes
      /\ ktPc[t] \in {"passed", "place"} /\ ktOwner = t
  BY <1>2, RunFacts, TypeParts DEF KtIInv, Inside
<1>4. OwnerMoves(t, "resume") /\ ktOwner' # NobodyKt
  BY <1>1, <1>3, KernelTimeAssumption DEF OwnerMoves, Inside
<1>5. processed' = processed
  BY <1>1 DEF processed
<1>6. CASE ticksToWait' = [ticksToWait EXCEPT ![t] = 0]
  <2>1. OnlyCallOf(t) /\ ktPc'[t] = "resume" /\ ticksToWait'[t] = 0
    BY <1>1, <1>3, <1>6 DEF OnlyCallOf, OwnerTypes, WaitTypes, Goes
  <2>2. WaitTypes'
    BY <1>1, <1>3, <1>6, KtConstants DEF WaitTypes
  <2>3. CallRight(t)'
    BY <2>1, KtConstants DEF CallRight
  <2> QED BY <1>1, <1>3, <1>4, <2>1, <2>2, <2>3, CallStep DEF Inside
<1>7. CASE RunsAt(t, "place") /\ UNCHANGED ticksToWait
  <2>1. OnlyCallOf(t) /\ ktPc'[t] = "resume" /\ WaitTypes'
    BY <1>1, <1>3, <1>7 DEF OnlyCallOf, OwnerTypes, WaitTypes, Goes
  <2>2. ktPc[t] = "place" /\ CallRight(t)
    BY <1>7 DEF RunsAt, KtIInv, CallsRight
  <2>3. ticksToWait[t] # 0 => WaitRight(t)
    BY <2>2 DEF CallRight
  <2>4. ticksToWait[t] # 0 => WaitRight(t)'
    BY <1>1, <1>5, <1>7, <2>3 DEF WaitRight, Forever, MaxDelay, Began
  <2>5. CallRight(t)'
    BY <1>7, <2>1, <2>2, <2>4 DEF CallRight, MaxDelay
  <2> QED BY <1>1, <1>3, <1>4, <2>1, <2>5, CallStep DEF Inside
<1> QED BY <1>6, <1>7 DEF DoesNotWait

LEMMA ResumeAllStep ==
  ASSUME KtIInv, NEW t \in KtTasks, xTaskResumeAll(t)
  PROVE  KtIInv'
<1>1. /\ UNCHANGED <<clockVars, listsVars, waitVars, pendedTicks, now>> /\ Goes(t, "resumed")
      /\ ktPc[t] = "resume" /\ pendingReady = {} /\ pendedTicks = 0 /\ ktOwner' = NobodyKt
  BY DEF xTaskResumeAll
<1>2. WaitTypes /\ OwnerTypes /\ ktOwner = t
  BY <1>1, TypeParts DEF KtIInv, OwnerRight, Inside
<1>3. OwnerMoves(t, "resumed")
  BY <1>1, <1>2, KernelTimeAssumption DEF OwnerMoves, Inside
<1>4. UNCHANGED <<wakeTick, entering, ticksToWait, prevWake, due>> /\ processed' = processed
  BY <1>1 DEF waitVars, processed
<1>5. OnlyCallOf(t) /\ ktPc'[t] = "resumed" /\ WaitTypes'
  BY <1>1, <1>2, <1>4 DEF OnlyCallOf, OwnerTypes, WaitTypes, Goes
<1>6. CallRight(t)
  BY DEF KtIInv, CallsRight
<1>7. ticksToWait[t] # 0 => WaitRight(t)
  BY <1>1, <1>6 DEF CallRight
<1>8. ticksToWait[t] # 0 => WaitRight(t)'
  BY <1>4, <1>7 DEF WaitRight, Forever, MaxDelay, Began
<1>9. CallRight(t)'
  BY <1>4, <1>5, <1>6, <1>8 DEF CallRight, MaxDelay
<1> QED BY <1>1, <1>3, <1>5, <1>9, CallStep

LEMMA ResumedStep ==
  ASSUME KtIInv, NEW t \in KtTasks, Resumed(t)
  PROVE  KtIInv'
<1>1. /\ UNCHANGED <<clockVars, listsVars, ktOwner, pendedTicks, now>>
      /\ RunsAt(t, "resumed") /\ ktOwner = NobodyKt
  BY DEF Resumed
<1>2. /\ t \notin delayed \cup overflowed /\ WaitTypes /\ OwnerTypes
      /\ ktPc[t] = "resumed" /\ pendedTicks = 0 /\ pendingReady = {}
  BY <1>1, RunFacts, TypeParts DEF KtIInv, ClockRight
<1>3. OwnerMoves(t, "run") /\ OwnerMoves(t, "lock") /\ ktOwner' = NobodyKt
  BY <1>1, KernelTimeAssumption DEF OwnerMoves, Inside
<1>4. processed' = processed
  BY <1>1 DEF processed
<1>5. CASE /\ Goes(t, "run") /\ due' = [due EXCEPT ![t] = 0]
           /\ entering' = [entering EXCEPT ![t] = [over |-> 0, tick |-> 0]]
           /\ ticksToWait' = [ticksToWait EXCEPT ![t] = 0]
           /\ wakeTick' = [wakeTick EXCEPT ![t] = 0] /\ prevWake' = [prevWake EXCEPT ![t] = 0]
  <2>1. OnlyCallOf(t) /\ ktPc'[t] = "run" /\ ticksToWait'[t] = 0
    BY <1>2, <1>5 DEF OnlyCallOf, OwnerTypes, WaitTypes, Goes
  <2>2. 0 \in 0 .. MaxDelay /\ 0 \in 0 .. Forever /\ MaxDelay' = MaxDelay /\ Forever' = Forever
    BY KtConstants DEF MaxDelay, Forever
  <2>3. WaitTypes'
    BY <1>2, <1>5, <2>2 DEF WaitTypes
  <2>4. CallRight(t)'
    BY <2>1, KtConstants DEF CallRight
  <2> QED BY <1>1, <1>2, <1>3, <1>5, <2>1, <2>3, <2>4, CallStep
<1>6. CASE ticksToWait[t] # 0 /\ Goes(t, "lock") /\ UNCHANGED waitVars
  <2>1. UNCHANGED <<wakeTick, entering, ticksToWait, prevWake, due>>
    BY <1>6 DEF waitVars
  <2>2. OnlyCallOf(t) /\ ktPc'[t] = "lock" /\ WaitTypes'
    BY <1>2, <1>6, <2>1 DEF OnlyCallOf, OwnerTypes, WaitTypes, Goes
  <2>3. CallRight(t)
    BY DEF KtIInv, CallsRight
  <2>4. WaitRight(t)
    BY <1>2, <1>6, <2>3 DEF CallRight
  <2>5. WaitRight(t)'
    BY <1>4, <2>1, <2>4 DEF WaitRight, Forever, MaxDelay, Began
  <2>6. CallRight(t)'
    BY <1>6, <2>1, <2>2, <2>3, <2>5 DEF CallRight, MaxDelay
  <2> QED BY <1>1, <1>2, <1>3, <1>6, <2>2, <2>6, CallStep
<1> QED BY <1>5, <1>6 DEF Resumed

-----------------------------------------------------------------------------
(* A task goes to sleep until a tick.                                      *)

LEMMA WakesLater ==
  ASSUME KtIInv, NEW n \in 1 .. MaxWait
  PROVE  LET w == (tickCount + n) % Wheel
         IN  /\ w \in 0 .. MaxDelay /\ w # tickCount
             /\ w > tickCount => processed + n = Base + w
             /\ w < tickCount => processed + n = Base + Wheel + w
<1> DEFINE x == tickCount + n
<1> DEFINE w == x % Wheel
<1>1. tickCount \in Nat /\ tickCount < Wheel /\ processed \in Nat /\ processed = Base + tickCount
  BY Processed
<1>2. n \in Nat /\ n > 0 /\ n < Wheel - 1 /\ Wheel \in Nat \ {0} /\ MaxDelay = Wheel - 1
  BY KtConstants
<1>3. x \in 0 .. (2 * Wheel - 1)
  BY <1>1, <1>2
<1>4. w = (IF x < Wheel THEN x ELSE x - Wheel)
  <2> HIDE DEF x
  <2> QED BY <1>2, <1>3, Turns
<1>5. Base \in Nat
  BY <1>2 DEF Base
<1>6. /\ w \in 0 .. MaxDelay /\ w # tickCount
      /\ w > tickCount => processed + n = Base + w
      /\ w < tickCount => processed + n = Base + Wheel + w
  <2> HIDE DEF w
  <2> QED BY <1>1, <1>2, <1>4, <1>5
<1> QED BY <1>6

LEMMA AddToDelayedList ==
  ASSUME KtIInv, NEW t \in KtTasks, t \in readyTasks, NEW w \in 0 .. MaxDelay, w # tickCount,
         w > tickCount => due[t] = Base + w,
         w < tickCount => due[t] = Base + Wheel + w,
         prvAddCurrentTaskToDelayedList(t, w),
         UNCHANGED <<tickCount, overflows, asleep, due>>
  PROVE  /\ wakeTick' = [wakeTick EXCEPT ![t] = w] /\ wakeTick' \in [KtTasks -> 0 .. MaxDelay]
         /\ nextUnblock' \in 0 .. MaxDelay
         /\ readyTasks' \subseteq KtTasks /\ delayed' \subseteq KtTasks /\ overflowed' \subseteq KtTasks
         /\ ListsApart' /\ WakeRight'
<1>1. ListTypes /\ ClockTypes /\ WaitTypes /\ ListsApart /\ WakeRight
  BY TypeParts DEF KtIInv
<1>2. wakeTick' = [wakeTick EXCEPT ![t] = w] /\ wakeTick' \in [KtTasks -> 0 .. MaxDelay]
  BY <1>1 DEF prvAddCurrentTaskToDelayedList, WaitTypes
<1>3. wakeTick'[t] = w /\ \A u \in KtTasks \ {t} : wakeTick'[u] = wakeTick[u]
  BY <1>1, <1>2 DEF WaitTypes
<1>4. t \notin delayed \cup overflowed \cup asleep
  BY <1>1 DEF ListsApart
<1>5. Base' = Base /\ tickCount \in Nat /\ w \in Nat /\ nextUnblock \in Nat
      /\ \A u \in KtTasks : wakeTick[u] \in Nat
  BY <1>1, KtConstants DEF Base, ClockTypes, WaitTypes
<1>6. CASE w < tickCount
  <2>1. /\ readyTasks' = readyTasks \ {t} /\ overflowed' = overflowed \cup {t}
        /\ UNCHANGED <<delayed, nextUnblock>>
    BY <1>6 DEF prvAddCurrentTaskToDelayedList
  <2>2. ListsApart'
    BY <1>1, <1>4, <2>1 DEF ListsApart
  <2>3. \A u \in delayed' : InThisTurn(u)'
    BY <1>1, <1>3, <1>4, <1>5, <2>1 DEF WakeRight, InThisTurn, ListTypes
  <2>4. \A u \in overflowed' : InNextTurn(u)'
    BY <1>1, <1>3, <1>4, <1>5, <1>6, <2>1 DEF WakeRight, InNextTurn, ListTypes
  <2> QED BY <1>1, <1>2, <2>1, <2>2, <2>3, <2>4 DEF WakeRight, ListTypes, ClockTypes
<1>7. CASE ~ (w < tickCount)
  <2>1. /\ readyTasks' = readyTasks \ {t} /\ delayed' = delayed \cup {t}
        /\ nextUnblock' = (IF w < nextUnblock THEN w ELSE nextUnblock)
        /\ UNCHANGED overflowed
    BY <1>7 DEF prvAddCurrentTaskToDelayedList
  <2>2. ListsApart'
    BY <1>1, <1>4, <2>1 DEF ListsApart
  <2>3. w > tickCount
    BY <1>5, <1>7
  <2>4. nextUnblock' <= w /\ \A u \in KtTasks : nextUnblock <= wakeTick[u] => nextUnblock' <= wakeTick[u]
    BY <1>5, <2>1
  <2>5. ASSUME NEW u \in delayed' PROVE InThisTurn(u)'
    <3>1. CASE u = t
      BY <1>3, <1>5, <2>3, <2>4, <3>1 DEF InThisTurn
    <3>2. CASE u # t
      <4>1. u \in delayed /\ u \in KtTasks
        BY <1>1, <2>1, <3>2 DEF ListTypes
      <4>2. InThisTurn(u) /\ wakeTick'[u] = wakeTick[u]
        BY <1>1, <1>3, <3>2, <4>1 DEF WakeRight
      <4> QED BY <1>5, <2>4, <4>1, <4>2 DEF InThisTurn
    <3> QED BY <3>1, <3>2
  <2>6. \A u \in overflowed' : InNextTurn(u)'
    BY <1>1, <1>3, <1>4, <1>5, <2>1 DEF WakeRight, InNextTurn, ListTypes
  <2>7. nextUnblock' \in 0 .. MaxDelay
    BY <1>1, <2>1 DEF ClockTypes
  <2> QED BY <1>1, <1>2, <2>1, <2>2, <2>5, <2>6, <2>7 DEF WakeRight, ListTypes
<1> QED BY <1>6, <1>7

(* A step of the call of t, which holds the scheduler, that moves t from   *)
(* one list to another.                                                    *)
LEMMA SleepStep ==
  ASSUME KtIInv, NEW t \in KtTasks, NEW w \in Inside, ktOwner = t, Goes(t, w), OnlyCallOf(t),
         UNCHANGED <<tickCount, overflows, now, pendedTicks, ktOwner>>,
         WaitTypes', ListTypes', nextUnblock' \in 0 .. MaxDelay, ListsApart', WakeRight', CallRight(t)'
  PROVE  KtIInv'
<1>1. ktOwner' # NobodyKt
  BY KernelTimeAssumption
<1>2. ClockRight' /\ processed' = processed
  BY <1>1, ClockFrame
<1>3. OwnerMoves(t, w)
  BY DEF OwnerMoves
<1>4. OwnerRight' /\ OwnerTypes'
  BY <1>3, OwnerFrame
<1>5. ClockTypes'
  BY TypeParts DEF KtIInv, ClockTypes, MaxDelay
<1>6. KtTypeOK'
  BY <1>4, <1>5, TypePartsNext
<1>7. CallsRight'
  BY <1>2, OthersRight
<1> QED BY <1>2, <1>4, <1>6, <1>7 DEF KtIInv

LEMMA DelayStep ==
  ASSUME KtIInv, NEW t \in KtTasks, vTaskDelay(t)
  PROVE  KtIInv'
<1> DEFINE w == (tickCount + ticksToWait[t]) % Wheel
<1>1. /\ RunsAt(t, "delay") /\ Goes(t, "resume") /\ prvAddCurrentTaskToDelayedList(t, w)
      /\ ticksToWait' = [ticksToWait EXCEPT ![t] = 0]
      /\ UNCHANGED <<tickCount, overflows, asleep, onEvent, pendingReady>>
      /\ UNCHANGED <<entering, prevWake, due, ktOwner, pendedTicks, now>>
  BY DEF vTaskDelay
<1>2. ktPc[t] = "delay" /\ ktOwner = t /\ t \in readyTasks /\ WaitTypes /\ OwnerTypes /\ ListTypes
  BY <1>1, RunFacts, TypeParts DEF KtIInv, Inside, RunsAt
<1>3. ticksToWait[t] \in 1 .. MaxWait /\ due[t] = processed + ticksToWait[t]
  BY <1>2 DEF KtIInv, CallsRight, CallRight
<1>4. /\ w \in 0 .. MaxDelay /\ w # tickCount
      /\ w > tickCount => due[t] = Base + w
      /\ w < tickCount => due[t] = Base + Wheel + w
  BY <1>3, WakesLater
<1>5. /\ wakeTick' = [wakeTick EXCEPT ![t] = w] /\ wakeTick' \in [KtTasks -> 0 .. MaxDelay]
      /\ nextUnblock' \in 0 .. MaxDelay
      /\ readyTasks' \subseteq KtTasks /\ delayed' \subseteq KtTasks /\ overflowed' \subseteq KtTasks
      /\ ListsApart' /\ WakeRight'
  <2> HIDE DEF w
  <2> QED BY <1>1, <1>2, <1>4, AddToDelayedList
<1> HIDE DEF w
<1>6. WaitTypes'
  <2>1. ticksToWait' \in [KtTasks -> 0 .. MaxDelay]
    BY <1>1, <1>2, KtConstants DEF WaitTypes
  <2> QED BY <1>1, <1>2, <1>5, <2>1 DEF WaitTypes, MaxDelay, Forever
<1>7. OnlyCallOf(t) /\ ticksToWait'[t] = 0 /\ ktPc'[t] = "resume"
  BY <1>1, <1>2, <1>5 DEF OnlyCallOf, WaitTypes, OwnerTypes, Goes
<1>8. CallRight(t)'
  BY <1>7, KtConstants DEF CallRight
<1>9. ListTypes'
  BY <1>1, <1>2, <1>5 DEF ListTypes
<1> QED BY <1>1, <1>2, <1>5, <1>6, <1>7, <1>8, <1>9, SleepStep DEF Inside

(* The test of vTaskDelayUntil() on ticks that wrap is the one it is meant *)
(* to be on times that do not.                                             *)
LEMMA ShouldDelay ==
  ASSUME KtIInv, NEW t \in KtTasks, UntilRight(t), ticksToWait[t] \in 1 .. MaxWait
  PROVE  LET w == (prevWake[t] + ticksToWait[t]) % Wheel
             should == IF tickCount < prevWake[t]
                         THEN w < prevWake[t] /\ w > tickCount
                         ELSE w < prevWake[t] \/ w > tickCount
         IN  /\ w \in 0 .. MaxDelay
             /\ should => /\ w # tickCount
                          /\ w > tickCount => due[t] = Base + w
                          /\ w < tickCount => due[t] = Base + Wheel + w
             /\ ~ should => due[t] <= processed
<1> DEFINE v == prevWake[t]
<1> DEFINE n == ticksToWait[t]
<1> DEFINE x == v + n
<1> DEFINE w == x % Wheel
<1> DEFINE should == IF tickCount < v THEN w < v /\ w > tickCount ELSE w < v \/ w > tickCount
<1>1. tickCount \in Nat /\ tickCount < Wheel /\ processed \in Nat /\ processed = Base + tickCount
  BY Processed
<1>2. n \in Nat /\ n > 0 /\ n < Wheel - 1 /\ Wheel \in Nat \ {0} /\ MaxDelay = Wheel - 1
  BY KtConstants
<1>3. PICK p \in 0 .. processed :
        /\ v = (IF p < Wheel THEN p ELSE p - Wheel)
        /\ due[t] = p + n
        /\ processed - p + n < Wheel
  BY DEF UntilRight
<1>4. v \in Nat /\ v < Wheel
  BY TypeParts, KtConstants DEF KtIInv, WaitTypes
<1>5. x \in 0 .. (2 * Wheel - 1)
  <2> HIDE DEF v, n
  <2> QED BY <1>2, <1>4
<1>6. w = (IF x < Wheel THEN x ELSE x - Wheel)
  <2> HIDE DEF x
  <2> QED BY <1>2, <1>5, Turns
<1>7. Base \in {0, Wheel} /\ p \in Nat /\ p <= processed
  BY <1>1 DEF Base
<1>8. /\ w \in 0 .. MaxDelay
      /\ should => /\ w # tickCount
                   /\ w > tickCount => p + n = Base + w
                   /\ w < tickCount => p + n = Base + Wheel + w
      /\ ~ should => p + n <= processed
  <2> HIDE DEF v, n, w
  <2> QED BY <1>1, <1>2, <1>3, <1>4, <1>6, <1>7
<1> QED BY <1>3, <1>8

LEMMA DelayUntilStep ==
  ASSUME KtIInv, NEW t \in KtTasks, vTaskDelayUntil(t)
  PROVE  KtIInv'
<1> DEFINE w == (prevWake[t] + ticksToWait[t]) % Wheel
<1> DEFINE should == IF tickCount < prevWake[t]
                       THEN w < prevWake[t] /\ w > tickCount
                       ELSE w < prevWake[t] \/ w > tickCount
<1>1. /\ RunsAt(t, "until")
      /\ prevWake' = [prevWake EXCEPT ![t] = w]
      /\ ticksToWait' = [ticksToWait EXCEPT ![t] = 0]
      /\ UNCHANGED <<tickCount, overflows, asleep, onEvent, pendingReady>>
      /\ UNCHANGED <<entering, due, ktOwner, pendedTicks, now>>
  BY DEF vTaskDelayUntil
<1>2. IF should
        THEN prvAddCurrentTaskToDelayedList(t, w) /\ Goes(t, "resume")
        ELSE /\ Goes(t, "passed")
             /\ UNCHANGED <<wakeTick, readyTasks, delayed, overflowed, nextUnblock>>
  BY DEF vTaskDelayUntil
<1>3. ktPc[t] = "until" /\ ktOwner = t /\ t \in readyTasks /\ WaitTypes /\ OwnerTypes /\ ListTypes
  BY <1>1, RunFacts, TypeParts DEF KtIInv, Inside, RunsAt
<1>4. ticksToWait[t] \in 1 .. MaxWait /\ UntilRight(t)
  BY <1>3 DEF KtIInv, CallsRight, CallRight
<1>5. /\ w \in 0 .. MaxDelay
      /\ should => /\ w # tickCount
                   /\ w > tickCount => due[t] = Base + w
                   /\ w < tickCount => due[t] = Base + Wheel + w
      /\ ~ should => due[t] <= processed
  BY <1>4, ShouldDelay
<1> HIDE DEF w, should
<1>6. ticksToWait' \in [KtTasks -> 0 .. MaxDelay] /\ prevWake' \in [KtTasks -> 0 .. MaxDelay]
  BY <1>1, <1>3, <1>5, KtConstants DEF WaitTypes
<1>7. ticksToWait'[t] = 0 /\ due'[t] = due[t] /\ processed' = processed
  BY <1>1, <1>3 DEF WaitTypes, processed
<1>8. CASE should
  <2>1. /\ wakeTick' = [wakeTick EXCEPT ![t] = w] /\ wakeTick' \in [KtTasks -> 0 .. MaxDelay]
        /\ nextUnblock' \in 0 .. MaxDelay
        /\ readyTasks' \subseteq KtTasks /\ delayed' \subseteq KtTasks /\ overflowed' \subseteq KtTasks
        /\ ListsApart' /\ WakeRight'
    BY <1>1, <1>2, <1>3, <1>5, <1>8, AddToDelayedList
  <2>2. WaitTypes' /\ ListTypes'
    BY <1>1, <1>3, <1>6, <2>1 DEF WaitTypes, ListTypes, MaxDelay, Forever
  <2>3. OnlyCallOf(t) /\ ktPc'[t] = "resume"
    BY <1>1, <1>2, <1>3, <1>8, <2>1 DEF OnlyCallOf, WaitTypes, OwnerTypes, Goes
  <2>4. CallRight(t)'
    BY <1>7, <2>3, KtConstants DEF CallRight
  <2> QED BY <1>1, <1>2, <1>3, <1>8, <2>1, <2>2, <2>3, <2>4, SleepStep DEF Inside
<1>9. CASE ~ should
  <2>1. UNCHANGED <<wakeTick, readyTasks, delayed, overflowed, nextUnblock>> /\ Goes(t, "passed")
    BY <1>2, <1>9
  <2>2. WaitTypes' /\ ListTypes'
    BY <1>1, <1>3, <1>6, <2>1 DEF WaitTypes, ListTypes, MaxDelay, Forever
  <2>3. OnlyCallOf(t) /\ ktPc'[t] = "passed"
    BY <1>1, <1>3, <2>1 DEF OnlyCallOf, WaitTypes, OwnerTypes, Goes
  <2>4. CallRight(t)'
    BY <1>5, <1>7, <1>9, <2>3, KtConstants DEF CallRight
  <2>5. UNCHANGED <<clockVars, listsVars, pendedTicks, now>> /\ ktOwner' # NobodyKt /\ ktOwner' = t
    BY <1>1, <1>3, <2>1, KernelTimeAssumption DEF clockVars, listsVars
  <2>6. OwnerMoves(t, "passed") /\ t \notin delayed \cup overflowed
    BY <1>1, <1>3, RunFacts DEF OwnerMoves, Inside
  <2> QED BY <2>1, <2>2, <2>3, <2>4, <2>5, <2>6, CallStep DEF Inside
<1> QED BY <1>8, <1>9

LEMMA PlaceOnEventListStep ==
  ASSUME KtIInv, NEW t \in KtTasks, vTaskPlaceOnEventList(t)
  PROVE  KtIInv'
<1> DEFINE w == (tickCount + ticksToWait[t]) % Wheel
<1>1. /\ RunsAt(t, "place") /\ onEvent' = onEvent \cup {t} /\ Goes(t, "resume")
      /\ UNCHANGED <<tickCount, overflows, pendingReady>>
      /\ UNCHANGED <<entering, ticksToWait, prevWake, due, ktOwner, pendedTicks, now>>
  BY DEF vTaskPlaceOnEventList
<1>2. IF ticksToWait[t] = MaxDelay
        THEN /\ readyTasks' = readyTasks \ {t} /\ asleep' = asleep \cup {t}
             /\ UNCHANGED <<wakeTick, delayed, overflowed, nextUnblock>>
        ELSE prvAddCurrentTaskToDelayedList(t, w) /\ UNCHANGED asleep
  BY DEF vTaskPlaceOnEventList
<1>3. ktPc[t] = "place" /\ ktOwner = t /\ t \in readyTasks /\ WaitTypes /\ OwnerTypes /\ ListTypes
  BY <1>1, RunFacts, TypeParts DEF KtIInv, Inside, RunsAt
<1>4. /\ ticksToWait[t] \in 0 .. MaxWait \cup {MaxDelay} /\ ticksToWait[t] # 0 /\ WaitRight(t)
      /\ ticksToWait[t] # MaxDelay => Began(t) = processed
  BY <1>3 DEF KtIInv, CallsRight, CallRight
<1>5. processed' = processed /\ ktPc'[t] = "resume"
  BY <1>1, <1>3 DEF processed, OwnerTypes, Goes
<1>6. WaitRight(t)'
  BY <1>1, <1>4, <1>5 DEF WaitRight, Forever, MaxDelay, Began
<1>7. CallRight(t)'
  BY <1>1, <1>4, <1>5, <1>6 DEF CallRight, MaxDelay
<1>8. CASE ticksToWait[t] = MaxDelay
  <2>1. /\ readyTasks' = readyTasks \ {t} /\ asleep' = asleep \cup {t}
        /\ UNCHANGED <<wakeTick, delayed, overflowed, nextUnblock>>
    BY <1>2, <1>8
  <2>2. WaitTypes' /\ ListTypes' /\ nextUnblock' \in 0 .. MaxDelay
    BY <1>1, <1>3, <2>1, TypeParts DEF KtIInv, ClockTypes, WaitTypes, ListTypes, MaxDelay, Forever
  <2>3. OnlyCallOf(t)
    BY <1>1, <1>3, <2>1 DEF OnlyCallOf, WaitTypes, OwnerTypes, Goes
  <2>4. ListsApart'
    BY <1>3, <2>1 DEF KtIInv, ListsApart
  <2>5. WakeRight'
    BY <1>1, <2>1, WakeFrame
  <2> QED BY <1>1, <1>3, <1>7, <2>2, <2>3, <2>4, <2>5, SleepStep DEF Inside
<1>9. CASE ticksToWait[t] # MaxDelay
  <2>1. ticksToWait[t] \in 1 .. MaxWait /\ due[t] = processed + ticksToWait[t]
    <3>1. due[t] = Began(t) + ticksToWait[t]
      BY <1>4, <1>9 DEF WaitRight
    <3> QED BY <1>4, <1>9, <3>1, KtConstants
  <2>2. /\ w \in 0 .. MaxDelay /\ w # tickCount
        /\ w > tickCount => due[t] = Base + w
        /\ w < tickCount => due[t] = Base + Wheel + w
    BY <2>1, WakesLater
  <2> HIDE DEF w
  <2>3. prvAddCurrentTaskToDelayedList(t, w) /\ UNCHANGED asleep
    BY <1>2, <1>9
  <2>4. /\ wakeTick' = [wakeTick EXCEPT ![t] = w] /\ wakeTick' \in [KtTasks -> 0 .. MaxDelay]
        /\ nextUnblock' \in 0 .. MaxDelay
        /\ readyTasks' \subseteq KtTasks /\ delayed' \subseteq KtTasks /\ overflowed' \subseteq KtTasks
        /\ ListsApart' /\ WakeRight'
    BY <1>1, <1>3, <2>2, <2>3, AddToDelayedList
  <2>5. WaitTypes' /\ ListTypes'
    BY <1>1, <1>3, <2>3, <2>4 DEF WaitTypes, ListTypes, MaxDelay, Forever
  <2>6. OnlyCallOf(t)
    BY <1>1, <1>3, <2>4 DEF OnlyCallOf, WaitTypes, OwnerTypes, Goes
  <2> QED BY <1>1, <1>3, <1>7, <2>4, <2>5, <2>6, SleepStep DEF Inside
<1> QED BY <1>8, <1>9

-----------------------------------------------------------------------------
(* Steps that move tasks out of the lists of delayed tasks, at no tick.    *)

LEMMA ListStep ==
  ASSUME KtIInv, UNCHANGED <<tickCount, overflows, waitVars, ktOwner, pendedTicks, ktPc, now>>,
         ListTypes', ListsApart', nextUnblock' \in 0 .. MaxDelay,
         delayed' \subseteq delayed, overflowed' \subseteq overflowed,
         nextUnblock' = nextUnblock \/ \A t \in delayed' : nextUnblock' <= wakeTick[t],
         ktOwner = NobodyKt => pendingReady' = {}
  PROVE  KtIInv'
<1>1. UNCHANGED <<wakeTick, entering, ticksToWait, prevWake, due>>
  BY DEF waitVars
<1>2. ClockRight' /\ processed' = processed /\ processed' \in Nat /\ processed' >= processed
  BY ClockFrame DEF KtIInv, ClockRight
<1>3. KtTypeOK'
  <2>1. ClockTypes' /\ WaitTypes' /\ OwnerTypes'
    BY <1>1, TypeParts DEF KtIInv, ClockTypes, WaitTypes, OwnerTypes, MaxDelay, Forever
  <2> QED BY <2>1, TypePartsNext
<1>4. OwnerRight'
  BY DEF KtIInv, OwnerRight
<1>5. WakeRight'
  BY <1>1, WakeFrame
<1>6. CallsRight'
  <2>1. \A t \in KtTasks : CallRight(t)'
    BY <1>1, <1>2, CallFrame
  <2> QED BY <2>1 DEF CallsRight
<1> QED BY <1>2, <1>3, <1>4, <1>5, <1>6 DEF KtIInv

LEMMA ResumePendingStep ==
  ASSUME KtIInv, NEW t \in KtTasks, ResumePending(t)
  PROVE  KtIInv'
<1>1. ListTypes /\ ListsApart /\ nextUnblock \in 0 .. MaxDelay
  BY TypeParts DEF KtIInv, ClockTypes
<1>2. ListTypes' /\ ListsApart'
  BY <1>1 DEF ResumePending, ListTypes, ListsApart
<1>3. /\ UNCHANGED <<tickCount, overflows, waitVars, ktOwner, pendedTicks, ktPc, now, nextUnblock>>
      /\ delayed' \subseteq delayed /\ overflowed' \subseteq overflowed /\ pendingReady' = {}
  BY DEF ResumePending, clockVars
<1> QED BY <1>1, <1>2, <1>3, ListStep

LEMMA RemoveFromEventListStep ==
  ASSUME KtIInv, NEW t \in KtTasks, xTaskRemoveFromEventList(t)
  PROVE  KtIInv'
<1>1. ListTypes /\ ListsApart /\ nextUnblock \in 0 .. MaxDelay /\ ClockRight
  BY TypeParts DEF KtIInv, ClockTypes
<1>2. /\ UNCHANGED <<tickCount, overflows, waitVars, ktOwner, pendedTicks, ktPc, now, nextUnblock>>
      /\ onEvent' = onEvent \ {t}
  BY DEF xTaskRemoveFromEventList, clockVars
<1>3. CASE ktOwner = NobodyKt
  <2>1. /\ readyTasks' = readyTasks \cup {t}
        /\ delayed' = delayed \ {t} /\ overflowed' = overflowed \ {t} /\ asleep' = asleep \ {t}
        /\ UNCHANGED pendingReady
    BY <1>3 DEF xTaskRemoveFromEventList
  <2>2. ListTypes' /\ ListsApart' /\ pendingReady' = {}
    BY <1>1, <1>2, <1>3, <2>1 DEF ListTypes, ListsApart, ClockRight
  <2> QED BY <1>1, <1>2, <2>1, <2>2, ListStep
<1>4. CASE ktOwner # NobodyKt
  <2>1. /\ pendingReady' = pendingReady \cup {t}
        /\ UNCHANGED <<readyTasks, delayed, overflowed, asleep>>
    BY <1>4 DEF xTaskRemoveFromEventList
  <2>2. ListTypes' /\ ListsApart'
    BY <1>1, <1>2, <2>1 DEF ListTypes, ListsApart
  <2> QED BY <1>1, <1>2, <1>4, <2>1, <2>2, ListStep
<1> QED BY <1>3, <1>4

LEMMA SuspendStep ==
  ASSUME KtIInv, NEW t \in KtTasks, NEW u \in KtTasks, vTaskSuspend(t, u)
  PROVE  KtIInv'
<1>1. ListTypes /\ ListsApart /\ nextUnblock \in 0 .. MaxDelay /\ ClockRight /\ KtTypeOK
  BY TypeParts DEF KtIInv, ClockTypes
<1>2. /\ UNCHANGED <<tickCount, overflows, waitVars, ktOwner, pendedTicks, ktPc, now, pendingReady>>
      /\ readyTasks' = readyTasks \ {u} /\ delayed' = delayed \ {u}
      /\ overflowed' = overflowed \ {u} /\ onEvent' = onEvent \ {u} /\ asleep' = asleep \cup {u}
      /\ nextUnblock' = IF u = t THEN nextUnblock ELSE Earliest(delayed \ {u})
  BY DEF vTaskSuspend
<1>3. ListTypes' /\ ListsApart'
  BY <1>1, <1>2 DEF ListTypes, ListsApart
<1>4. delayed \ {u} \in SUBSET KtTasks
  BY <1>1 DEF ListTypes
<1>5. /\ Earliest(delayed \ {u}) \in 0 .. MaxDelay
      /\ \A x \in delayed \ {u} : Earliest(delayed \ {u}) <= wakeTick[x]
  BY <1>1, <1>4, EarliestIsLeast
<1>6. /\ nextUnblock' \in 0 .. MaxDelay
      /\ nextUnblock' = nextUnblock \/ \A x \in delayed' : nextUnblock' <= wakeTick[x]
  BY <1>1, <1>2, <1>5
<1>7. ktOwner = NobodyKt => pendingReady' = {}
  BY <1>1, <1>2 DEF ClockRight
<1> QED BY <1>2, <1>3, <1>6, <1>7, ListStep

LEMMA ResumeTaskStep ==
  ASSUME KtIInv, NEW t \in KtTasks, NEW u \in KtTasks, vTaskResume(t, u)
  PROVE  KtIInv'
<1>1. ListTypes /\ ListsApart /\ nextUnblock \in 0 .. MaxDelay /\ ClockRight
  BY TypeParts DEF KtIInv, ClockTypes
<1>2. /\ UNCHANGED <<tickCount, overflows, nextUnblock, waitVars, ktOwner, pendedTicks, ktPc, now>>
      /\ UNCHANGED <<delayed, overflowed, onEvent, pendingReady>> /\ u \in asleep
      /\ asleep' = asleep \ {u} /\ readyTasks' = readyTasks \cup {u}
  BY DEF vTaskResume, clockVars
<1>3. ListTypes' /\ ListsApart'
  BY <1>1, <1>2 DEF ListTypes, ListsApart
<1>4. ktOwner = NobodyKt => pendingReady' = {}
  BY <1>1, <1>2 DEF ClockRight
<1> QED BY <1>1, <1>2, <1>3, <1>4, ListStep

-----------------------------------------------------------------------------
(* A tick wakes the tasks of the list whose time has come: to compare it   *)
(* with xNextTaskUnblockTime first makes no difference.                    *)
LEMMA WokenByTick ==
  ASSUME NEW S \in SUBSET KtTasks, NEW W \in [KtTasks -> Nat], NEW tick \in Nat, NEW next \in Nat,
         \A t \in S : next <= W[t]
  PROVE  (IF tick >= next THEN {t \in S : W[t] <= tick} ELSE {}) = {t \in S : W[t] <= tick}
<1>1. ASSUME ~ (tick >= next), NEW t \in S PROVE ~ (W[t] <= tick)
  BY <1>1
<1> QED BY <1>1

(* What a tick comes to, on the times that do not wrap.                    *)
DueNow == {t \in delayed \cup overflowed : due[t] <= processed + 1}

LEMMA TickRight ==
  ASSUME KtIInv, IncrementTick, UNCHANGED <<wakeTick, due>>, processed' = processed + 1, processed' <= MaxTicks
  PROVE  /\ tickCount' \in 0 .. MaxDelay /\ overflows' \in {0, 1} /\ nextUnblock' \in 0 .. MaxDelay
         /\ processed' = Base' + tickCount' /\ WakeRight'
         /\ delayed' \cup overflowed' = (delayed \cup overflowed) \ DueNow
         /\ delayed' \cap overflowed' = {}
         /\ readyTasks' = readyTasks \cup DueNow /\ onEvent' = onEvent \ DueNow
         /\ UNCHANGED <<asleep, pendingReady>>
<1> DEFINE tick == (tickCount + 1) % Wheel
<1> DEFINE list == IF tick = 0 THEN overflowed ELSE delayed
<1> DEFINE next == IF tick = 0 THEN Earliest(list) ELSE nextUnblock
<1> DEFINE over == IF tick >= next THEN {t \in list : wakeTick[t] <= tick} ELSE {}
<1> DEFINE later == IF tick >= next THEN Earliest(list \ over) ELSE next
<1> DEFINE soon == {t \in list : wakeTick[t] <= tick}
<1> DEFINE P == processed
<1>1. /\ tickCount' = tick /\ overflows' = (IF tick = 0 THEN overflows + 1 ELSE overflows)
      /\ delayed' = list \ over /\ overflowed' = (IF tick = 0 THEN delayed ELSE overflowed)
      /\ nextUnblock' = later /\ readyTasks' = readyTasks \cup over /\ onEvent' = onEvent \ over
      /\ UNCHANGED <<asleep, pendingReady>>
  BY DEF IncrementTick
<1>2. /\ tickCount \in Nat /\ tickCount < Wheel /\ P \in Nat /\ P = Base + tickCount
      /\ Wheel \in Nat \ {0} /\ Wheel > 2 /\ MaxDelay = Wheel - 1 /\ P + 1 < 2 * Wheel
  BY Processed, KtConstants
<1>3. tick = (IF tickCount + 1 < Wheel THEN tickCount + 1 ELSE (tickCount + 1) - Wheel)
  <2> DEFINE x == tickCount + 1
  <2>1. x \in 0 .. (2 * Wheel - 1)
    BY <1>2
  <2>2. x % Wheel = (IF x < Wheel THEN x ELSE x - Wheel)
    <3> HIDE DEF x
    <3> QED BY <1>2, <2>1, Turns
  <2> QED BY <2>2
<1>4. /\ delayed \in SUBSET KtTasks /\ overflowed \in SUBSET KtTasks /\ nextUnblock \in 0 .. MaxDelay
      /\ wakeTick \in [KtTasks -> 0 .. MaxDelay] /\ due \in [KtTasks -> Nat] /\ overflows \in {0, 1}
      /\ \A t \in delayed : InThisTurn(t)
      /\ \A t \in overflowed : InNextTurn(t)
  <2>1. due \in [KtTasks -> Nat]
    BY TypeParts, KtConstants DEF KtIInv, WaitTypes
  <2> QED BY <2>1, TypeParts DEF KtIInv, ListTypes, ClockTypes, WaitTypes, ClockRight, WakeRight
<1>5. tick \in 0 .. MaxDelay /\ MaxDelay \in Nat
  <2> HIDE DEF tick
  <2> QED BY <1>2, <1>3
<1>6. list \in SUBSET KtTasks
  BY <1>4
<1>7. next \in 0 .. MaxDelay /\ \A t \in list : next <= wakeTick[t]
  <2>1. CASE tick = 0
    <3>1. Earliest(list) \in 0 .. MaxDelay /\ \A t \in list : Earliest(list) <= wakeTick[t]
      <4> HIDE DEF list
      <4> QED BY <1>6, EarliestIsLeast DEF KtIInv
    <3> QED BY <2>1, <3>1
  <2>2. CASE tick # 0
    <3>1. next = nextUnblock /\ list = delayed
      BY <2>2
    <3> QED BY <1>4, <3>1 DEF InThisTurn
  <2> QED BY <2>1, <2>2
<1>8. over = soon
  <2> HIDE DEF list, next, tick
  <2>1. wakeTick \in [KtTasks -> Nat] /\ tick \in Nat /\ next \in Nat
    BY <1>4, <1>5, <1>7
  <2> QED BY <1>6, <1>7, <2>1, WokenByTick
<1>9. later \in 0 .. MaxDelay /\ \A t \in list \ soon : later <= wakeTick[t]
  <2> DEFINE rest == list \ soon
  <2>1. rest \in SUBSET KtTasks
    BY <1>6
  <2>2. Earliest(rest) \in 0 .. MaxDelay /\ \A t \in rest : Earliest(rest) <= wakeTick[t]
    <3> HIDE DEF rest
    <3> QED BY <2>1, EarliestIsLeast DEF KtIInv
  <2>3. later = (IF tick >= next THEN Earliest(rest) ELSE next)
    BY <1>8
  <2>4. \A t \in rest : next <= wakeTick[t]
    BY <1>7
  <2> HIDE DEF later, list, next, soon, over, tick
  <2> QED BY <1>7, <2>2, <2>3, <2>4
<1>10. /\ delayed' = list \ soon /\ nextUnblock' = later
       /\ readyTasks' = readyTasks \cup soon /\ onEvent' = onEvent \ soon
  BY <1>1, <1>8
<1>11. CASE tickCount + 1 < Wheel
  <2>1. tick = tickCount + 1 /\ tick # 0
    <3> HIDE DEF tick
    <3> QED BY <1>2, <1>3, <1>11
  <2>2. list = delayed /\ overflowed' = overflowed /\ overflows' = overflows
    BY <1>1, <2>1
  <2>3. Base' = Base /\ Base \in Nat
    BY <1>2, <2>2 DEF Base
  <2>4. processed' = Base' + tickCount'
    <3>1. processed' = P + 1 /\ tickCount' = tickCount + 1
      BY <1>1, <2>1
    <3> HIDE DEF P
    <3> QED BY <1>2, <2>3, <3>1
  <2>5. ASSUME NEW t \in delayed PROVE /\ wakeTick[t] \in Nat /\ due[t] = Base + wakeTick[t]
                                       /\ due[t] <= P + 1 <=> wakeTick[t] <= tick
    <3>1. wakeTick[t] \in Nat /\ due[t] = Base + wakeTick[t]
      BY <1>4 DEF InThisTurn
    <3>2. due[t] <= P + 1 <=> wakeTick[t] <= tick
      <4> HIDE DEF tick, P
      <4> QED BY <1>2, <2>1, <2>3, <3>1
    <3> QED BY <3>1, <3>2
  <2>6. ASSUME NEW t \in overflowed PROVE ~ (due[t] <= P + 1) /\ InNextTurn(t)'
    <3>1. wakeTick[t] \in Nat /\ wakeTick[t] < tickCount /\ due[t] = Base + Wheel + wakeTick[t]
      BY <1>4 DEF InNextTurn
    <3>2. ~ (due[t] <= P + 1) /\ wakeTick[t] < tick
      <4> HIDE DEF tick, P
      <4> QED BY <1>2, <1>11, <2>1, <2>3, <3>1
    <3>3. tickCount' = tick
      BY <1>1
    <3> QED BY <2>3, <3>1, <3>2, <3>3 DEF InNextTurn
  <2>7. soon = DueNow
    <3>1. soon = {t \in delayed : wakeTick[t] <= tick}
      BY <2>2
    <3> HIDE DEF soon, tick
    <3> QED BY <2>5, <2>6, <3>1 DEF DueNow
  <2>8. ASSUME NEW t \in delayed' PROVE InThisTurn(t)'
    <3>1. t \in delayed /\ t \in list \ soon /\ ~ (wakeTick[t] <= tick)
      BY <1>10, <2>2
    <3>2. wakeTick[t] \in Nat /\ due[t] = Base + wakeTick[t] /\ later <= wakeTick[t]
      BY <1>9, <2>5, <3>1
    <3>3. tickCount' = tick /\ nextUnblock' = later
      BY <1>1
    <3>4. wakeTick[t] > tick
      <4> HIDE DEF tick
      <4> QED BY <1>5, <3>1, <3>2
    <3> HIDE DEF tick, later
    <3> QED BY <2>3, <3>2, <3>3, <3>4 DEF InThisTurn
  <2>9. delayed \cap overflowed = {}
    BY DEF KtIInv, ListsApart
  <2>10. WakeRight'
    BY <2>2, <2>6, <2>8 DEF WakeRight
  <2>11. delayed' \cup overflowed' = (delayed \cup overflowed) \ DueNow /\ delayed' \cap overflowed' = {}
    <3>1. delayed' = delayed \ DueNow /\ overflowed' = overflowed /\ overflowed \cap DueNow = {}
      BY <1>10, <2>2, <2>6, <2>7 DEF DueNow
    <3> QED BY <2>9, <3>1
  <2> HIDE DEF tick, list, next, over, later, soon
  <2> QED BY <1>1, <1>4, <1>5, <1>9, <1>10, <2>2, <2>4, <2>7, <2>10, <2>11
<1>12. CASE tickCount + 1 = Wheel
  <2>1. tick = 0
    <3> HIDE DEF tick
    <3> QED BY <1>2, <1>3, <1>12
  <2>2. delayed = {}
    <3>1. ASSUME NEW t \in delayed PROVE FALSE
      <4>1. wakeTick[t] \in 0 .. MaxDelay /\ wakeTick[t] > tickCount
        BY <1>4 DEF InThisTurn
      <4> QED BY <1>2, <1>12, <4>1
    <3> QED BY <3>1
  <2>3. Base = 0 /\ overflows = 0
    <3>1. Base = Wheel => FALSE
      <4> HIDE DEF P
      <4> QED BY <1>2, <1>12
    <3> QED BY <3>1 DEF Base
  <2>4. list = overflowed /\ overflowed' = {} /\ overflows' = 1 /\ tickCount' = 0
    BY <1>1, <2>1, <2>2, <2>3
  <2>5. Base' = Wheel
    BY <2>4 DEF Base
  <2>6. processed' = Base' + tickCount'
    <3>1. processed' = P + 1
      OBVIOUS
    <3> HIDE DEF P
    <3> QED BY <1>2, <1>12, <2>3, <2>4, <2>5, <3>1
  <2>7. ASSUME NEW t \in overflowed PROVE /\ wakeTick[t] \in Nat /\ due[t] = Wheel + wakeTick[t]
                                          /\ due[t] <= P + 1 <=> wakeTick[t] <= 0
    <3>1. wakeTick[t] \in Nat /\ due[t] = Base + Wheel + wakeTick[t]
      BY <1>4 DEF InNextTurn
    <3> HIDE DEF P
    <3> QED BY <1>2, <1>12, <2>3, <3>1
  <2>8. soon = DueNow
    <3>1. soon = {t \in overflowed : wakeTick[t] <= 0}
      BY <2>1, <2>4
    <3> HIDE DEF soon, tick
    <3> QED BY <2>2, <2>7, <3>1 DEF DueNow
  <2>9. ASSUME NEW t \in delayed' PROVE InThisTurn(t)'
    <3>1. t \in overflowed /\ t \in list \ soon /\ ~ (wakeTick[t] <= 0)
      BY <1>10, <2>1, <2>4
    <3>2. wakeTick[t] \in Nat /\ due[t] = Wheel + wakeTick[t] /\ later <= wakeTick[t]
      BY <1>9, <2>7, <3>1
    <3>3. tickCount' = 0 /\ nextUnblock' = later
      BY <1>1, <2>1
    <3> HIDE DEF tick, later
    <3> QED BY <2>5, <3>1, <3>2, <3>3 DEF InThisTurn
  <2>10. WakeRight'
    BY <2>4, <2>9 DEF WakeRight
  <2>11. delayed' \cup overflowed' = (delayed \cup overflowed) \ DueNow /\ delayed' \cap overflowed' = {}
    BY <1>10, <2>2, <2>4, <2>8
  <2> HIDE DEF tick, list, next, over, later, soon
  <2> QED BY <1>1, <1>2, <1>5, <1>9, <1>10, <2>4, <2>6, <2>8, <2>10, <2>11
<1>13. tickCount + 1 < Wheel \/ tickCount + 1 = Wheel
  BY <1>2
<1> QED BY <1>11, <1>12, <1>13

(* A step that processes a tick, while no call has the scheduler to itself *)
(* before it waits.                                                        *)
LEMMA ProcessTick ==
  ASSUME KtIInv, IncrementTick, UNCHANGED <<waitVars, ktOwner, ktPc>>,
         now' \in 0 .. MaxTicks, pendedTicks' \in 0 .. now', processed' = processed + 1,
         ktOwner = NobodyKt => pendedTicks' = 0,
         \A t \in KtTasks : ktPc[t] \notin {"delay", "until", "place"}
  PROVE  KtIInv' /\ delayed' \cup overflowed' = (delayed \cup overflowed) \ DueNow
<1>1. UNCHANGED <<wakeTick, entering, ticksToWait, prevWake, due>>
  BY DEF waitVars
<1>2. processed \in Nat /\ processed' \in Nat /\ processed' >= processed /\ processed' <= MaxTicks
  <2>1. processed \in Nat
    BY Processed
  <2>2. processed' = now' - pendedTicks'
    BY DEF processed
  <2>3. processed' <= MaxTicks
    <3> DEFINE n == now'
    <3> DEFINE d == pendedTicks'
    <3>1. n \in 0 .. MaxTicks /\ d \in 0 .. n /\ MaxTicks \in Nat
      BY KtConstants
    <3>2. n - d <= MaxTicks
      <4> HIDE DEF n, d
      <4> QED BY <3>1
    <3> QED BY <2>2, <3>2
  <2> QED BY <2>1, <2>3
<1>3. /\ tickCount' \in 0 .. MaxDelay /\ overflows' \in {0, 1} /\ nextUnblock' \in 0 .. MaxDelay
      /\ processed' = Base' + tickCount' /\ WakeRight'
      /\ delayed' \cup overflowed' = (delayed \cup overflowed) \ DueNow
      /\ delayed' \cap overflowed' = {}
      /\ readyTasks' = readyTasks \cup DueNow /\ onEvent' = onEvent \ DueNow
      /\ UNCHANGED <<asleep, pendingReady>>
  BY <1>1, <1>2, TickRight
<1>4. ListTypes /\ ListsApart /\ ClockRight /\ DueNow \subseteq delayed \cup overflowed
  BY TypeParts DEF KtIInv, DueNow
<1>5. ListTypes'
  BY <1>3, <1>4 DEF ListTypes
<1>6. ListsApart'
  BY <1>3, <1>4 DEF ListsApart
<1>7. KtTypeOK'
  <2>1. WaitTypes' /\ OwnerTypes'
    BY <1>1, TypeParts DEF KtIInv, WaitTypes, OwnerTypes, MaxDelay, Forever
  <2>2. ClockTypes'
    BY <1>3 DEF ClockTypes, MaxDelay
  <2> QED BY <1>5, <2>1, <2>2, TypePartsNext
<1>8. ClockRight'
  BY <1>3, <1>4 DEF ClockRight
<1>9. OwnerRight'
  BY DEF KtIInv, OwnerRight
<1>10. CallsRight'
  <2>1. \A t \in KtTasks : CallRight(t)'
    BY <1>1, <1>2, CallFrame
  <2> QED BY <2>1 DEF CallsRight
<1> QED BY <1>3, <1>6, <1>7, <1>8, <1>9, <1>10 DEF KtIInv

LEMMA SysTickStep ==
  ASSUME KtIInv, SysTick
  PROVE  /\ KtIInv'
         /\ \/ processed' = processed
            \/ /\ processed' = processed + 1
               /\ delayed' \cup overflowed' = (delayed \cup overflowed) \ DueNow
<1>1. /\ now' = now + 1 /\ now < MaxTicks /\ UNCHANGED <<waitVars, ktOwner, ktPc>>
      /\ UNCHANGED <<wakeTick, entering, ticksToWait, prevWake, due>>
  BY DEF SysTick, waitVars
<1>2. processed \in Nat /\ now \in Nat /\ pendedTicks \in Nat /\ now = processed + pendedTicks
  BY Processed
<1>3. now' \in 0 .. MaxTicks
  BY <1>1, <1>2, KtConstants
<1>4. CASE ktOwner = NobodyKt
  <2>1. IncrementTick /\ pendedTicks = 0 /\ pendedTicks' = 0
    BY <1>4 DEF SysTick, KtIInv, ClockRight
  <2>2. processed' = processed + 1
    BY <1>1, <1>2, <2>1 DEF processed
  <2>3. \A t \in KtTasks : ktPc[t] \notin {"delay", "until", "place"}
    BY <1>4, KernelTimeAssumption DEF KtIInv, OwnerRight, Inside
  <2>4. pendedTicks' \in 0 .. now'
    BY <1>3, <2>1
  <2> QED BY <1>1, <1>3, <2>1, <2>2, <2>3, <2>4, ProcessTick
<1>5. CASE ktOwner # NobodyKt
  <2>1. pendedTicks' = pendedTicks + 1 /\ UNCHANGED <<clockVars, listsVars>>
    BY <1>5 DEF SysTick
  <2>2. /\ UNCHANGED <<tickCount, overflows, nextUnblock>>
        /\ UNCHANGED <<readyTasks, delayed, overflowed, asleep, onEvent, pendingReady>>
    BY <2>1 DEF clockVars, listsVars
  <2>3. processed' = processed
    BY <1>1, <1>2, <2>1 DEF processed
  <2>4. pendedTicks' \in 0 .. now'
    BY <1>1, <1>2, <2>1
  <2>5. KtTypeOK'
    <3>1. ListTypes' /\ WaitTypes' /\ OwnerTypes'
      BY <1>1, <2>2, TypeParts DEF KtIInv, ListTypes, WaitTypes, OwnerTypes, MaxDelay, Forever
    <3>2. ClockTypes'
      BY <1>3, <2>2, <2>4, TypeParts DEF KtIInv, ClockTypes, MaxDelay
    <3> QED BY <3>1, <3>2, TypePartsNext
  <2>6. ClockRight'
    BY <1>1, <1>5, <2>2, <2>3 DEF KtIInv, ClockRight, Base
  <2>7. OwnerRight' /\ ListsApart'
    BY <1>1, <2>2 DEF KtIInv, OwnerRight, ListsApart
  <2>8. WakeRight'
    BY <1>1, <2>2, WakeFrame
  <2>9. CallsRight'
    <3>1. processed' \in Nat /\ processed' >= processed
      BY <1>2, <2>3
    <3>2. \A t \in KtTasks : CallRight(t)'
      BY <1>1, <2>3, <3>1, CallFrame
    <3> QED BY <3>2 DEF CallsRight
  <2> QED BY <2>3, <2>5, <2>6, <2>7, <2>8, <2>9 DEF KtIInv
<1> QED BY <1>4, <1>5

LEMMA ResumeTickStep ==
  ASSUME KtIInv, NEW t \in KtTasks, ResumeTick(t)
  PROVE  /\ KtIInv'
         /\ processed' = processed + 1
         /\ delayed' \cup overflowed' = (delayed \cup overflowed) \ DueNow
<1>1. /\ IncrementTick /\ pendedTicks' = pendedTicks - 1 /\ pendedTicks > 0
      /\ UNCHANGED <<waitVars, ktOwner, ktPc, now>> /\ ktPc[t] = "resume"
  BY DEF ResumeTick
<1>2. processed \in Nat /\ now \in Nat /\ pendedTicks \in Nat /\ now = processed + pendedTicks /\ now <= MaxTicks
  BY Processed
<1>3. now' \in 0 .. MaxTicks /\ pendedTicks' \in 0 .. now' /\ processed' = processed + 1
  <2>1. processed' = now - (pendedTicks - 1)
    BY <1>1 DEF processed
  <2> HIDE DEF processed
  <2> QED BY <1>1, <1>2, <2>1
<1>4. ktOwner = t /\ ktOwner # NobodyKt
  BY <1>1, KernelTimeAssumption DEF KtIInv, OwnerRight, Inside
<1>5. \A u \in KtTasks : ktPc[u] \notin {"delay", "until", "place"}
  BY <1>1, <1>4 DEF KtIInv, OwnerRight, Inside
<1> QED BY <1>1, <1>3, <1>4, <1>5, ProcessTick

-----------------------------------------------------------------------------
(* What a step may do to the clock.                                        *)
TickOrNone ==
  \/ processed' = processed
  \/ /\ processed' = processed + 1
     /\ delayed' \cup overflowed' = (delayed \cup overflowed) \ DueNow

LEMMA WaitTypesKept ==
  ASSUME KtIInv, NEW t \in KtTasks, NEW n \in 1 .. MaxWait \cup {MaxDelay},
         \/ n \in 1 .. MaxWait /\ (CallDelay(t, n) \/ CallDelayUntil(t, n))
         \/ CallWait(t, n)
  PROVE  WaitTypes'
<1>1. WaitTypes /\ n \in 0 .. MaxDelay /\ overflows \in Nat /\ tickCount \in 0 .. MaxDelay
  BY TypeParts, KtConstants DEF KtIInv, ClockTypes
<1>2. now \in Nat /\ now <= MaxTicks
  BY Processed
<1>3. MaxDelay' = MaxDelay /\ Forever' = Forever
  BY DEF MaxDelay, Forever
<1>4. CASE n \in 1 .. MaxWait /\ CallDelay(t, n)
  <2>1. /\ ticksToWait' = [ticksToWait EXCEPT ![t] = n] /\ due' = [due EXCEPT ![t] = now + n]
        /\ UNCHANGED <<wakeTick, entering, prevWake>>
    BY <1>4 DEF CallDelay
  <2>2. now + n \in 0 .. Forever
    BY <1>2, <1>4, KtConstants
  <2> QED BY <1>1, <1>3, <2>1, <2>2 DEF WaitTypes
<1>5. CASE n \in 1 .. MaxWait /\ CallDelayUntil(t, n)
  <2>1. PICK ago \in 0 .. (Wheel - 1 - n) :
          /\ ago <= now
          /\ prevWake' = [prevWake EXCEPT ![t] = (now - ago) % Wheel]
          /\ due' = [due EXCEPT ![t] = now - ago + n]
    BY <1>5 DEF CallDelayUntil
  <2>2. ticksToWait' = [ticksToWait EXCEPT ![t] = n] /\ UNCHANGED <<wakeTick, entering>>
    BY <1>5 DEF CallDelayUntil
  <2>3. now - ago + n \in 0 .. Forever /\ now - ago \in Nat /\ now - ago < 2 * Wheel
    BY <1>2, <1>5, <2>1, KtConstants
  <2>4. (now - ago) % Wheel \in 0 .. MaxDelay
    <3> DEFINE p == now - ago
    <3>1. Wheel \in Nat \ {0} /\ MaxDelay = Wheel - 1 /\ p \in 0 .. (2 * Wheel - 1)
      BY <2>3, KtConstants
    <3> HIDE DEF p
    <3>2. p % Wheel = (IF p < Wheel THEN p ELSE p - Wheel)
      BY <3>1, Turns
    <3> DEFINE q == p % Wheel
    <3>3. q \in 0 .. MaxDelay
      <4>1. q = (IF p < Wheel THEN p ELSE p - Wheel)
        BY <3>2
      <4> HIDE DEF q
      <4> QED BY <3>1, <4>1
    <3> QED BY <3>3 DEF p
  <2> QED BY <1>1, <1>3, <2>1, <2>2, <2>3, <2>4 DEF WaitTypes
<1>6. CASE CallWait(t, n)
  <2>1. /\ entering' = [entering EXCEPT ![t] = [over |-> overflows, tick |-> tickCount]]
        /\ ticksToWait' = [ticksToWait EXCEPT ![t] = n]
        /\ due' = [due EXCEPT ![t] = IF n = MaxDelay THEN Forever ELSE now + n]
        /\ UNCHANGED <<wakeTick, prevWake>>
    BY <1>6 DEF CallWait
  <2>2. (IF n = MaxDelay THEN Forever ELSE now + n) \in 0 .. Forever
    BY <1>2, KtConstants
  <2> QED BY <1>1, <1>3, <2>1, <2>2 DEF WaitTypes
<1> QED BY <1>4, <1>5, <1>6

(* No step but a tick's processing changes `processed'.                    *)
LEMMA NextInv == KtIInv /\ [KtNext]_ktVars => KtIInv' /\ TickOrNone
<1> SUFFICES ASSUME KtIInv, [KtNext]_ktVars PROVE KtIInv' /\ TickOrNone
  OBVIOUS
<1>1. CASE SysTick
  BY <1>1, SysTickStep DEF TickOrNone
<1>2. ASSUME NEW t \in KtTasks, NEW n \in 1 .. MaxWait, CallDelay(t, n) \/ CallDelayUntil(t, n)
      PROVE  KtIInv' /\ processed' = processed
  <2>1. WaitTypes'
    BY <1>2, WaitTypesKept
  <2>2. processed' = processed
    BY <1>2 DEF CallDelay, CallDelayUntil, processed
  <2> QED BY <1>2, <2>1, <2>2, CallDelayStep, CallDelayUntilStep
<1>3. ASSUME NEW t \in KtTasks, NEW n \in 1 .. MaxWait \cup {MaxDelay}, CallWait(t, n)
      PROVE  KtIInv' /\ processed' = processed
  <2>1. WaitTypes'
    BY <1>3, WaitTypesKept
  <2>2. processed' = processed
    BY <1>3 DEF CallWait, processed
  <2> QED BY <1>3, <2>1, <2>2, CallWaitStep
<1>4. ASSUME NEW t \in KtTasks,
             \/ vTaskDelay(t) \/ vTaskDelayUntil(t) \/ LockScheduler(t) \/ xTaskCheckForTimeOut(t)
             \/ vTaskPlaceOnEventList(t) \/ DoesNotWait(t) \/ xTaskResumeAll(t) \/ Resumed(t)
      PROVE  KtIInv' /\ processed' = processed
  <2>1. KtIInv'
    BY <1>4, DelayStep, DelayUntilStep, LockSchedulerStep, CheckForTimeOutStep,
       PlaceOnEventListStep, DoesNotWaitStep, ResumeAllStep, ResumedStep
  <2>2. UNCHANGED <<now, pendedTicks>>
    BY <1>4 DEF vTaskDelay, vTaskDelayUntil, LockScheduler, xTaskCheckForTimeOut,
                vTaskPlaceOnEventList, DoesNotWait, xTaskResumeAll, Resumed
  <2> QED BY <2>1, <2>2 DEF processed
<1>5. ASSUME NEW t \in KtTasks, NEW u \in KtTasks,
             ResumePending(t) \/ xTaskRemoveFromEventList(t) \/ vTaskSuspend(t, u) \/ vTaskResume(t, u)
      PROVE  KtIInv' /\ processed' = processed
  <2>1. KtIInv'
    BY <1>5, ResumePendingStep, RemoveFromEventListStep, SuspendStep, ResumeTaskStep
  <2>2. UNCHANGED <<now, pendedTicks>>
    BY <1>5 DEF ResumePending, xTaskRemoveFromEventList, vTaskSuspend, vTaskResume
  <2> QED BY <2>1, <2>2 DEF processed
<1>6. ASSUME NEW t \in KtTasks, ResumeTick(t) PROVE KtIInv' /\ TickOrNone
  BY <1>6, ResumeTickStep DEF TickOrNone
<1>7. CASE UNCHANGED ktVars
  <2>1. UNCHANGED <<tickCount, overflows, nextUnblock, waitVars, ktOwner, pendedTicks, ktPc, now>>
    BY <1>7 DEF ktVars, clockVars
  <2>2. UNCHANGED <<readyTasks, delayed, overflowed, asleep, onEvent, pendingReady>>
    BY <1>7 DEF ktVars, listsVars
  <2>3. ListTypes' /\ ListsApart' /\ nextUnblock' \in 0 .. MaxDelay
    BY <2>1, <2>2, TypeParts DEF KtIInv, ListTypes, ListsApart, ClockTypes, MaxDelay
  <2>4. ktOwner = NobodyKt => pendingReady' = {}
    BY <2>2 DEF KtIInv, ClockRight
  <2>5. KtIInv'
    BY <2>1, <2>2, <2>3, <2>4, ListStep DEF MaxDelay
  <2> QED BY <2>1, <2>5 DEF TickOrNone, processed
<1>8. MaxDelay \in 1 .. MaxWait \cup {MaxDelay} /\ \A n \in 1 .. MaxWait : n \in 1 .. MaxWait \cup {MaxDelay}
  OBVIOUS
<1> QED BY <1>1, <1>2, <1>3, <1>4, <1>5, <1>6, <1>7, <1>8 DEF KtNext, TickOrNone

-----------------------------------------------------------------------------
(* The lists as a whole.                                                   *)
AllListed == readyTasks \cup delayed \cup overflowed \cup asleep = KtTasks
EventsApart == readyTasks \cap (onEvent \cup pendingReady) = {} /\ onEvent \cap pendingReady = {}
KtLists == AllListed /\ EventsApart

(* The steps of the owner of the scheduler move it, and nobody else.       *)
LEMMA ListsByCall ==
  ASSUME KtIInv, KtLists, NEW t \in KtTasks,
         \/ vTaskDelay(t) \/ vTaskDelayUntil(t) \/ vTaskPlaceOnEventList(t)
  PROVE  KtLists'
<1>1. t \in readyTasks /\ ListTypes
  BY TypeParts DEF KtIInv, RunsAt, vTaskDelay, vTaskDelayUntil, vTaskPlaceOnEventList
<1>2. \/ UNCHANGED <<readyTasks, delayed, overflowed, asleep>>
      \/ /\ readyTasks' = readyTasks \ {t}
         /\ delayed' \cup overflowed' \cup asleep' = delayed \cup overflowed \cup asleep \cup {t}
  <2>1. CASE vTaskDelay(t)
    BY <2>1 DEF vTaskDelay, prvAddCurrentTaskToDelayedList
  <2>2. CASE vTaskDelayUntil(t)
    <3> DEFINE wake == (prevWake[t] + ticksToWait[t]) % Wheel
    <3>1. \/ prvAddCurrentTaskToDelayedList(t, wake)
          \/ UNCHANGED <<wakeTick, readyTasks, delayed, overflowed, nextUnblock>>
      BY <2>2 DEF vTaskDelayUntil
    <3>2. UNCHANGED asleep
      BY <2>2 DEF vTaskDelayUntil
    <3> HIDE DEF wake
    <3> QED BY <3>1, <3>2 DEF prvAddCurrentTaskToDelayedList
  <2>3. CASE vTaskPlaceOnEventList(t)
    BY <2>3 DEF vTaskPlaceOnEventList, prvAddCurrentTaskToDelayedList
  <2> QED BY <2>1, <2>2, <2>3
<1>3. UNCHANGED pendingReady
  BY DEF vTaskDelay, vTaskDelayUntil, vTaskPlaceOnEventList
<1>4. onEvent' = onEvent \/ (onEvent' = onEvent \cup {t} /\ readyTasks' = readyTasks \ {t})
  BY DEF vTaskDelay, vTaskDelayUntil, vTaskPlaceOnEventList, prvAddCurrentTaskToDelayedList
<1>5. AllListed'
  BY <1>1, <1>2 DEF KtLists, AllListed
<1>6. EventsApart'
  BY <1>1, <1>2, <1>3, <1>4 DEF KtLists, EventsApart
<1> QED BY <1>5, <1>6 DEF KtLists

LEMMA ListsByOthers ==
  ASSUME KtIInv, KtLists, NEW t \in KtTasks, NEW u \in KtTasks,
         ResumePending(t) \/ xTaskRemoveFromEventList(t) \/ vTaskSuspend(t, u) \/ vTaskResume(t, u)
  PROVE  KtLists'
<1>1. ListTypes /\ ClockRight
  BY TypeParts DEF KtIInv
<1>2. CASE ResumePending(t)
  BY <1>1, <1>2 DEF ResumePending, KtLists, AllListed, EventsApart, ListTypes
<1>3. CASE xTaskRemoveFromEventList(t)
  <2>1. CASE ktOwner = NobodyKt
    <3>1. pendingReady' = {}
      BY <1>1, <1>3, <2>1 DEF xTaskRemoveFromEventList, ClockRight
    <3> QED BY <1>1, <1>3, <2>1, <3>1 DEF xTaskRemoveFromEventList, KtLists, AllListed, EventsApart, ListTypes
  <2>2. CASE ktOwner # NobodyKt
    BY <1>1, <1>3, <2>2 DEF xTaskRemoveFromEventList, KtLists, AllListed, EventsApart, ListTypes
  <2> QED BY <2>1, <2>2
<1>4. CASE vTaskSuspend(t, u)
  <2>1. pendingReady' = {}
    BY <1>1, <1>4 DEF vTaskSuspend, ClockRight
  <2> QED BY <1>1, <1>4, <2>1 DEF vTaskSuspend, KtLists, AllListed, EventsApart, ListTypes
<1>5. CASE vTaskResume(t, u)
  BY <1>1, <1>5 DEF vTaskResume, KtLists, AllListed, EventsApart, ListTypes
<1> QED BY <1>2, <1>3, <1>4, <1>5

(* A tick comes to ready tasks only when none are pending.                 *)
LEMMA ListsByTick ==
  ASSUME KtIInv, KtLists, IncrementTick, pendingReady = {}
  PROVE  KtLists'
<1> DEFINE tick == (tickCount + 1) % Wheel
<1> DEFINE list == IF tick = 0 THEN overflowed ELSE delayed
<1> DEFINE next == IF tick = 0 THEN Earliest(list) ELSE nextUnblock
<1> DEFINE over == IF tick >= next THEN {t \in list : wakeTick[t] <= tick} ELSE {}
<1>1. /\ delayed' = list \ over /\ overflowed' = (IF tick = 0 THEN delayed ELSE overflowed)
      /\ readyTasks' = readyTasks \cup over /\ onEvent' = onEvent \ over
      /\ UNCHANGED <<asleep, pendingReady>>
  BY DEF IncrementTick
<1>2. over \subseteq list
  OBVIOUS
<1>3. \/ list = overflowed /\ overflowed' = delayed
      \/ list = delayed /\ overflowed' = overflowed
  BY <1>1
<1> HIDE DEF tick, list, next, over
<1>4. AllListed'
  BY <1>1, <1>2, <1>3 DEF KtLists, AllListed
<1>5. EventsApart'
  BY <1>1 DEF KtLists, EventsApart
<1> QED BY <1>4, <1>5 DEF KtLists

LEMMA ListsInit == KtInit => KtLists
BY DEF KtInit, KtLists, AllListed, EventsApart

LEMMA ListsNext == KtIInv /\ KtLists /\ [KtNext]_ktVars => KtLists'
<1> SUFFICES ASSUME KtIInv, KtLists, [KtNext]_ktVars PROVE KtLists'
  OBVIOUS
<1>1. ASSUME UNCHANGED listsVars PROVE KtLists'
  BY <1>1 DEF listsVars, KtLists, AllListed, EventsApart
<1>2. CASE SysTick
  <2>1. CASE ktOwner = NobodyKt
    BY <1>2, <2>1, ListsByTick DEF SysTick, KtIInv, ClockRight
  <2>2. CASE ktOwner # NobodyKt
    BY <1>1, <1>2, <2>2 DEF SysTick
  <2> QED BY <2>1, <2>2
<1>3. ASSUME NEW t \in KtTasks, NEW n,
             CallDelay(t, n) \/ CallDelayUntil(t, n) \/ CallWait(t, n)
      PROVE  KtLists'
  BY <1>1, <1>3 DEF CallDelay, CallDelayUntil, CallWait
<1>4. ASSUME NEW t \in KtTasks,
             LockScheduler(t) \/ xTaskCheckForTimeOut(t) \/ DoesNotWait(t) \/ xTaskResumeAll(t) \/ Resumed(t)
      PROVE  KtLists'
  BY <1>1, <1>4 DEF LockScheduler, xTaskCheckForTimeOut, DoesNotWait, xTaskResumeAll, Resumed
<1>5. ASSUME NEW t \in KtTasks, ResumeTick(t) PROVE KtLists'
  BY <1>5, ListsByTick DEF ResumeTick
<1>6. CASE UNCHANGED ktVars
  BY <1>1, <1>6 DEF ktVars
<1> QED BY <1>2, <1>3, <1>4, <1>5, <1>6, ListsByCall, ListsByOthers DEF KtNext

LEMMA InvOneList == KtIInv /\ KtLists => OneList
<1> SUFFICES ASSUME KtIInv, KtLists PROVE OneList
  OBVIOUS
<1> DEFINE four == <<readyTasks, delayed, overflowed, asleep>>
<1>1. ASSUME NEW t \in KtTasks PROVE \E i \in 1 .. 4 : {j \in 1 .. 4 : t \in four[j]} = {i}
  <2>1. /\ four[1] = readyTasks /\ four[2] = delayed /\ four[3] = overflowed /\ four[4] = asleep
    OBVIOUS
  <2>2. /\ t \in four[1] \/ t \in four[2] \/ t \in four[3] \/ t \in four[4]
        /\ ~ (t \in four[1] /\ t \in four[2]) /\ ~ (t \in four[1] /\ t \in four[3])
        /\ ~ (t \in four[1] /\ t \in four[4]) /\ ~ (t \in four[2] /\ t \in four[3])
        /\ ~ (t \in four[2] /\ t \in four[4]) /\ ~ (t \in four[3] /\ t \in four[4])
    BY <2>1 DEF KtIInv, KtLists, AllListed, ListsApart
  <2> HIDE DEF four
  <2>3. \A j \in 1 .. 4 : j = 1 \/ j = 2 \/ j = 3 \/ j = 4
    OBVIOUS
  <2>4. CASE t \in four[1]
    <3>1. {j \in 1 .. 4 : t \in four[j]} = {1}
      BY <2>2, <2>3, <2>4
    <3> QED BY <3>1
  <2>5. CASE t \in four[2]
    <3>1. {j \in 1 .. 4 : t \in four[j]} = {2}
      BY <2>2, <2>3, <2>5
    <3> QED BY <3>1
  <2>6. CASE t \in four[3]
    <3>1. {j \in 1 .. 4 : t \in four[j]} = {3}
      BY <2>2, <2>3, <2>6
    <3> QED BY <3>1
  <2>7. CASE t \in four[4]
    <3>1. {j \in 1 .. 4 : t \in four[j]} = {4}
      BY <2>2, <2>3, <2>7
    <3> QED BY <3>1
  <2> QED BY <2>2, <2>4, <2>5, <2>6, <2>7
<1> QED BY <1>1 DEF OneList, KtLists, EventsApart

-----------------------------------------------------------------------------
LEMMA Invariant == KtSpec => []KtIInv
<1>1. KtIInv /\ [KtNext]_ktVars => KtIInv'
  BY NextInv
<1> QED BY KtInitInv, <1>1, PTL DEF KtSpec

LEMMA InvGivesUpInTime == KtIInv => GivesUpInTime
<1> SUFFICES ASSUME KtIInv, NEW t \in KtTasks
             PROVE  /\ ktPc[t] = "passed" => due[t] <= processed
                    /\ ktPc[t] = "place" => due[t] > processed
                    /\ t \in delayed \cup overflowed => due[t] > processed
  BY DEF GivesUpInTime
<1>1. /\ CallRight(t)
      /\ processed \in Nat /\ processed = Base + tickCount /\ processed < 2 * Wheel
      /\ tickCount \in Nat /\ tickCount < Wheel /\ now <= MaxTicks /\ now = processed + pendedTicks
      /\ pendedTicks \in Nat
  BY Processed DEF KtIInv, CallsRight
<1>2. Base \in Nat
  BY KtConstants DEF Base
<1>3. ktPc[t] = "passed" => due[t] <= processed
  BY <1>1 DEF CallRight
<1>4. ASSUME ktPc[t] = "place" PROVE due[t] > processed
  <2>1. /\ ticksToWait[t] # 0 /\ WaitRight(t) /\ ticksToWait[t] \in 0 .. MaxWait \cup {MaxDelay}
        /\ ticksToWait[t] # MaxDelay => Began(t) = processed
    BY <1>1, <1>4 DEF CallRight
  <2>2. CASE ticksToWait[t] = MaxDelay
    <3>1. due[t] = Forever
      BY <2>1, <2>2 DEF WaitRight
    <3> QED BY <1>1, <3>1, KtConstants
  <2>3. CASE ticksToWait[t] # MaxDelay
    <3>1. due[t] = processed + ticksToWait[t] /\ ticksToWait[t] \in 1 .. MaxWait
      BY <2>1, <2>3, KtConstants DEF WaitRight
    <3> QED BY <1>1, <3>1
  <2> QED BY <2>2, <2>3
<1>5. ASSUME t \in delayed PROVE due[t] > processed
  <2>1. wakeTick[t] > tickCount /\ due[t] = Base + wakeTick[t] /\ wakeTick[t] \in Nat
    BY <1>5, TypeParts, KtConstants DEF KtIInv, WakeRight, InThisTurn, WaitTypes
  <2> QED BY <1>1, <1>2, <2>1
<1>6. ASSUME t \in overflowed PROVE due[t] > processed
  <2>1. due[t] = Base + Wheel + wakeTick[t] /\ wakeTick[t] \in Nat
    BY <1>6, TypeParts, KtConstants DEF KtIInv, WakeRight, InNextTurn, WaitTypes
  <2> QED BY <1>1, <1>2, <2>1, KtConstants
<1> QED BY <1>3, <1>4, <1>5, <1>6

-----------------------------------------------------------------------------
(* Every task is in one of the lists of tasks and in no other: none is     *)
(* lost when the lists are switched, and none is in two of them.           *)
THEOREM OneListAlways == KtSpec => []OneList
BY Invariant, ListsInit, ListsNext, InvOneList, PTL DEF KtSpec

(* Whatever the ticks do, and whoever suspends the scheduler: a call gives *)
(* up only if its time is over, and a task sleeps only if it is not.       *)
THEOREM GivesUpAlways == KtSpec => []GivesUpInTime
BY Invariant, InvGivesUpInTime, PTL

(* A tick that is processed wakes the tasks that are due and no other.     *)
THEOREM TicksWake == KtSpec => TickWakesTheDue
<1> DEFINE Step == processed' # processed =>
                     \A t \in delayed \cup overflowed :
                       (t \in delayed' \cup overflowed') <=> due[t] > processed'
<1>1. KtIInv /\ [KtNext]_ktVars => [Step]_ktVars
  <2> SUFFICES ASSUME KtIInv, [KtNext]_ktVars, processed' # processed, NEW t \in delayed \cup overflowed
               PROVE  (t \in delayed' \cup overflowed') <=> due[t] > processed'
    OBVIOUS
  <2>1. processed' = processed + 1 /\ delayed' \cup overflowed' = (delayed \cup overflowed) \ DueNow
    BY NextInv DEF TickOrNone
  <2>2. t \in DueNow <=> due[t] <= processed'
    BY <2>1 DEF DueNow
  <2>3. due[t] \in Nat /\ processed \in Nat
    BY Processed, TypeParts, KtConstants DEF KtIInv, ListTypes, WaitTypes
  <2>4. due[t] <= processed' <=> ~ (due[t] > processed')
    BY <2>1, <2>3
  <2> QED BY <2>1, <2>2, <2>4
<1>2. KtSpec => [][Step]_ktVars
  <2> HIDE DEF Step
  <2> QED BY Invariant, <1>1, PTL DEF KtSpec
<1> QED BY <1>2 DEF TickWakesTheDue

-----------------------------------------------------------------------------
(* Mutexes.                                                                *)

(* A task in a list of waiting tasks waits for that mutex, and is there    *)
(* once.                                                                   *)
ListsInv ==
  \A m \in Mutexes :
    /\ \A i \in DOMAIN miWaiters[m] : miPc[miWaiters[m][i]] = "wait" /\ wants[miWaiters[m][i]] = m
    /\ \A i, j \in DOMAIN miWaiters[m] : miWaiters[m][i] = miWaiters[m][j] => i = j

(* The list of a mutex is not sorted again when a waiting task inherits a  *)
(* priority; no task in it came with a priority above that of a task ahead *)
(* of it.                                                                  *)
OrderInv ==
  \A m \in Mutexes :
    /\ \A i \in DOMAIN miWaiters[m] : blockedAt[miWaiters[m][i]] <= taskPriority[miWaiters[m][i]]
    /\ \A i, j \in DOMAIN miWaiters[m] :
         i < j => blockedAt[miWaiters[m][j]] <= taskPriority[miWaiters[m][i]]

(* A mutex that is free while tasks wait for it is about to be taken: the  *)
(* one that was woken tries to take it, and is as urgent as any of them.   *)
OneTries(m) ==
  \E v \in MiTasks :
    /\ miPc[v] = "try" /\ wants[v] = m
    /\ \A i \in DOMAIN miWaiters[m] : blockedAt[miWaiters[m][i]] <= taskPriority[v]

WokenInv ==
  \A m \in Mutexes : holder[m] = NoHolder /\ miWaiters[m] # <<>> => OneTries(m)

Held(t) == {m \in Mutexes : holder[m] = t}

HeldInv == \A t \in MiTasks : IsFiniteSet(Held(t))

MiInv ==
  MiTypeOK /\ ListsInv /\ OrderInv /\ WokenInv /\ HeldInv /\ HolderInherits /\ PriorityRestored
-----------------------------------------------------------------------------
(* A list with t before its k-th place, and one without its k-th place.    *)
IsInserted(r, s, k, t) ==
  /\ r \in Seq(MiTasks) /\ Len(r) = Len(s) + 1 /\ k \in 1 .. Len(r)
  /\ \A i \in DOMAIN r : r[i] = IF i < k THEN s[i] ELSE IF i = k THEN t ELSE s[i - 1]
  /\ \A i \in DOMAIN r : i \in Nat /\ (i < k => i \in DOMAIN s) /\ (i > k => i - 1 \in DOMAIN s)

IsShortened(r, s, k) ==
  /\ r \in Seq(MiTasks) /\ Len(r) = Len(s) - 1 /\ k \in DOMAIN s
  /\ \A i \in DOMAIN r : r[i] = s[IF i < k THEN i ELSE i + 1]
  /\ \A i \in DOMAIN r : i \in Nat /\ i \in DOMAIN s /\ i + 1 \in DOMAIN s

LEMMA Joined ==
  ASSUME NEW p \in Seq(MiTasks), NEW q \in Seq(MiTasks)
  PROVE  /\ p \o q \in Seq(MiTasks) /\ Len(p \o q) = Len(p) + Len(q)
         /\ DOMAIN (p \o q) = 1 .. (Len(p) + Len(q))
         /\ Len(p) \in Nat /\ Len(q) \in Nat
         /\ \A i \in 1 .. Len(p) : (p \o q)[i] = p[i]
         /\ \A i \in 1 .. (Len(p) + Len(q)) : i > Len(p) => (p \o q)[i] = q[i - Len(p)]
OBVIOUS

LEMMA Inserted ==
  ASSUME NEW s \in Seq(MiTasks), NEW k \in 1 .. (Len(s) + 1), NEW t \in MiTasks
  PROVE  IsInserted(InsertAt(s, k, t), s, k, t)
<1> DEFINE front == SubSeq(s, 1, k - 1)
           back == SubSeq(s, k, Len(s))
<1>0. k \in Nat /\ Len(s) \in Nat /\ k - 1 \in 0 .. Len(s) /\ DOMAIN s = 1 .. Len(s)
  OBVIOUS
<1>1. /\ front \in Seq(MiTasks) /\ Len(front) = k - 1
      /\ \A i \in 1 .. (k - 1) : front[i] = s[i]
  BY <1>0
<1>2. /\ back \in Seq(MiTasks) /\ Len(back) = Len(s) - k + 1
      /\ \A i \in 1 .. (Len(s) - k + 1) : back[i] = s[k + i - 1]
  <2>1. CASE k = Len(s) + 1
    BY <1>0, <2>1
  <2>2. CASE k # Len(s) + 1
    BY <1>0, <2>2
  <2> QED BY <2>1, <2>2
<1>3. InsertAt(s, k, t) = front \o <<t>> \o back
  BY DEF InsertAt
<1> HIDE DEF front, back
<1> DEFINE upto == front \o <<t>>
           r == upto \o back
<1>a. <<t>> \in Seq(MiTasks) /\ Len(<<t>>) = 1 /\ <<t>>[1] = t
  OBVIOUS
<1>b. /\ upto \in Seq(MiTasks) /\ Len(upto) = k
      /\ \A i \in 1 .. (k - 1) : upto[i] = s[i]
      /\ upto[k] = t
  <2>1. /\ upto \in Seq(MiTasks) /\ Len(upto) = Len(front) + Len(<<t>>)
        /\ \A i \in 1 .. Len(front) : upto[i] = front[i]
        /\ \A i \in 1 .. (Len(front) + Len(<<t>>)) : i > Len(front) => upto[i] = <<t>>[i - Len(front)]
    BY <1>1, <1>a, Joined
  <2>2. Len(upto) = k /\ k \in 1 .. (Len(front) + Len(<<t>>)) /\ k > Len(front) /\ k - Len(front) = 1
    BY <1>0, <1>1, <1>a, <2>1
  <2>3. upto[k] = t
    BY <1>a, <2>1, <2>2
  <2> HIDE DEF upto
  <2> QED BY <1>1, <2>1, <2>2, <2>3
<1> HIDE DEF upto
<1>c. /\ r \in Seq(MiTasks) /\ Len(r) = Len(upto) + Len(back) /\ DOMAIN r = 1 .. (Len(upto) + Len(back))
      /\ \A i \in 1 .. Len(upto) : r[i] = upto[i]
      /\ \A i \in 1 .. (Len(upto) + Len(back)) : i > Len(upto) => r[i] = back[i - Len(upto)]
  BY <1>2, <1>b, Joined
<1> HIDE DEF r
<1>4. r \in Seq(MiTasks) /\ Len(r) = Len(s) + 1 /\ DOMAIN r = 1 .. (Len(s) + 1)
  <2>1. Len(upto) + Len(back) = Len(s) + 1
    BY <1>0, <1>2, <1>b
  <2> QED BY <1>c, <2>1
<1>5. ASSUME NEW i \in 1 .. (Len(s) + 1)
      PROVE  r[i] = IF i < k THEN s[i] ELSE IF i = k THEN t ELSE s[i - 1]
  <2>1. CASE i < k
    <3>1. i \in 1 .. (k - 1) /\ i \in 1 .. Len(upto)
      BY <1>0, <1>b, <2>1
    <3> QED BY <1>b, <1>c, <2>1, <3>1
  <2>2. CASE i = k
    <3>1. k \in 1 .. Len(upto)
      BY <1>0, <1>b
    <3> QED BY <1>0, <1>b, <1>c, <2>2, <3>1
  <2>3. CASE i > k
    <3>0. i \in 1 .. (Len(upto) + Len(back)) /\ i > Len(upto) /\ i - Len(upto) = i - k
      BY <1>0, <1>2, <1>b, <2>3
    <3>1. r[i] = back[i - k]
      BY <1>c, <3>0
    <3>2. back[i - k] = s[i - 1]
      BY <1>0, <1>2, <2>3
    <3> QED BY <1>0, <2>3, <3>1, <3>2
  <2> QED BY <1>0, <2>1, <2>2, <2>3
<1>6. \A i \in 1 .. (Len(s) + 1) : i \in Nat /\ (i < k => i \in DOMAIN s) /\ (i > k => i - 1 \in DOMAIN s)
  BY <1>0
<1>7. InsertAt(s, k, t) = r
  BY <1>3 DEF r, upto
<1>8. k \in 1 .. Len(r)
  BY <1>4
<1> QED BY <1>4, <1>5, <1>6, <1>7, <1>8 DEF IsInserted

LEMMA Shortened ==
  ASSUME NEW s \in Seq(MiTasks), NEW k \in DOMAIN s
  PROVE  /\ IsShortened(RemoveAt(s, k), s, k)
         /\ IsShortened(Tail(s), s, 1) /\ Head(s) = s[1] /\ s # <<>>
<1> DEFINE front == SubSeq(s, 1, k - 1)
           back == SubSeq(s, k + 1, Len(s))
<1>0. k \in Nat /\ Len(s) \in Nat /\ k \in 1 .. Len(s) /\ DOMAIN s = 1 .. Len(s)
  OBVIOUS
<1>1. /\ front \in Seq(MiTasks) /\ Len(front) = k - 1
      /\ \A i \in 1 .. (k - 1) : front[i] = s[i]
  BY <1>0
<1>2. /\ back \in Seq(MiTasks) /\ Len(back) = Len(s) - k
      /\ \A i \in 1 .. (Len(s) - k) : back[i] = s[k + i]
  <2>1. CASE k = Len(s)
    BY <1>0, <2>1
  <2>2. CASE k # Len(s)
    BY <1>0, <2>2
  <2> QED BY <2>1, <2>2
<1>3. RemoveAt(s, k) = front \o back
  BY DEF RemoveAt
<1> HIDE DEF front, back
<1> DEFINE r == front \o back
<1>c. /\ r \in Seq(MiTasks) /\ Len(r) = Len(front) + Len(back) /\ DOMAIN r = 1 .. (Len(front) + Len(back))
      /\ \A i \in 1 .. Len(front) : r[i] = front[i]
      /\ \A i \in 1 .. (Len(front) + Len(back)) : i > Len(front) => r[i] = back[i - Len(front)]
  BY <1>1, <1>2, Joined
<1> HIDE DEF r
<1>4. r \in Seq(MiTasks) /\ Len(r) = Len(s) - 1 /\ DOMAIN r = 1 .. (Len(s) - 1)
  <2>1. Len(front) + Len(back) = Len(s) - 1
    BY <1>0, <1>1, <1>2
  <2> QED BY <1>c, <2>1
<1>5. ASSUME NEW i \in 1 .. (Len(s) - 1)
      PROVE  r[i] = s[IF i < k THEN i ELSE i + 1]
  <2>1. CASE i < k
    BY <1>0, <1>1, <1>c, <2>1
  <2>2. CASE i >= k
    <3> DEFINE j == i - (k - 1)
    <3>0. j \in 1 .. (Len(s) - k) /\ k + j = i + 1
      BY <1>0, <2>2
    <3>1. r[i] = back[j]
      BY <1>0, <1>1, <1>2, <1>c, <2>2
    <3> HIDE DEF j
    <3>2. back[j] = s[i + 1]
      BY <1>2, <3>0
    <3> QED BY <1>0, <2>2, <3>1, <3>2
  <2> QED BY <1>0, <2>1, <2>2
<1>6. \A i \in 1 .. (Len(s) - 1) : i \in Nat /\ i \in DOMAIN s /\ i + 1 \in DOMAIN s
  BY <1>0
<1>7. RemoveAt(s, k) = r
  BY <1>3 DEF r
<1>8. IsShortened(RemoveAt(s, k), s, k)
  <2> QED BY <1>0, <1>4, <1>5, <1>6, <1>7 DEF IsShortened
<1>9. /\ Tail(s) \in Seq(MiTasks) /\ Len(Tail(s)) = Len(s) - 1 /\ DOMAIN Tail(s) = 1 .. (Len(s) - 1)
      /\ \A i \in 1 .. (Len(s) - 1) : Tail(s)[i] = s[i + 1]
      /\ Head(s) = s[1] /\ s # <<>> /\ 1 \in DOMAIN s
  BY <1>0
<1>10. IsShortened(Tail(s), s, 1)
  BY <1>6, <1>9 DEF IsShortened
<1> QED BY <1>8, <1>9, <1>10

(* vListInsert(): the place of t in the list.                              *)
LEMMA InsertPlace ==
  ASSUME MiTypeOK, NEW s \in Seq(MiTasks), NEW t \in MiTasks
  PROVE  \E k \in 1 .. (Len(s) + 1) :
           /\ IsInserted(InsertByPriority(s, t), s, k, t)
           /\ \A i \in DOMAIN s : i < k => taskPriority[t] <= taskPriority[s[i]]
           /\ k \in DOMAIN s => taskPriority[s[k]] < taskPriority[t]
<1> DEFINE lower == {i \in DOMAIN s : taskPriority[s[i]] < taskPriority[t]}
           k == IF lower = {} THEN Len(s) + 1 ELSE Min(lower)
<1>0. /\ taskPriority \in [MiTasks -> Nat] /\ Len(s) \in Nat /\ DOMAIN s = 1 .. Len(s)
      /\ \A i \in DOMAIN s : s[i] \in MiTasks
  BY DEF MiTypeOK
<1>1. InsertByPriority(s, t) = InsertAt(s, k, t)
  BY DEF InsertByPriority
<1>2. lower \in SUBSET Nat /\ \A i \in DOMAIN s : i \notin lower => taskPriority[t] <= taskPriority[s[i]]
  BY <1>0
<1>3. CASE lower = {}
  <2>1. k = Len(s) + 1
    BY <1>3
  <2>2. k \in 1 .. (Len(s) + 1) /\ k \notin DOMAIN s
    BY <1>0, <2>1
  <2>3. \A i \in DOMAIN s : i < k => taskPriority[t] <= taskPriority[s[i]]
    BY <1>2, <1>3
  <2> HIDE DEF k, lower
  <2> QED BY <1>1, <2>2, <2>3, Inserted
<1>4. CASE lower # {}
  <2>1. \E x \in lower : \A y \in lower : x <= y
    <3> HIDE DEF lower
    <3> QED BY <1>2, <1>4, LeastNatural
  <2>2. Min(lower) \in lower /\ \A y \in lower : Min(lower) <= y
    BY <2>1 DEF Min
  <2>3. k = Min(lower)
    BY <1>4
  <2>4. k \in DOMAIN s /\ taskPriority[s[k]] < taskPriority[t] /\ k \in Nat
    BY <1>0, <2>2, <2>3
  <2>5. ASSUME NEW i \in DOMAIN s, i < k PROVE taskPriority[t] <= taskPriority[s[i]]
    <3>1. i \notin lower
      <4> HIDE DEF lower
      <4> QED BY <1>0, <2>2, <2>3, <2>4, <2>5
    <3> QED BY <1>2, <3>1
  <2>6. k \in 1 .. (Len(s) + 1)
    BY <1>0, <2>4
  <2> HIDE DEF k, lower
  <2> QED BY <1>1, <2>4, <2>5, <2>6, Inserted
<1> QED BY <1>3, <1>4

-----------------------------------------------------------------------------
LEMMA MiInitInv == MiInit => MiInv
<1> SUFFICES ASSUME MiInit PROVE MiInv
  OBVIOUS
<1>1. (CHOOSE m \in Mutexes : TRUE) \in Mutexes
  BY MutexAssumption
<1>2. <<>> \in Seq(MiTasks) /\ basePriority \in [MiTasks -> Nat]
  BY MutexAssumption DEF MiInit
<1>3. MiTypeOK
  <2>1. wants \in [MiTasks -> Mutexes]
    BY <1>1 DEF MiInit
  <2>2. miWaiters \in [Mutexes -> Seq(MiTasks)]
    BY <1>2 DEF MiInit
  <2> QED BY <1>2, <2>1, <2>2 DEF MiInit, MiTypeOK
<1>4. \A m \in Mutexes : miWaiters[m] = <<>> /\ DOMAIN miWaiters[m] = {}
  BY DEF MiInit
<1>5. ListsInv /\ OrderInv /\ WokenInv /\ HolderInherits
  BY <1>4 DEF ListsInv, OrderInv, WokenInv, HolderInherits
<1>6. \A t \in MiTasks : Held(t) = {}
  BY MutexAssumption DEF MiInit, Held
<1>7. IsFiniteSet({}) /\ Cardinality({}) = 0
  BY FS_EmptySet
<1>8. HeldInv
  BY <1>6, <1>7 DEF HeldInv
<1>9. PriorityRestored
  <2> SUFFICES ASSUME NEW t \in MiTasks
               PROVE  /\ mutexesHeld[t] = Cardinality({m \in Mutexes : holder[m] = t})
                      /\ taskPriority[t] = basePriority[t] /\ taskPriority[t] >= basePriority[t]
    BY DEF PriorityRestored
  <2>1. {m \in Mutexes : holder[m] = t} = {}
    BY <1>6 DEF Held
  <2>2. basePriority[t] \in Nat /\ taskPriority[t] = basePriority[t] /\ mutexesHeld[t] = 0
    BY <1>2 DEF MiInit
  <2> QED BY <1>7, <2>1, <2>2
<1> QED BY <1>3, <1>5, <1>8, <1>9 DEF MiInv

(* t goes on to another place of its program, and nothing else changes.    *)
LEMMA MiMove ==
  ASSUME MiInv, NEW t \in MiTasks, miPc[t] # "wait",
         miPc[t] = "try" => holder[wants[t]] # NoHolder,
         UNCHANGED <<basePriority, taskPriority, mutexesHeld, holder, miWaiters, blockedAt>>,
         miPc' \in [MiTasks -> {"run", "try", "block", "wait", "sleep"}],
         wants' \in [MiTasks -> Mutexes],
         \A u \in MiTasks \ {t} : miPc'[u] = miPc[u] /\ wants'[u] = wants[u]
  PROVE  MiInv'
<1>0. MiTypeOK /\ ListsInv /\ OrderInv /\ WokenInv /\ HeldInv /\ HolderInherits /\ PriorityRestored
  BY DEF MiInv
<1>1. MiTypeOK'
  BY <1>0 DEF MiTypeOK
<1>2. ListsInv'
  <2>1. ASSUME NEW m \in Mutexes, NEW i \in DOMAIN miWaiters[m]
        PROVE  miPc'[miWaiters[m][i]] = "wait" /\ wants'[miWaiters[m][i]] = m
    <3>1. miWaiters[m][i] \in MiTasks
      BY <1>0 DEF MiTypeOK
    <3>2. miPc[miWaiters[m][i]] = "wait" /\ wants[miWaiters[m][i]] = m
      BY <1>0 DEF ListsInv
    <3> QED BY <3>1, <3>2
  <2> QED BY <1>0, <2>1 DEF ListsInv
<1>3. OrderInv' /\ HolderInherits'
  BY <1>0 DEF OrderInv, HolderInherits
<1>4. WokenInv'
  <2> SUFFICES ASSUME NEW m \in Mutexes, holder[m] = NoHolder, miWaiters[m] # <<>> PROVE OneTries(m)'
    BY DEF WokenInv
  <2>1. PICK v \in MiTasks :
          /\ miPc[v] = "try" /\ wants[v] = m
          /\ \A i \in DOMAIN miWaiters[m] : blockedAt[miWaiters[m][i]] <= taskPriority[v]
    BY <1>0 DEF WokenInv, OneTries
  <2>2. miPc'[v] = "try" /\ wants'[v] = m
    BY <2>1
  <2> QED BY <2>1, <2>2 DEF OneTries
<1>5. HeldInv' /\ PriorityRestored'
  BY <1>0 DEF HeldInv, Held, PriorityRestored
<1> QED BY <1>1, <1>2, <1>3, <1>4, <1>5 DEF MiInv

LEMMA MiTake ==
  ASSUME MiInv, NEW t \in MiTasks, Take(t)
  PROVE  MiInv'
<1> DEFINE w == wants[t]
<1>0. MiTypeOK /\ ListsInv /\ OrderInv /\ WokenInv /\ HeldInv /\ HolderInherits /\ PriorityRestored
  BY DEF MiInv
<1>1. /\ UNCHANGED <<basePriority, taskPriority, miWaiters, wants, blockedAt>>
      /\ IsCurrent(t) /\ miPc[t] = "try" /\ holder[w] = NoHolder /\ w \in Mutexes
      /\ holder' = [holder EXCEPT ![w] = t]
      /\ mutexesHeld' = [mutexesHeld EXCEPT ![t] = @ + 1]
      /\ miPc' = [miPc EXCEPT ![t] = "run"]
  BY <1>0 DEF Take, IsAt, MiTypeOK
<1> HIDE DEF w
<1>2. /\ holder \in [Mutexes -> MiTasks \cup {NoHolder}] /\ mutexesHeld \in [MiTasks -> Nat]
      /\ miPc \in [MiTasks -> {"run", "try", "block", "wait", "sleep"}]
      /\ miWaiters \in [Mutexes -> Seq(MiTasks)] /\ NoHolder \notin MiTasks
  BY <1>0, MutexAssumption DEF MiTypeOK
<1>3. MiTypeOK'
  <2>1. /\ holder' \in [Mutexes -> MiTasks \cup {NoHolder}] /\ mutexesHeld' \in [MiTasks -> Nat]
        /\ miPc' \in [MiTasks -> {"run", "try", "block", "wait", "sleep"}]
    BY <1>1, <1>2
  <2> QED BY <1>0, <1>1, <2>1 DEF MiTypeOK
<1>4. ListsInv'
  BY <1>0, <1>1, <1>2 DEF ListsInv
<1>5. OrderInv'
  BY <1>0, <1>1 DEF OrderInv
<1>6. ASSUME miWaiters[w] # <<>>
      PROVE  \A i \in DOMAIN miWaiters[w] : blockedAt[miWaiters[w][i]] <= taskPriority[t]
  <2>1. PICK v \in MiTasks :
          /\ miPc[v] = "try" /\ wants[v] = w
          /\ \A i \in DOMAIN miWaiters[w] : blockedAt[miWaiters[w][i]] <= taskPriority[v]
    BY <1>0, <1>1, <1>6 DEF WokenInv, OneTries
  <2>2. taskPriority[v] <= taskPriority[t]
    BY <1>1, <2>1 DEF IsCurrent, CanRun
  <2>3. taskPriority[v] \in Nat /\ taskPriority[t] \in Nat
    BY <1>0 DEF MiTypeOK
  <2>4. ASSUME NEW i \in DOMAIN miWaiters[w] PROVE blockedAt[miWaiters[w][i]] <= taskPriority[t]
    <3>1. miWaiters[w][i] \in MiTasks
      BY <1>1, <1>2
    <3>2. blockedAt[miWaiters[w][i]] \in Nat
      BY <1>0, <3>1 DEF MiTypeOK
    <3> QED BY <2>1, <2>2, <2>3, <3>2
  <2> QED BY <2>4
<1>7. HolderInherits'
  <2> SUFFICES ASSUME NEW m \in Mutexes, holder'[m] # NoHolder, NEW i \in DOMAIN miWaiters[m]
               PROVE  blockedAt[miWaiters[m][i]] <= taskPriority[holder'[m]]
    BY <1>1 DEF HolderInherits
  <2>1. CASE m = w
    <3>1. miWaiters[w] # <<>>
      BY <2>1
    <3>2. holder'[m] = t
      BY <1>1, <1>2, <2>1
    <3> QED BY <1>6, <2>1, <3>1, <3>2
  <2>2. CASE m # w
    <3>1. holder'[m] = holder[m]
      BY <1>1, <1>2, <2>2
    <3> QED BY <1>0, <3>1 DEF HolderInherits
  <2> QED BY <2>1, <2>2
<1>8. WokenInv'
  <2> SUFFICES ASSUME NEW m \in Mutexes, holder'[m] = NoHolder, miWaiters[m] # <<>> PROVE OneTries(m)'
    BY <1>1 DEF WokenInv
  <2>1. m # w /\ holder[m] = NoHolder
    BY <1>1, <1>2
  <2>2. PICK v \in MiTasks :
          /\ miPc[v] = "try" /\ wants[v] = m
          /\ \A i \in DOMAIN miWaiters[m] : blockedAt[miWaiters[m][i]] <= taskPriority[v]
    BY <1>0, <2>1 DEF WokenInv, OneTries
  <2>3. v # t
    BY <2>1, <2>2 DEF w
  <2>4. miPc'[v] = "try"
    BY <1>1, <1>2, <2>2, <2>3
  <2> QED BY <1>1, <2>2, <2>4 DEF OneTries
<1>9. /\ Held(t)' = Held(t) \cup {w} /\ w \notin Held(t)
      /\ \A u \in MiTasks \ {t} : Held(u)' = Held(u)
  BY <1>1, <1>2 DEF Held
<1>10. /\ IsFiniteSet(Held(t)') /\ Cardinality(Held(t)') = Cardinality(Held(t)) + 1
  <2>1. IsFiniteSet(Held(t))
    BY <1>0 DEF HeldInv
  <2> QED BY <1>9, <2>1, FS_AddElement
<1>11. HeldInv'
  BY <1>0, <1>9, <1>10 DEF HeldInv
<1>12. PriorityRestored'
  <2> SUFFICES ASSUME NEW u \in MiTasks
               PROVE  /\ mutexesHeld'[u] = Cardinality(Held(u)')
                      /\ (\A m \in Mutexes : holder'[m] # u) => taskPriority[u] = basePriority[u]
                      /\ taskPriority[u] >= basePriority[u]
    BY <1>1 DEF PriorityRestored, Held
  <2>1. /\ mutexesHeld[u] = Cardinality(Held(u))
        /\ (\A m \in Mutexes : holder[m] # u) => taskPriority[u] = basePriority[u]
        /\ taskPriority[u] >= basePriority[u]
    BY <1>0 DEF PriorityRestored, Held
  <2>2. CASE u = t
    <3>1. mutexesHeld'[t] = mutexesHeld[t] + 1
      BY <1>1, <1>2
    <3>2. holder'[w] = t
      BY <1>1, <1>2
    <3> QED BY <1>1, <1>10, <2>1, <2>2, <3>1, <3>2
  <2>3. CASE u # t
    <3>1. mutexesHeld'[u] = mutexesHeld[u]
      BY <1>1, <1>2, <2>3
    <3>2. \A m \in Mutexes : holder[m] = u => holder'[m] = u
      BY <1>1, <1>2
    <3> QED BY <1>9, <2>1, <2>3, <3>1, <3>2
  <2> QED BY <2>2, <2>3
<1> QED BY <1>3, <1>4, <1>5, <1>7, <1>8, <1>11, <1>12 DEF MiInv

(* t begins to wait, and the holder inherits its priority.                 *)
LEMMA MiBlock ==
  ASSUME MiInv, NEW t \in MiTasks, Block(t)
  PROVE  MiInv'
<1> DEFINE w == wants[t]
           s == miWaiters[w]
           h == holder[w]
           r == InsertByPriority(s, t)
<1>0. MiTypeOK /\ ListsInv /\ OrderInv /\ WokenInv /\ HeldInv /\ HolderInherits /\ PriorityRestored
  BY DEF MiInv
<1>1. /\ UNCHANGED <<basePriority, mutexesHeld, holder, wants>>
      /\ miPc[t] = "block" /\ h # NoHolder /\ w \in Mutexes
      /\ Inherit(h, taskPriority[t])
      /\ miWaiters' = [miWaiters EXCEPT ![w] = r]
      /\ blockedAt' = [blockedAt EXCEPT ![t] = taskPriority[t]]
      /\ miPc' = [miPc EXCEPT ![t] = "wait"]
  BY <1>0 DEF Block, IsAt, MiTypeOK
<1>2. /\ holder \in [Mutexes -> MiTasks \cup {NoHolder}] /\ h \in MiTasks
      /\ taskPriority \in [MiTasks -> Nat] /\ blockedAt \in [MiTasks -> Nat] /\ basePriority \in [MiTasks -> Nat]
      /\ miPc \in [MiTasks -> {"run", "try", "block", "wait", "sleep"}]
      /\ miWaiters \in [Mutexes -> Seq(MiTasks)] /\ NoHolder \notin MiTasks
      /\ s \in Seq(MiTasks)
  BY <1>0, <1>1, MutexAssumption DEF MiTypeOK
<1>3. PICK k \in 1 .. (Len(s) + 1) :
        /\ IsInserted(r, s, k, t)
        /\ \A i \in DOMAIN s : i < k => taskPriority[t] <= taskPriority[s[i]]
        /\ k \in DOMAIN s => taskPriority[s[k]] < taskPriority[t]
  <2> HIDE DEF w, s
  <2> QED BY <1>0, <1>2, InsertPlace
<1>4. /\ r \in Seq(MiTasks) /\ k \in Nat
      /\ \A i \in DOMAIN r :
           /\ i \in Nat
           /\ i < k => r[i] = s[i] /\ i \in DOMAIN s
           /\ i = k => r[i] = t
           /\ i > k => r[i] = s[i - 1] /\ i - 1 \in DOMAIN s
  <2> HIDE DEF r, s
  <2> QED BY <1>3 DEF IsInserted
<1> HIDE DEF r, s
<1>5. /\ taskPriority' \in [MiTasks -> Nat]
      /\ \A u \in MiTasks : taskPriority[u] <= taskPriority'[u] /\ (u # h => taskPriority'[u] = taskPriority[u])
      /\ taskPriority[t] <= taskPriority'[h]
  <2>1. CASE taskPriority[h] < taskPriority[t]
    <3> HIDE DEF h
    <3>1. taskPriority' = [taskPriority EXCEPT ![h] = taskPriority[t]]
      BY <1>1, <2>1 DEF Inherit
    <3>2. ASSUME NEW u \in MiTasks
          PROVE  taskPriority[u] <= taskPriority'[u] /\ (u # h => taskPriority'[u] = taskPriority[u])
      <4>1. taskPriority[u] \in Nat
        BY <1>2
      <4> QED BY <1>2, <2>1, <3>1, <4>1
    <3> QED BY <1>2, <3>1, <3>2
  <2>2. CASE ~ (taskPriority[h] < taskPriority[t])
    <3> HIDE DEF h
    <3>1. taskPriority' = taskPriority
      BY <1>1, <2>2 DEF Inherit
    <3>2. \A u \in MiTasks : taskPriority[u] \in Nat
      BY <1>2
    <3> QED BY <1>2, <2>2, <3>1, <3>2
  <2> QED BY <2>1, <2>2
<1>6. MiTypeOK'
  <2>1. /\ miWaiters' \in [Mutexes -> Seq(MiTasks)] /\ blockedAt' \in [MiTasks -> Nat]
        /\ miPc' \in [MiTasks -> {"run", "try", "block", "wait", "sleep"}]
    BY <1>1, <1>2, <1>4
  <2> QED BY <1>0, <1>1, <1>5, <2>1 DEF MiTypeOK
<1>7. /\ \A m \in Mutexes \ {w} : miWaiters'[m] = miWaiters[m]
      /\ miWaiters'[w] = r
      /\ \A u \in MiTasks \ {t} : miPc'[u] = miPc[u] /\ blockedAt'[u] = blockedAt[u]
      /\ miPc'[t] = "wait" /\ blockedAt'[t] = taskPriority[t]
  BY <1>1, <1>2
<1>8. ASSUME NEW m \in Mutexes, NEW i \in DOMAIN miWaiters[m]
      PROVE  /\ miWaiters[m][i] \in MiTasks /\ miWaiters[m][i] # t
             /\ miPc[miWaiters[m][i]] = "wait" /\ wants[miWaiters[m][i]] = m
  <2>1. miWaiters[m][i] \in MiTasks
    BY <1>2
  <2> QED BY <1>0, <1>1, <2>1 DEF ListsInv
<1>9. \A i \in DOMAIN s : s[i] \in MiTasks /\ s[i] # t /\ miPc[s[i]] = "wait" /\ wants[s[i]] = w
  BY <1>1, <1>8 DEF s
<1>a. /\ \A i, j \in DOMAIN s : s[i] = s[j] => i = j
      /\ \A i \in DOMAIN s : blockedAt[s[i]] <= taskPriority[s[i]]
      /\ \A i, j \in DOMAIN s : i < j => blockedAt[s[j]] <= taskPriority[s[i]]
      /\ \A i \in DOMAIN s : blockedAt[s[i]] <= taskPriority[h]
  BY <1>0, <1>1 DEF ListsInv, OrderInv, HolderInherits, s
<1>b. \A m \in Mutexes \ {w} : \A i \in DOMAIN miWaiters'[m] :
        /\ miWaiters'[m][i] = miWaiters[m][i] /\ i \in DOMAIN miWaiters[m]
        /\ blockedAt'[miWaiters[m][i]] = blockedAt[miWaiters[m][i]]
  BY <1>7, <1>8
<1>c. ListsInv'
  <2>1. ASSUME NEW i \in DOMAIN r PROVE miPc'[r[i]] = "wait" /\ wants[r[i]] = w
    <3>1. CASE i = k
      BY <1>4, <1>7, <3>1
    <3>2. CASE i # k
      BY <1>4, <1>7, <1>9, <3>2
    <3> QED BY <3>1, <3>2
  <2>2. ASSUME NEW i \in DOMAIN r, NEW j \in DOMAIN r, r[i] = r[j] PROVE i = j
    <3>1. CASE i = k \/ j = k
      BY <1>4, <1>9, <2>2, <3>1
    <3>2. CASE i # k /\ j # k
      BY <1>4, <1>a, <2>2, <3>2
    <3> QED BY <3>1, <3>2
  <2>3. ASSUME NEW m \in Mutexes, m # w, NEW i \in DOMAIN miWaiters'[m]
        PROVE  miPc'[miWaiters'[m][i]] = "wait" /\ wants[miWaiters'[m][i]] = m
    BY <1>7, <1>8, <1>b, <2>3
  <2>4. ASSUME NEW m \in Mutexes, m # w, NEW i \in DOMAIN miWaiters'[m], NEW j \in DOMAIN miWaiters'[m],
               miWaiters'[m][i] = miWaiters'[m][j]
        PROVE  i = j
    BY <1>0, <1>7, <2>4 DEF ListsInv
  <2> HIDE DEF w
  <2> QED BY <1>1, <1>7, <2>1, <2>2, <2>3, <2>4 DEF ListsInv
<1>d. OrderInv'
  <2>0. \A u \in MiTasks : taskPriority[u] \in Nat /\ taskPriority'[u] \in Nat /\ blockedAt[u] \in Nat
    BY <1>2, <1>5
  <2>1. ASSUME NEW i \in DOMAIN r PROVE blockedAt'[r[i]] <= taskPriority'[r[i]]
    <3>1. CASE i = k
      BY <1>4, <1>5, <1>7, <3>1
    <3>2. CASE i # k
      <4>1. PICK p \in DOMAIN s : r[i] = s[p]
        BY <1>4, <3>2
      <4> QED BY <1>5, <1>7, <1>9, <1>a, <2>0, <4>1
    <3> QED BY <3>1, <3>2
  <2>2. ASSUME NEW i \in DOMAIN r, NEW j \in DOMAIN r, i < j PROVE blockedAt'[r[j]] <= taskPriority'[r[i]]
    <3>1. CASE i = k
      <4>1. r[i] = t /\ r[j] = s[j - 1] /\ j - 1 \in DOMAIN s /\ k <= j - 1
        BY <1>4, <2>2, <3>1
      <4>2. k \in DOMAIN s
        <5>1. DOMAIN s = 1 .. Len(s) /\ Len(s) \in Nat
          BY <1>2
        <5> QED BY <4>1, <5>1, <1>4
      <4>3. blockedAt[s[j - 1]] <= taskPriority[s[k]]
        <5>1. k = j - 1 \/ k < j - 1
          BY <1>4, <4>1
        <5> QED BY <1>a, <4>1, <4>2, <5>1
      <4>4. taskPriority[s[k]] < taskPriority[t] /\ taskPriority[t] <= taskPriority'[t]
        BY <1>3, <1>5, <4>2
      <4>5. s[k] \in MiTasks /\ s[j - 1] \in MiTasks /\ s[j - 1] # t
        BY <1>9, <4>1, <4>2
      <4>6. blockedAt'[r[j]] = blockedAt[s[j - 1]]
        BY <1>7, <4>1, <4>5
      <4> QED BY <2>0, <4>1, <4>3, <4>4, <4>5, <4>6
    <3>2. CASE j = k
      <4>1. r[j] = t /\ r[i] = s[i] /\ i \in DOMAIN s
        BY <1>4, <2>2, <3>2
      <4>2. taskPriority[t] <= taskPriority[s[i]]
        BY <1>3, <2>2, <3>2, <4>1
      <4>3. s[i] \in MiTasks
        BY <1>9, <4>1
      <4> QED BY <1>5, <1>7, <2>0, <4>1, <4>2, <4>3
    <3>3. CASE i # k /\ j # k
      <4>1. PICK p \in DOMAIN s, q \in DOMAIN s : r[i] = s[p] /\ r[j] = s[q] /\ p < q
        BY <1>4, <2>2, <3>3
      <4> QED BY <1>5, <1>7, <1>9, <1>a, <2>0, <4>1
    <3> QED BY <3>1, <3>2, <3>3
  <2>3. ASSUME NEW m \in Mutexes, m # w, NEW i \in DOMAIN miWaiters'[m]
        PROVE  blockedAt'[miWaiters'[m][i]] <= taskPriority'[miWaiters'[m][i]]
    <3>1. /\ miWaiters'[m][i] = miWaiters[m][i] /\ i \in DOMAIN miWaiters[m]
          /\ blockedAt'[miWaiters[m][i]] = blockedAt[miWaiters[m][i]]
      BY <1>b, <2>3
    <3>2. blockedAt[miWaiters[m][i]] <= taskPriority[miWaiters[m][i]] /\ miWaiters[m][i] \in MiTasks
      BY <1>0, <1>8, <3>1 DEF OrderInv
    <3> QED BY <1>5, <2>0, <3>1, <3>2
  <2>4. ASSUME NEW m \in Mutexes, m # w, NEW i \in DOMAIN miWaiters'[m], NEW j \in DOMAIN miWaiters'[m], i < j
        PROVE  blockedAt'[miWaiters'[m][j]] <= taskPriority'[miWaiters'[m][i]]
    <3>1. /\ miWaiters'[m][i] = miWaiters[m][i] /\ i \in DOMAIN miWaiters[m]
          /\ miWaiters'[m][j] = miWaiters[m][j] /\ j \in DOMAIN miWaiters[m]
          /\ blockedAt'[miWaiters[m][j]] = blockedAt[miWaiters[m][j]]
      BY <1>b, <2>4
    <3>2. /\ blockedAt[miWaiters[m][j]] <= taskPriority[miWaiters[m][i]]
          /\ miWaiters[m][i] \in MiTasks /\ miWaiters[m][j] \in MiTasks
      BY <1>0, <1>8, <2>4, <3>1 DEF OrderInv
    <3> QED BY <1>5, <2>0, <3>1, <3>2
  <2> HIDE DEF w
  <2> QED BY <1>1, <1>7, <2>1, <2>2, <2>3, <2>4 DEF OrderInv
<1>e. HolderInherits'
  <2>0. \A u \in MiTasks : taskPriority[u] \in Nat /\ taskPriority'[u] \in Nat /\ blockedAt[u] \in Nat
    BY <1>2, <1>5
  <2>1. ASSUME NEW i \in DOMAIN r PROVE blockedAt'[r[i]] <= taskPriority'[h]
    <3>1. CASE i = k
      <4>1. r[i] = t
        BY <1>4, <3>1
      <4>2. blockedAt'[t] = taskPriority[t] /\ taskPriority[t] <= taskPriority'[h]
        BY <1>5, <1>7
      <4> QED BY <4>1, <4>2
    <3>2. CASE i # k
      <4>1. PICK p \in DOMAIN s : r[i] = s[p]
        BY <1>4, <3>2
      <4>2. blockedAt'[r[i]] = blockedAt[s[p]] /\ s[p] \in MiTasks
        BY <1>7, <1>9, <4>1
      <4>3. blockedAt[s[p]] <= taskPriority[h] /\ taskPriority[h] <= taskPriority'[h]
        BY <1>2, <1>5, <1>a
      <4>4. blockedAt[s[p]] \in Nat /\ taskPriority[h] \in Nat /\ taskPriority'[h] \in Nat
        BY <1>2, <2>0, <4>2
      <4> HIDE DEF h
      <4> QED BY <4>2, <4>3, <4>4
    <3> QED BY <3>1, <3>2
  <2>2. ASSUME NEW m \in Mutexes, m # w, holder[m] # NoHolder, NEW i \in DOMAIN miWaiters'[m]
        PROVE  blockedAt'[miWaiters'[m][i]] <= taskPriority'[holder[m]]
    <3>1. /\ miWaiters'[m][i] = miWaiters[m][i] /\ i \in DOMAIN miWaiters[m]
          /\ blockedAt'[miWaiters[m][i]] = blockedAt[miWaiters[m][i]]
      BY <1>b, <2>2
    <3>2. /\ blockedAt[miWaiters[m][i]] <= taskPriority[holder[m]] /\ holder[m] \in MiTasks
          /\ miWaiters[m][i] \in MiTasks
      BY <1>0, <1>2, <1>8, <2>2, <3>1 DEF HolderInherits
    <3> QED BY <1>5, <2>0, <3>1, <3>2
  <2>3. w \in Mutexes /\ h = holder[w] /\ holder' = holder /\ miWaiters'[w] = r
    BY <1>1, <1>7
  <2> HIDE DEF w, h
  <2> QED BY <2>1, <2>2, <2>3 DEF HolderInherits
<1>f. WokenInv'
  <2> SUFFICES ASSUME NEW m \in Mutexes, holder[m] = NoHolder, miWaiters'[m] # <<>> PROVE OneTries(m)'
    BY <1>1 DEF WokenInv
  <2>1. m # w
    BY <1>1
  <2>2. miWaiters'[m] = miWaiters[m]
    BY <1>7, <2>1
  <2>3. PICK v \in MiTasks :
          /\ miPc[v] = "try" /\ wants[v] = m
          /\ \A i \in DOMAIN miWaiters[m] : blockedAt[miWaiters[m][i]] <= taskPriority[v]
    BY <1>0, <2>2 DEF WokenInv, OneTries
  <2>4. v # t /\ miPc'[v] = "try"
    BY <1>1, <1>7, <2>3
  <2>5. ASSUME NEW i \in DOMAIN miWaiters'[m] PROVE blockedAt'[miWaiters'[m][i]] <= taskPriority'[v]
    <3>1. /\ miWaiters'[m][i] = miWaiters[m][i] /\ i \in DOMAIN miWaiters[m]
          /\ blockedAt'[miWaiters[m][i]] = blockedAt[miWaiters[m][i]]
      BY <1>b, <2>1
    <3>2. miWaiters[m][i] \in MiTasks
      BY <1>8, <3>1
    <3>3. blockedAt[miWaiters[m][i]] \in Nat /\ taskPriority[v] \in Nat /\ taskPriority'[v] \in Nat
      BY <1>2, <1>5, <3>2
    <3> QED BY <1>5, <2>3, <3>1, <3>3
  <2> QED BY <1>1, <2>3, <2>4, <2>5 DEF OneTries
<1>g. HeldInv'
  BY <1>0, <1>1 DEF HeldInv, Held
<1>h. PriorityRestored'
  <2> SUFFICES ASSUME NEW u \in MiTasks
               PROVE  /\ mutexesHeld[u] = Cardinality({m \in Mutexes : holder[m] = u})
                      /\ (\A m \in Mutexes : holder[m] # u) => taskPriority'[u] = basePriority[u]
                      /\ taskPriority'[u] >= basePriority[u]
    BY <1>1 DEF PriorityRestored
  <2>1. /\ mutexesHeld[u] = Cardinality({m \in Mutexes : holder[m] = u})
        /\ (\A m \in Mutexes : holder[m] # u) => taskPriority[u] = basePriority[u]
        /\ taskPriority[u] >= basePriority[u]
    BY <1>0 DEF PriorityRestored
  <2>2. taskPriority[u] \in Nat /\ taskPriority'[u] \in Nat /\ basePriority[u] \in Nat
        /\ taskPriority[u] <= taskPriority'[u]
    BY <1>2, <1>5
  <2>3. (\A m \in Mutexes : holder[m] # u) => u # h
    BY <1>1
  <2> QED BY <1>5, <2>1, <2>2, <2>3
<1> QED BY <1>6, <1>c, <1>d, <1>e, <1>f, <1>g, <1>h DEF MiInv

-----------------------------------------------------------------------------
(* Where a task of a shortened list was before.                            *)
Was(i, k) == IF i < k THEN i ELSE i + 1

LEMMA ShortList ==
  ASSUME MiInv, NEW m \in Mutexes, NEW k \in DOMAIN miWaiters[m],
         NEW r, IsShortened(r, miWaiters[m], k)
  PROVE  /\ \A i \in DOMAIN r :
              /\ Was(i, k) \in DOMAIN miWaiters[m] /\ r[i] = miWaiters[m][Was(i, k)]
              /\ r[i] \in MiTasks /\ r[i] # miWaiters[m][k]
         /\ \A i, j \in DOMAIN r : (i < j => Was(i, k) < Was(j, k)) /\ (r[i] = r[j] => i = j)
<1>1. k \in Nat /\ miWaiters[m] \in Seq(MiTasks)
  BY DEF MiInv, MiTypeOK
<1>2. \A i \in DOMAIN r : i \in Nat /\ Was(i, k) \in DOMAIN miWaiters[m] /\ r[i] = miWaiters[m][Was(i, k)]
  BY DEF IsShortened, Was
<1>3. \A i \in DOMAIN r : Was(i, k) # k
  BY <1>1, <1>2 DEF Was
<1>4. \A i, j \in DOMAIN miWaiters[m] : miWaiters[m][i] = miWaiters[m][j] => i = j
  BY DEF MiInv, ListsInv
<1>5. \A i \in DOMAIN r : r[i] \in MiTasks /\ r[i] # miWaiters[m][k]
  BY <1>1, <1>2, <1>3, <1>4
<1>6. \A i, j \in DOMAIN r : (i < j => Was(i, k) < Was(j, k)) /\ (Was(i, k) = Was(j, k) => i = j)
  BY <1>1, <1>2 DEF Was
<1>7. \A i, j \in DOMAIN r : r[i] = r[j] => i = j
  BY <1>2, <1>4, <1>6
<1> QED BY <1>2, <1>5, <1>6, <1>7

(* A task leaves the list of the mutex w, and tries again; it is u that    *)
(* was at the k-th place.  No task's priority changes but that of a task   *)
(* that runs.                                                              *)
LEMMA MiLeave ==
  ASSUME MiInv, NEW w \in Mutexes, NEW k \in DOMAIN miWaiters[w],
         IsShortened(miWaiters'[w], miWaiters[w], k),
         \A m \in Mutexes \ {w} : miWaiters'[m] = miWaiters[m],
         miWaiters' \in [Mutexes -> Seq(MiTasks)],
         miPc' = [miPc EXCEPT ![miWaiters[w][k]] = "try"],
         UNCHANGED <<basePriority, wants, blockedAt>>,
         \A u \in MiTasks : miPc[u] \in {"wait", "try"} => taskPriority'[u] = taskPriority[u]
  PROVE  /\ ListsInv' /\ OrderInv'
         /\ \A m \in Mutexes : \A i \in DOMAIN miWaiters'[m] :
              \E j \in DOMAIN miWaiters[m] : miWaiters'[m][i] = miWaiters[m][j]
         /\ \A v \in MiTasks : miPc[v] = "try" => miPc'[v] = "try"
<1> DEFINE r == miWaiters'[w]
           z == miWaiters[w][k]
<1>0. MiTypeOK /\ ListsInv /\ OrderInv
  BY DEF MiInv
<1>1. /\ miPc \in [MiTasks -> {"run", "try", "block", "wait", "sleep"}]
      /\ miWaiters \in [Mutexes -> Seq(MiTasks)]
  BY <1>0 DEF MiTypeOK
<1>2. z \in MiTasks /\ miPc[z] = "wait" /\ wants[z] = w
  BY <1>0, <1>1 DEF ListsInv
<1>3. /\ \A i \in DOMAIN r :
           /\ Was(i, k) \in DOMAIN miWaiters[w] /\ r[i] = miWaiters[w][Was(i, k)]
           /\ r[i] \in MiTasks /\ r[i] # z
      /\ \A i, j \in DOMAIN r : (i < j => Was(i, k) < Was(j, k)) /\ (r[i] = r[j] => i = j)
  <2>1. IsShortened(r, miWaiters[w], k)
    OBVIOUS
  <2> HIDE DEF r
  <2> QED BY <2>1, ShortList
<1> HIDE DEF r
<1>4. ASSUME NEW m \in Mutexes, NEW i \in DOMAIN miWaiters[m]
      PROVE  /\ miWaiters[m][i] \in MiTasks /\ miPc[miWaiters[m][i]] = "wait" /\ wants[miWaiters[m][i]] = m
             /\ taskPriority'[miWaiters[m][i]] = taskPriority[miWaiters[m][i]]
             /\ m # w => miPc'[miWaiters[m][i]] = "wait"
  <2>1. miWaiters[m][i] \in MiTasks
    BY <1>1
  <2>2. miPc[miWaiters[m][i]] = "wait" /\ wants[miWaiters[m][i]] = m
    BY <1>0 DEF ListsInv
  <2>3. ASSUME m # w PROVE miPc'[miWaiters[m][i]] = "wait"
    <3>1. miWaiters[m][i] # z
      BY <1>2, <2>2, <2>3
    <3> HIDE DEF z
    <3>2. miPc' = [miPc EXCEPT ![z] = "try"]
      BY DEF z
    <3> QED BY <1>1, <2>1, <2>2, <3>1, <3>2
  <2> QED BY <2>1, <2>2, <2>3
<1>5. ASSUME NEW i \in DOMAIN r
      PROVE  /\ miPc'[r[i]] = "wait" /\ wants[r[i]] = w
             /\ taskPriority'[r[i]] = taskPriority[r[i]]
  <2>1. r[i] # z /\ r[i] = miWaiters[w][Was(i, k)] /\ Was(i, k) \in DOMAIN miWaiters[w]
    BY <1>3
  <2>2. miPc[r[i]] = "wait" /\ wants[r[i]] = w /\ r[i] \in MiTasks /\ taskPriority'[r[i]] = taskPriority[r[i]]
    BY <1>4, <2>1
  <2> HIDE DEF z
  <2>3. miPc' = [miPc EXCEPT ![z] = "try"]
    BY DEF z
  <2> QED BY <1>1, <2>1, <2>2, <2>3
<1>6. r = miWaiters'[w]
  BY DEF r
<1>7. ListsInv'
  <2>1. ASSUME NEW m \in Mutexes, NEW i \in DOMAIN miWaiters'[m]
        PROVE  miPc'[miWaiters'[m][i]] = "wait" /\ wants'[miWaiters'[m][i]] = m
    BY <1>4, <1>5, <1>6
  <2>2. ASSUME NEW m \in Mutexes, NEW i \in DOMAIN miWaiters'[m], NEW j \in DOMAIN miWaiters'[m],
               miWaiters'[m][i] = miWaiters'[m][j]
        PROVE  i = j
    BY <1>0, <1>3, <1>6, <2>2 DEF ListsInv
  <2> QED BY <2>1, <2>2 DEF ListsInv
<1>8. OrderInv'
  <2>1. ASSUME NEW m \in Mutexes, NEW i \in DOMAIN miWaiters'[m]
        PROVE  blockedAt'[miWaiters'[m][i]] <= taskPriority'[miWaiters'[m][i]]
    <3>1. CASE m = w
      <4>1. r[i] = miWaiters[w][Was(i, k)] /\ Was(i, k) \in DOMAIN miWaiters[w] /\ taskPriority'[r[i]] = taskPriority[r[i]]
        BY <1>3, <1>5, <1>6, <3>1
      <4>2. blockedAt[miWaiters[w][Was(i, k)]] <= taskPriority[miWaiters[w][Was(i, k)]]
        BY <1>0, <4>1 DEF OrderInv
      <4> QED BY <1>6, <3>1, <4>1, <4>2
    <3>2. CASE m # w
      BY <1>0, <1>4, <3>2 DEF OrderInv
    <3> QED BY <3>1, <3>2
  <2>2. ASSUME NEW m \in Mutexes, NEW i \in DOMAIN miWaiters'[m], NEW j \in DOMAIN miWaiters'[m], i < j
        PROVE  blockedAt'[miWaiters'[m][j]] <= taskPriority'[miWaiters'[m][i]]
    <3>1. CASE m = w
      <4>1. /\ r[i] = miWaiters[w][Was(i, k)] /\ Was(i, k) \in DOMAIN miWaiters[w]
            /\ r[j] = miWaiters[w][Was(j, k)] /\ Was(j, k) \in DOMAIN miWaiters[w]
            /\ Was(i, k) < Was(j, k) /\ taskPriority'[r[i]] = taskPriority[r[i]]
        BY <1>3, <1>5, <1>6, <2>2, <3>1
      <4>2. blockedAt[miWaiters[w][Was(j, k)]] <= taskPriority[miWaiters[w][Was(i, k)]]
        BY <1>0, <4>1 DEF OrderInv
      <4> QED BY <1>6, <3>1, <4>1, <4>2
    <3>2. CASE m # w
      BY <1>0, <1>4, <2>2, <3>2 DEF OrderInv
    <3> QED BY <3>1, <3>2
  <2> QED BY <2>1, <2>2 DEF OrderInv
<1>9. \A m \in Mutexes : \A i \in DOMAIN miWaiters'[m] :
        \E j \in DOMAIN miWaiters[m] : miWaiters'[m][i] = miWaiters[m][j]
  BY <1>3, <1>6
<1>10. \A v \in MiTasks : miPc[v] = "try" => miPc'[v] = "try"
  BY <1>1, <1>2
<1> QED BY <1>7, <1>8, <1>9, <1>10

LEMMA MiTimeout ==
  ASSUME MiInv, NEW t \in MiTasks, WaitTimeout(t)
  PROVE  MiInv'
<1> DEFINE w == wants[t]
<1>0. MiTypeOK /\ ListsInv /\ OrderInv /\ WokenInv /\ HeldInv /\ HolderInherits /\ PriorityRestored
  BY DEF MiInv
<1>1. PICK k \in DOMAIN miWaiters[w] :
        /\ miWaiters[w][k] = t /\ w \in Mutexes
        /\ miWaiters' = [miWaiters EXCEPT ![w] = RemoveAt(miWaiters[w], k)]
        /\ miPc' = [miPc EXCEPT ![t] = "try"]
        /\ UNCHANGED <<basePriority, taskPriority, mutexesHeld, holder, wants, blockedAt>>
  BY <1>0 DEF WaitTimeout, MiTypeOK
<1> HIDE DEF w
<1>2. /\ miWaiters \in [Mutexes -> Seq(MiTasks)]
      /\ miPc \in [MiTasks -> {"run", "try", "block", "wait", "sleep"}]
      /\ miWaiters[w] \in Seq(MiTasks)
  BY <1>0, <1>1 DEF MiTypeOK
<1>3. IsShortened(RemoveAt(miWaiters[w], k), miWaiters[w], k)
  BY <1>2, Shortened
<1>4. /\ IsShortened(miWaiters'[w], miWaiters[w], k)
      /\ \A m \in Mutexes \ {w} : miWaiters'[m] = miWaiters[m]
      /\ miWaiters' \in [Mutexes -> Seq(MiTasks)]
  <2>1. RemoveAt(miWaiters[w], k) \in Seq(MiTasks)
    BY <1>3 DEF IsShortened
  <2> QED BY <1>1, <1>2, <1>3, <2>1
<1>5. /\ ListsInv' /\ OrderInv'
      /\ \A m \in Mutexes : \A i \in DOMAIN miWaiters'[m] :
           \E j \in DOMAIN miWaiters[m] : miWaiters'[m][i] = miWaiters[m][j]
      /\ \A v \in MiTasks : miPc[v] = "try" => miPc'[v] = "try"
  BY <1>1, <1>4, MiLeave
<1>6. MiTypeOK'
  <2>1. miPc' \in [MiTasks -> {"run", "try", "block", "wait", "sleep"}]
    BY <1>1, <1>2
  <2> QED BY <1>0, <1>1, <1>4, <2>1 DEF MiTypeOK
<1>7. HolderInherits'
  BY <1>0, <1>1, <1>5 DEF HolderInherits
<1>8. WokenInv'
  <2> SUFFICES ASSUME NEW m \in Mutexes, holder[m] = NoHolder, miWaiters'[m] # <<>> PROVE OneTries(m)'
    BY <1>1 DEF WokenInv
  <2>1. miWaiters[m] # <<>>
    <3>1. CASE m = w
      BY <1>1, <1>2, <3>1
    <3>2. CASE m # w
      BY <1>4, <3>2
    <3> QED BY <3>1, <3>2
  <2>2. PICK v \in MiTasks :
          /\ miPc[v] = "try" /\ wants[v] = m
          /\ \A i \in DOMAIN miWaiters[m] : blockedAt[miWaiters[m][i]] <= taskPriority[v]
    BY <1>0, <2>1 DEF WokenInv, OneTries
  <2>3. \A i \in DOMAIN miWaiters'[m] : blockedAt[miWaiters'[m][i]] <= taskPriority[v]
    BY <1>5, <2>2
  <2> QED BY <1>1, <1>5, <2>2, <2>3 DEF OneTries
<1>9. HeldInv' /\ PriorityRestored'
  BY <1>0, <1>1 DEF HeldInv, Held, PriorityRestored
<1> QED BY <1>5, <1>6, <1>7, <1>8, <1>9 DEF MiInv

(* t gives a mutex back: with the last one it loses what it inherited.     *)
LEMMA MiGive ==
  ASSUME MiInv, NEW t \in MiTasks, NEW w \in Mutexes, Give(t, w)
  PROVE  MiInv'
<1>0. MiTypeOK /\ ListsInv /\ OrderInv /\ WokenInv /\ HeldInv /\ HolderInherits /\ PriorityRestored
  BY DEF MiInv
<1>1. /\ miPc[t] = "run" /\ holder[w] = t
      /\ mutexesHeld' = [mutexesHeld EXCEPT ![t] = @ - 1]
      /\ taskPriority' = IF mutexesHeld[t] = 1
                           THEN [taskPriority EXCEPT ![t] = basePriority[t]] ELSE taskPriority
      /\ holder' = [holder EXCEPT ![w] = NoHolder]
      /\ UNCHANGED <<basePriority, wants, blockedAt>>
  BY DEF Give, IsAt, Disinherit
<1>2. /\ holder \in [Mutexes -> MiTasks \cup {NoHolder}] /\ mutexesHeld \in [MiTasks -> Nat]
      /\ taskPriority \in [MiTasks -> Nat] /\ blockedAt \in [MiTasks -> Nat] /\ basePriority \in [MiTasks -> Nat]
      /\ miPc \in [MiTasks -> {"run", "try", "block", "wait", "sleep"}]
      /\ miWaiters \in [Mutexes -> Seq(MiTasks)] /\ NoHolder \notin MiTasks
  BY <1>0, MutexAssumption DEF MiTypeOK
<1>3. /\ Held(t)' = Held(t) \ {w} /\ w \in Held(t)
      /\ \A u \in MiTasks \ {t} : Held(u)' = Held(u)
  BY <1>1, <1>2 DEF Held
<1>4. /\ IsFiniteSet(Held(t)) /\ mutexesHeld[t] = Cardinality(Held(t)) /\ mutexesHeld[t] \in Nat
      /\ IsFiniteSet(Held(t)') /\ Cardinality(Held(t)') = Cardinality(Held(t)) - 1
  <2>1. IsFiniteSet(Held(t)) /\ mutexesHeld[t] = Cardinality(Held(t)) /\ mutexesHeld[t] \in Nat
    BY <1>0, <1>2 DEF HeldInv, PriorityRestored, Held
  <2> QED BY <1>3, <2>1, FS_RemoveElement
<1>5. mutexesHeld[t] > 0
  <2>1. Cardinality(Held(t)) # 0
    BY <1>3, <1>4, FS_EmptySet
  <2> QED BY <1>4, <2>1
<1>6. mutexesHeld[t] = 1 <=> Held(t)' = {}
  <2>1. Cardinality(Held(t)') = 0 <=> Held(t)' = {}
    BY <1>4, FS_EmptySet
  <2>2. Cardinality(Held(t)') = mutexesHeld[t] - 1
    BY <1>4
  <2> QED BY <1>4, <2>1, <2>2
<1>7. /\ taskPriority' \in [MiTasks -> Nat] /\ \A u \in MiTasks \ {t} : taskPriority'[u] = taskPriority[u]
      /\ mutexesHeld[t] # 1 => taskPriority'[t] = taskPriority[t]
      /\ mutexesHeld[t] = 1 => taskPriority'[t] = basePriority[t]
  BY <1>1, <1>2
<1>8. \A u \in MiTasks : miPc[u] \in {"wait", "try"} => u # t /\ taskPriority'[u] = taskPriority[u]
  BY <1>1, <1>7
<1>9. /\ ListsInv' /\ OrderInv'
      /\ \A m \in Mutexes : \A i \in DOMAIN miWaiters'[m] :
           \E j \in DOMAIN miWaiters[m] : miWaiters'[m][i] = miWaiters[m][j]
      /\ \A v \in MiTasks : miPc[v] = "try" => miPc'[v] = "try"
      /\ miWaiters' \in [Mutexes -> Seq(MiTasks)]
      /\ miPc' \in [MiTasks -> {"run", "try", "block", "wait", "sleep"}]
      /\ miWaiters'[w] # <<>> => OneTries(w)'
      /\ \A m \in Mutexes \ {w} : miWaiters'[m] = miWaiters[m]
  <2>1. CASE miWaiters[w] = <<>>
    <3>1. UNCHANGED <<miWaiters, miPc>>
      BY <2>1 DEF Give
    <3>2. \A m \in Mutexes : \A i \in DOMAIN miWaiters[m] :
            miWaiters[m][i] \in MiTasks /\ miPc[miWaiters[m][i]] = "wait"
      BY <1>0, <1>2 DEF ListsInv
    <3>3. ListsInv'
      BY <1>0, <1>1, <3>1 DEF ListsInv
    <3>4. OrderInv'
      BY <1>0, <1>1, <1>8, <3>1, <3>2 DEF OrderInv
    <3> QED BY <1>2, <2>1, <3>1, <3>3, <3>4
  <2>2. CASE miWaiters[w] # <<>>
    <3> DEFINE s == miWaiters[w]
    <3>1. /\ miWaiters' = [miWaiters EXCEPT ![w] = Tail(s)]
          /\ miPc' = [miPc EXCEPT ![Head(s)] = "try"]
      BY <2>2 DEF Give
    <3>2. s \in Seq(MiTasks) /\ 1 \in DOMAIN s
      BY <1>2, <2>2
    <3>3. IsShortened(Tail(s), s, 1) /\ Head(s) = s[1]
      BY <3>2, Shortened
    <3>4. /\ IsShortened(miWaiters'[w], s, 1)
          /\ \A m \in Mutexes \ {w} : miWaiters'[m] = miWaiters[m]
          /\ miWaiters' \in [Mutexes -> Seq(MiTasks)]
      <4>1. Tail(s) \in Seq(MiTasks)
        BY <3>3 DEF IsShortened
      <4> HIDE DEF s
      <4> QED BY <1>2, <3>1, <3>3, <4>1
    <3>5. miPc' = [miPc EXCEPT ![s[1]] = "try"]
      BY <3>1, <3>3
    <3>6. /\ ListsInv' /\ OrderInv'
          /\ \A m \in Mutexes : \A i \in DOMAIN miWaiters'[m] :
               \E j \in DOMAIN miWaiters[m] : miWaiters'[m][i] = miWaiters[m][j]
          /\ \A v \in MiTasks : miPc[v] = "try" => miPc'[v] = "try"
      BY <1>1, <1>8, <3>2, <3>4, <3>5, MiLeave
    <3>7. /\ s[1] \in MiTasks /\ miPc[s[1]] = "wait" /\ wants[s[1]] = w
      BY <1>0, <3>2 DEF ListsInv
    <3>8. /\ \A i \in DOMAIN miWaiters'[w] :
               /\ Was(i, 1) \in DOMAIN s /\ miWaiters'[w][i] = s[Was(i, 1)]
      <4>1. \A i \in DOMAIN miWaiters'[w] : Was(i, 1) \in DOMAIN s /\ miWaiters'[w][i] = s[Was(i, 1)]
        <5> DEFINE r == miWaiters'[w]
        <5>1. IsShortened(r, miWaiters[w], 1)
          BY <3>4
        <5> HIDE DEF r
        <5>2. \A i \in DOMAIN r : Was(i, 1) \in DOMAIN miWaiters[w] /\ r[i] = miWaiters[w][Was(i, 1)]
          BY <3>2, <5>1, ShortList
        <5> QED BY <5>2 DEF r
      <4> QED BY <4>1
    <3>9. ASSUME NEW i \in DOMAIN miWaiters'[w]
          PROVE  blockedAt'[miWaiters'[w][i]] <= taskPriority'[s[1]]
      <4>1. Was(i, 1) \in DOMAIN s /\ miWaiters'[w][i] = s[Was(i, 1)]
        BY <3>8
      <4>2. 1 < Was(i, 1)
        <5>1. miWaiters'[w] \in Seq(MiTasks)
          BY <3>4
        <5>2. i \in Nat /\ i >= 1
          BY <5>1
        <5> QED BY <5>2 DEF Was
      <4>3. blockedAt[s[Was(i, 1)]] <= taskPriority[s[1]]
        BY <1>0, <3>2, <4>1, <4>2 DEF OrderInv
      <4>4. taskPriority'[s[1]] = taskPriority[s[1]]
        BY <1>8, <3>7
      <4> QED BY <1>1, <4>1, <4>3, <4>4
    <3>10. miPc'[s[1]] = "try" /\ wants'[s[1]] = w
      BY <1>1, <1>2, <3>5, <3>7
    <3>11. OneTries(w)'
      BY <3>7, <3>9, <3>10 DEF OneTries
    <3>12. miPc' \in [MiTasks -> {"run", "try", "block", "wait", "sleep"}]
      BY <1>2, <3>5
    <3> QED BY <3>4, <3>6, <3>11, <3>12
  <2> QED BY <2>1, <2>2
<1>10. MiTypeOK'
  <2>1. holder' \in [Mutexes -> MiTasks \cup {NoHolder}]
    BY <1>1, <1>2
  <2>2. mutexesHeld' \in [MiTasks -> Nat]
    BY <1>1, <1>2, <1>5
  <2> QED BY <1>0, <1>1, <1>7, <1>9, <2>1, <2>2 DEF MiTypeOK
<1>11. ASSUME NEW m \in Mutexes, holder'[m] # NoHolder
       PROVE  m # w /\ holder'[m] = holder[m] /\ holder[m] \in MiTasks
              /\ taskPriority'[holder[m]] = taskPriority[holder[m]]
  <2>1. m # w /\ holder'[m] = holder[m] /\ holder[m] \in MiTasks
    BY <1>1, <1>2, <1>11
  <2>2. CASE holder[m] = t
    <3>1. m \in Held(t)'
      BY <1>3, <2>1, <2>2 DEF Held
    <3> QED BY <1>6, <1>7, <2>1, <2>2, <3>1
  <2>3. CASE holder[m] # t
    BY <1>7, <2>1, <2>3
  <2> QED BY <2>1, <2>2, <2>3
<1>12. HolderInherits'
  <2> SUFFICES ASSUME NEW m \in Mutexes, holder'[m] # NoHolder, NEW i \in DOMAIN miWaiters'[m]
               PROVE  blockedAt'[miWaiters'[m][i]] <= taskPriority'[holder'[m]]
    BY DEF HolderInherits
  <2>1. m # w /\ holder'[m] = holder[m] /\ taskPriority'[holder[m]] = taskPriority[holder[m]]
    BY <1>11
  <2>2. miWaiters'[m] = miWaiters[m]
    BY <1>9, <2>1
  <2>3. blockedAt[miWaiters[m][i]] <= taskPriority[holder[m]]
    BY <1>0, <2>1, <2>2 DEF HolderInherits
  <2> QED BY <1>1, <2>1, <2>2, <2>3
<1>13. WokenInv'
  <2> SUFFICES ASSUME NEW m \in Mutexes, holder'[m] = NoHolder, miWaiters'[m] # <<>> PROVE OneTries(m)'
    BY DEF WokenInv
  <2>1. CASE m = w
    BY <1>9, <2>1
  <2>2. CASE m # w
    <3>1. holder[m] = NoHolder /\ miWaiters'[m] = miWaiters[m]
      BY <1>1, <1>2, <1>9, <2>2
    <3>2. PICK v \in MiTasks :
            /\ miPc[v] = "try" /\ wants[v] = m
            /\ \A i \in DOMAIN miWaiters[m] : blockedAt[miWaiters[m][i]] <= taskPriority[v]
      BY <1>0, <3>1 DEF WokenInv, OneTries
    <3>3. miPc'[v] = "try" /\ taskPriority'[v] = taskPriority[v]
      BY <1>8, <1>9, <3>2
    <3> QED BY <1>1, <3>1, <3>2, <3>3 DEF OneTries
  <2> QED BY <2>1, <2>2
<1>14. HeldInv'
  BY <1>0, <1>3, <1>4 DEF HeldInv
<1>15. PriorityRestored'
  <2> SUFFICES ASSUME NEW u \in MiTasks
               PROVE  /\ mutexesHeld'[u] = Cardinality(Held(u)')
                      /\ (\A m \in Mutexes : holder'[m] # u) => taskPriority'[u] = basePriority[u]
                      /\ taskPriority'[u] >= basePriority[u]
    BY <1>1 DEF PriorityRestored, Held
  <2>1. /\ mutexesHeld[u] = Cardinality(Held(u))
        /\ (\A m \in Mutexes : holder[m] # u) => taskPriority[u] = basePriority[u]
        /\ taskPriority[u] >= basePriority[u] /\ basePriority[u] \in Nat
    BY <1>0, <1>2 DEF PriorityRestored, Held
  <2>2. CASE u = t
    <3>1. mutexesHeld'[t] = mutexesHeld[t] - 1
      BY <1>1, <1>2
    <3>2. (\A m \in Mutexes : holder'[m] # t) => Held(t)' = {}
      BY DEF Held
    <3> QED BY <1>4, <1>6, <1>7, <2>1, <2>2, <3>1, <3>2
  <2>3. CASE u # t
    <3>1. mutexesHeld'[u] = mutexesHeld[u] /\ taskPriority'[u] = taskPriority[u]
      BY <1>1, <1>2, <1>7, <2>3
    <3>2. \A m \in Mutexes : holder[m] = u => holder'[m] = u
      BY <1>1, <1>2, <2>3
    <3> QED BY <1>3, <2>1, <2>3, <3>1, <3>2
  <2> QED BY <2>2, <2>3
<1> QED BY <1>9, <1>10, <1>12, <1>13, <1>14, <1>15 DEF MiInv

LEMMA MiStepInv == MiInv /\ [MiNext]_miVars => MiInv'
<1> SUFFICES ASSUME MiInv, [MiNext]_miVars PROVE MiInv'
  OBVIOUS
<1>0. /\ miPc \in [MiTasks -> {"run", "try", "block", "wait", "sleep"}]
      /\ wants \in [MiTasks -> Mutexes]
  BY DEF MiInv, MiTypeOK
<1>1. ASSUME NEW t \in MiTasks, NEW m \in Mutexes, CallTake(t, m) PROVE MiInv'
  BY <1>0, <1>1, MiMove DEF CallTake, IsAt
<1>2. ASSUME NEW t \in MiTasks, NotFree(t) PROVE MiInv'
  BY <1>0, <1>2, MiMove DEF NotFree, IsAt
<1>3. ASSUME NEW t \in MiTasks, NotBlocked(t) PROVE MiInv'
  BY <1>0, <1>3, MiMove DEF NotBlocked, IsAt
<1>4. ASSUME NEW t \in MiTasks, Sleep(t) \/ WakeUp(t) PROVE MiInv'
  BY <1>0, <1>4, MiMove DEF Sleep, WakeUp, IsAt
<1>5. CASE UNCHANGED miVars
  <2>1. UNCHANGED <<basePriority, taskPriority, mutexesHeld, holder, miWaiters, miPc, wants, blockedAt>>
    BY <1>5 DEF miVars
  <2>2. MiTypeOK' /\ ListsInv' /\ OrderInv'
    BY <2>1 DEF MiInv, MiTypeOK, ListsInv, OrderInv
  <2>3. WokenInv' /\ HolderInherits'
    BY <2>1 DEF MiInv, WokenInv, OneTries, HolderInherits
  <2>4. HeldInv' /\ PriorityRestored'
    BY <2>1 DEF MiInv, HeldInv, Held, PriorityRestored
  <2> QED BY <2>2, <2>3, <2>4 DEF MiInv
<1> QED BY <1>1, <1>2, <1>3, <1>4, <1>5, MiTake, MiBlock, MiTimeout, MiGive DEF MiNext

(* The inductive invariant of the mutexes, types and lists included, in    *)
(* every reachable state.                                                  *)
THEOREM MutexInvariance == MiSpec => []MiInv
BY MiInitInv, MiStepInv, PTL DEF MiSpec

(* vTaskPriorityInherit() and xTaskPriorityDisinherit(): for any tasks,    *)
(* mutexes and priorities, the holder of a mutex runs at no lower priority *)
(* than a task had when it began to wait for it, and a task that holds no  *)
(* mutex runs at its own.                                                  *)
THEOREM PriorityLent == MiSpec => []PriorityInheritance
<1>1. MiInv => PriorityInheritance
  BY DEF MiInv, PriorityInheritance
<1> QED BY <1>1, MutexInvariance, PTL

-----------------------------------------------------------------------------
(* Event groups.                                                           *)

(* The item value of a task that waits, and of one that does not.          *)
ValueOfWaiting ==
  \A t \in EgTasks :
    egPc[t] = "waits" => itemValue[t] = waitFor[t] \cup options[t] \cup {"inUse"}

(* Bits that woke t, and that its call will count as used when it returns. *)
Owes(t, b) ==
  /\ egPc[t] = "resumed" /\ "unblocked" \in itemValue[t]
  /\ "clear" \in options[t] /\ b \in waitFor[t] \cap itemValue[t]

Account(t, b) ==
  used[t][b] + (IF b \in eventBits THEN 1 ELSE 0) + (IF Owes(t, b) THEN 1 ELSE 0) <= rises[b]

Accounts == \A t \in EgTasks, b \in EgBits : Account(t, b)

EgInv == EgTypeOK /\ ValueOfWaiting /\ WaitersUnmet /\ WokenIsMet /\ Accounts

-----------------------------------------------------------------------------
(* Initially nobody waits and no bit has been set.                         *)
LEMMA EgInitInv == EgInit => EgInv
<1> SUFFICES ASSUME EgInit PROVE EgInv
  OBVIOUS
<1>1. EgTypeOK
  BY DEF EgInit, EgTypeOK
<1>2. ValueOfWaiting /\ WaitersUnmet /\ WokenIsMet
  BY DEF EgInit, ValueOfWaiting, WaitersUnmet, WokenIsMet
<1>3. Accounts
  <2> SUFFICES ASSUME NEW t \in EgTasks, NEW b \in EgBits PROVE Account(t, b)
    BY DEF Accounts
  <2>1. ~ Owes(t, b) /\ b \notin eventBits /\ used[t][b] = 0 /\ rises[b] = 0
    BY DEF EgInit, Owes
  <2> QED BY <2>1 DEF Account
<1> QED BY <1>1, <1>2, <1>3 DEF EgInv

(* The condition looks only at the bits waited for and at the option "all". *)
LEMMA MetOfItem ==
  ASSUME EgInv, NEW t \in EgTasks, NEW bits, egPc[t] = "waits"
  PROVE  /\ itemValue[t] \cap EgBits = waitFor[t]
         /\ "clear" \in itemValue[t] <=> "clear" \in options[t]
         /\ Met(bits, itemValue[t] \cap EgBits, itemValue[t]) <=> Met(bits, waitFor[t], options[t])
<1>1. itemValue[t] = waitFor[t] \cup options[t] \cup {"inUse"}
  BY DEF EgInv, ValueOfWaiting
<1>2. waitFor[t] \in SUBSET EgBits /\ options[t] \in SUBSET Options
  BY DEF EgInv, EgTypeOK
<1>3. itemValue[t] \cap EgBits = waitFor[t]
  BY <1>1, <1>2, EventGroupAssumption DEF Options, Control
<1>4. /\ "clear" \in itemValue[t] <=> "clear" \in options[t]
      /\ "all" \in itemValue[t] <=> "all" \in options[t]
  BY <1>1, <1>2, EventGroupAssumption DEF Options, Control
<1> QED BY <1>3, <1>4 DEF Met

(* What is not met by some bits is not met by fewer.                       *)
LEMMA MetMonotone ==
  ASSUME NEW bits, NEW fewer, fewer \subseteq bits, NEW wanted, NEW opts, Met(fewer, wanted, opts)
  PROVE  Met(bits, wanted, opts)
BY DEF Met

(* The walk through the waiting tasks: who is woken was waiting, is told   *)
(* bits that satisfy it, and has its bits cleared if it asked for that;    *)
(* who still waits is not satisfied.                                       *)
LEMMA Walk ==
  ASSUME EgInv, NEW bits \in SUBSET EgBits
  PROVE  /\ Values(bits) \in [EgTasks -> SUBSET (EgBits \cup Control)]
         /\ Steps(bits) \in [EgTasks -> {"run", "waits", "resumed"}]
         /\ \A u \in Woken(bits) :
              /\ u \in EgTasks /\ egPc[u] = "waits"
              /\ Values(bits)[u] = bits \cup {"unblocked", "inUse"}
              /\ Values(bits)[u] \cap EgBits = bits
              /\ Steps(bits)[u] = "resumed"
              /\ Met(bits, waitFor[u], options[u])
              /\ "clear" \in options[u] => waitFor[u] \subseteq Cleared(bits)
         /\ \A u \in EgTasks \ Woken(bits) :
              /\ Values(bits)[u] = itemValue[u] /\ Steps(bits)[u] = egPc[u]
              /\ egPc[u] = "waits" => ~ Met(bits, waitFor[u], options[u])
<1>0. EgTypeOK
  BY DEF EgInv
<1>1. Values(bits) \in [EgTasks -> SUBSET (EgBits \cup Control)]
  BY <1>0 DEF Values, EgTypeOK, Control
<1>2. Steps(bits) \in [EgTasks -> {"run", "waits", "resumed"}]
  BY <1>0 DEF Steps, EgTypeOK
<1>3. ASSUME NEW u \in Woken(bits)
      PROVE  /\ u \in EgTasks /\ egPc[u] = "waits"
             /\ Values(bits)[u] = bits \cup {"unblocked", "inUse"}
             /\ Values(bits)[u] \cap EgBits = bits
             /\ Steps(bits)[u] = "resumed"
             /\ Met(bits, waitFor[u], options[u])
             /\ "clear" \in options[u] => waitFor[u] \subseteq Cleared(bits)
  <2>1. u \in EgTasks /\ egPc[u] = "waits" /\ Met(bits, itemValue[u] \cap EgBits, itemValue[u])
    BY DEF Woken
  <2>2. Values(bits)[u] = bits \cup {"unblocked", "inUse"} /\ Steps(bits)[u] = "resumed"
    BY <2>1 DEF Values, Steps
  <2>3. Values(bits)[u] \cap EgBits = bits
    BY <2>2, EventGroupAssumption DEF Control
  <2>4. Met(bits, waitFor[u], options[u])
    BY <2>1, MetOfItem
  <2>5. ASSUME "clear" \in options[u] PROVE waitFor[u] \subseteq Cleared(bits)
    <3>1. itemValue[u] \cap EgBits = waitFor[u] /\ "clear" \in itemValue[u]
      BY <2>1, <2>5, MetOfItem
    <3> QED BY <3>1, <2>1 DEF Cleared
  <2> QED BY <2>1, <2>2, <2>3, <2>4, <2>5
<1>4. ASSUME NEW u \in EgTasks \ Woken(bits)
      PROVE  /\ Values(bits)[u] = itemValue[u] /\ Steps(bits)[u] = egPc[u]
             /\ egPc[u] = "waits" => ~ Met(bits, waitFor[u], options[u])
  <2>1. Values(bits)[u] = itemValue[u] /\ Steps(bits)[u] = egPc[u]
    BY DEF Values, Steps
  <2>2. egPc[u] = "waits" => ~ Met(bits, itemValue[u] \cap EgBits, itemValue[u])
    BY DEF Woken
  <2> QED BY <2>1, <2>2, MetOfItem
<1> QED BY <1>1, <1>2, <1>3, <1>4

(* One setting of bits in the account of a task and a bit: the setting     *)
(* pays for the bit that is now set, or for its use by a woken task.       *)
LEMMA WalkPays ==
  ASSUME EgInv, NEW set \in SUBSET EgBits, Raise(set), NEW u \in EgTasks, NEW b \in EgBits
  PROVE  /\ u \notin Woken(eventBits \cup set) =>
              used[u][b] + (IF b \in eventBits \cup set THEN 1 ELSE 0)
                + (IF Owes(u, b) THEN 1 ELSE 0) <= rises'[b]
         /\ u \in Woken(eventBits \cup set) =>
              used[u][b] + (IF b \in eventBits \cup set THEN 1 ELSE 0) <= rises'[b]
<1>1. Account(u, b) /\ used[u][b] \in Nat /\ rises[b] \in Nat
  BY DEF EgInv, Accounts, EgTypeOK
<1>2. rises'[b] = IF b \in set \ eventBits THEN rises[b] + 1 ELSE rises[b]
  BY DEF Raise
<1> QED BY <1>1, <1>2 DEF Account

(* Every action on the history of rises keeps its type.                    *)
LEMMA RaiseType ==
  ASSUME EgTypeOK, NEW set, Raise(set)
  PROVE  rises' \in [EgBits -> Nat]
<1>1. \A b \in EgBits : rises[b] \in Nat
  BY DEF EgTypeOK
<1> QED BY <1>1 DEF Raise

LEMMA UsesType ==
  ASSUME EgTypeOK, NEW t \in EgTasks, NEW bits, NEW wanted, NEW opts, Uses(t, bits, wanted, opts)
  PROVE  used' \in [EgTasks -> [EgBits -> Nat]]
<1>1. used \in [EgTasks -> [EgBits -> Nat]]
  BY DEF EgTypeOK
<1>2. \A b \in EgBits : used[t][b] \in Nat
  BY <1>1
<1>3. [b \in EgBits |-> IF "clear" \in opts /\ Met(bits, wanted, opts) /\ b \in wanted \cap bits
                          THEN used[t][b] + 1 ELSE used[t][b]] \in [EgBits -> Nat]
  BY <1>2
<1> QED BY <1>1, <1>3 DEF Uses

(* What Uses() adds to the account.                                        *)
LEMMA UsesOne ==
  ASSUME EgTypeOK, NEW t \in EgTasks, NEW bits, NEW wanted, NEW opts, Uses(t, bits, wanted, opts),
         NEW u \in EgTasks, NEW b \in EgBits
  PROVE  used'[u][b] = IF u = t /\ "clear" \in opts /\ Met(bits, wanted, opts) /\ b \in wanted \cap bits
                         THEN used[u][b] + 1 ELSE used[u][b]
BY DEF Uses, EgTypeOK

-----------------------------------------------------------------------------
LEMMA SetBitsKeeps ==
  ASSUME EgInv, NEW t \in EgTasks, NEW set \in SUBSET EgBits, xEventGroupSetBits(t, set)
  PROVE  EgInv'
<1> DEFINE bits == eventBits \cup set
<1>1. bits \in SUBSET EgBits
  BY DEF EgInv, EgTypeOK
<1>2. /\ eventBits' = bits \ Cleared(bits) /\ itemValue' = Values(bits) /\ egPc' = Steps(bits)
      /\ Raise(set) /\ waitFor' = waitFor /\ options' = options /\ used' = used
  BY DEF xEventGroupSetBits
<1>3. \A u \in Woken(bits) :
        /\ u \in EgTasks /\ egPc[u] = "waits"
        /\ itemValue'[u] = bits \cup {"unblocked", "inUse"}
        /\ itemValue'[u] \cap EgBits = bits
        /\ egPc'[u] = "resumed"
        /\ Met(bits, waitFor[u], options[u])
        /\ "clear" \in options[u] => waitFor[u] \subseteq Cleared(bits)
  BY <1>1, <1>2, Walk
<1>4. \A u \in EgTasks \ Woken(bits) :
        /\ itemValue'[u] = itemValue[u] /\ egPc'[u] = egPc[u]
        /\ egPc[u] = "waits" => ~ Met(bits, waitFor[u], options[u])
  BY <1>1, <1>2, Walk
<1>5. EgTypeOK'
  <2>1. itemValue' \in [EgTasks -> SUBSET (EgBits \cup Control)]
        /\ egPc' \in [EgTasks -> {"run", "waits", "resumed"}]
    BY <1>1, <1>2, Walk
  <2>2. rises' \in [EgBits -> Nat]
    BY <1>2, RaiseType DEF EgInv
  <2>3. eventBits' \in SUBSET EgBits
    BY <1>1, <1>2
  <2> QED BY <1>2, <2>1, <2>2, <2>3 DEF EgTypeOK, EgInv
<1>6. ValueOfWaiting'
  <2> SUFFICES ASSUME NEW u \in EgTasks, egPc'[u] = "waits"
               PROVE  itemValue'[u] = waitFor'[u] \cup options'[u] \cup {"inUse"}
    BY DEF ValueOfWaiting
  <2>1. u \notin Woken(bits) /\ egPc[u] = "waits"
    BY <1>3, <1>4
  <2> QED BY <2>1, <1>2, <1>4 DEF EgInv, ValueOfWaiting
<1>7. WaitersUnmet'
  <2> SUFFICES ASSUME NEW u \in EgTasks, egPc'[u] = "waits"
               PROVE  ~ Met(eventBits', waitFor[u], options[u])
    BY <1>2 DEF WaitersUnmet
  <2>1. ~ Met(bits, waitFor[u], options[u])
    BY <1>3, <1>4
  <2>2. eventBits' \subseteq bits
    BY <1>2
  <2> QED BY <2>1, <2>2, MetMonotone
<1>8. WokenIsMet'
  <2> SUFFICES ASSUME NEW u \in EgTasks, egPc'[u] = "resumed", "unblocked" \in itemValue'[u]
               PROVE  Met(itemValue'[u] \cap EgBits, waitFor[u], options[u])
    BY <1>2 DEF WokenIsMet
  <2>1. CASE u \in Woken(bits)
    BY <2>1, <1>3
  <2>2. CASE u \notin Woken(bits)
    BY <2>2, <1>4 DEF EgInv, WokenIsMet
  <2> QED BY <2>1, <2>2
<1>9. Accounts'
  <2> SUFFICES ASSUME NEW u \in EgTasks, NEW b \in EgBits PROVE Account(u, b)'
    BY DEF Accounts
  <2>1. used'[u][b] = used[u][b] /\ used[u][b] \in Nat /\ rises'[b] \in Nat
    BY <1>2, <1>5 DEF EgInv, EgTypeOK
  <2>2. CASE u \in Woken(bits)
    <3>1. used[u][b] + (IF b \in bits THEN 1 ELSE 0) <= rises'[b]
      BY <2>2, <1>2, WalkPays
    <3>2. Owes(u, b)' => b \in bits /\ b \notin eventBits'
      <4> SUFFICES ASSUME Owes(u, b)' PROVE b \in bits /\ b \notin eventBits'
        OBVIOUS
      <4>1. "clear" \in options[u] /\ b \in waitFor[u] /\ b \in itemValue'[u]
        BY <1>2 DEF Owes
      <4>2. b \in bits /\ b \in Cleared(bits)
        BY <4>1, <2>2, <1>3
      <4> QED BY <4>2, <1>2
    <3>3. b \in eventBits' => b \in bits
      BY <1>2
    <3> HIDE DEF bits
    <3> QED BY <3>1, <3>2, <3>3, <2>1 DEF Account
  <2>3. CASE u \notin Woken(bits)
    <3>1. used[u][b] + (IF b \in bits THEN 1 ELSE 0) + (IF Owes(u, b) THEN 1 ELSE 0) <= rises'[b]
      BY <2>3, <1>2, WalkPays
    <3>2. Owes(u, b)' <=> Owes(u, b)
      BY <2>3, <1>2, <1>4 DEF Owes
    <3>3. b \in eventBits' => b \in bits
      BY <1>2
    <3> HIDE DEF bits
    <3> QED BY <3>1, <3>2, <3>3, <2>1 DEF Account
  <2> QED BY <2>2, <2>3
<1> QED BY <1>5, <1>6, <1>7, <1>8, <1>9 DEF EgInv

LEMMA ClearBitsKeeps ==
  ASSUME EgInv, NEW t \in EgTasks, NEW clear \in SUBSET EgBits, xEventGroupClearBits(t, clear)
  PROVE  EgInv'
<1>1. /\ eventBits' = eventBits \ clear
      /\ UNCHANGED <<itemValue, egPc, waitFor, options, rises, used>>
  BY DEF xEventGroupClearBits
<1>2. EgTypeOK' /\ ValueOfWaiting' /\ WokenIsMet'
  BY <1>1 DEF EgInv, EgTypeOK, ValueOfWaiting, WokenIsMet
<1>3. WaitersUnmet'
  <2> SUFFICES ASSUME NEW u \in EgTasks, egPc[u] = "waits"
               PROVE  ~ Met(eventBits', waitFor[u], options[u])
    BY <1>1 DEF WaitersUnmet
  <2>1. ~ Met(eventBits, waitFor[u], options[u]) /\ eventBits' \subseteq eventBits
    BY <1>1 DEF EgInv, WaitersUnmet
  <2> QED BY <2>1, MetMonotone
<1>4. Accounts'
  <2> SUFFICES ASSUME NEW u \in EgTasks, NEW b \in EgBits PROVE Account(u, b)'
    BY DEF Accounts
  <2>1. Account(u, b) /\ used[u][b] \in Nat /\ rises[b] \in Nat
    BY DEF EgInv, Accounts, EgTypeOK
  <2>2. Owes(u, b)' <=> Owes(u, b)
    BY <1>1 DEF Owes
  <2> QED BY <1>1, <2>1, <2>2 DEF Account
<1> QED BY <1>2, <1>3, <1>4 DEF EgInv

LEMMA WaitBitsMetKeeps ==
  ASSUME EgInv, NEW t \in EgTasks, NEW wanted \in SUBSET EgBits, NEW opts \in SUBSET Options,
         WaitBitsMet(t, wanted, opts)
  PROVE  EgInv'
<1>1. /\ egPc[t] = "run" /\ Met(eventBits, wanted, opts)
      /\ eventBits' = IF "clear" \in opts THEN eventBits \ wanted ELSE eventBits
      /\ Uses(t, eventBits, wanted, opts)
      /\ UNCHANGED <<itemValue, egPc, waitFor, options, rises>>
  BY DEF WaitBitsMet
<1>2. EgTypeOK /\ eventBits' \subseteq eventBits
  BY <1>1 DEF EgInv
<1>3. EgTypeOK' /\ ValueOfWaiting' /\ WokenIsMet'
  <2>1. used' \in [EgTasks -> [EgBits -> Nat]]
    BY <1>1, <1>2, UsesType
  <2>2. eventBits' \in SUBSET EgBits
    BY <1>2 DEF EgTypeOK
  <2> QED BY <1>1, <2>1, <2>2 DEF EgInv, EgTypeOK, ValueOfWaiting, WokenIsMet
<1>4. WaitersUnmet'
  <2> SUFFICES ASSUME NEW u \in EgTasks, egPc[u] = "waits"
               PROVE  ~ Met(eventBits', waitFor[u], options[u])
    BY <1>1 DEF WaitersUnmet
  <2>1. ~ Met(eventBits, waitFor[u], options[u])
    BY DEF EgInv, WaitersUnmet
  <2> QED BY <1>2, <2>1, MetMonotone
<1>5. Accounts'
  <2> SUFFICES ASSUME NEW u \in EgTasks, NEW b \in EgBits PROVE Account(u, b)'
    BY DEF Accounts
  <2>1. Account(u, b) /\ used[u][b] \in Nat /\ rises[b] \in Nat
    BY DEF EgInv, Accounts, EgTypeOK
  <2>2. Owes(u, b)' <=> Owes(u, b)
    BY <1>1 DEF Owes
  <2>3. used'[u][b] = IF u = t /\ "clear" \in opts /\ Met(eventBits, wanted, opts) /\ b \in wanted \cap eventBits
                        THEN used[u][b] + 1 ELSE used[u][b]
    BY <1>1, <1>2, UsesOne
  <2>4. CASE u = t /\ "clear" \in opts /\ Met(eventBits, wanted, opts) /\ b \in wanted \cap eventBits
    <3>1. ~ Owes(u, b) /\ b \in eventBits /\ b \notin eventBits'
      BY <1>1, <2>4 DEF Owes
    <3> QED BY <2>1, <2>2, <2>3, <2>4, <3>1, <1>1 DEF Account
  <2>5. CASE ~ (u = t /\ "clear" \in opts /\ Met(eventBits, wanted, opts) /\ b \in wanted \cap eventBits)
    <3>1. used'[u][b] = used[u][b]
      BY <2>3, <2>5
    <3> QED BY <2>1, <2>2, <3>1, <1>1, <1>2 DEF Account
  <2> QED BY <2>4, <2>5
<1> QED BY <1>3, <1>4, <1>5 DEF EgInv

LEMMA WaitBitsBlockKeeps ==
  ASSUME EgInv, NEW t \in EgTasks, NEW wanted \in SUBSET EgBits, NEW opts \in SUBSET Options,
         WaitBitsBlock(t, wanted, opts)
  PROVE  EgInv'
<1>1. /\ egPc[t] = "run" /\ ~ Met(eventBits, wanted, opts)
      /\ itemValue' = [itemValue EXCEPT ![t] = wanted \cup opts \cup {"inUse"}]
      /\ egPc' = [egPc EXCEPT ![t] = "waits"]
      /\ waitFor' = [waitFor EXCEPT ![t] = wanted] /\ options' = [options EXCEPT ![t] = opts]
      /\ UNCHANGED <<eventBits, rises, used>>
  BY DEF WaitBitsBlock
<1>2. EgTypeOK
  BY DEF EgInv
<1>3. EgTypeOK'
  <2>1. wanted \cup opts \cup {"inUse"} \in SUBSET (EgBits \cup Control)
    BY DEF Options, Control
  <2> QED BY <1>1, <1>2, <2>1 DEF EgTypeOK
<1>4. /\ egPc'[t] = "waits" /\ waitFor'[t] = wanted /\ options'[t] = opts
      /\ itemValue'[t] = wanted \cup opts \cup {"inUse"}
      /\ \A u \in EgTasks \ {t} : /\ egPc'[u] = egPc[u] /\ waitFor'[u] = waitFor[u]
                                  /\ options'[u] = options[u] /\ itemValue'[u] = itemValue[u]
  BY <1>1, <1>2 DEF EgTypeOK
<1>5. ValueOfWaiting'
  BY <1>4 DEF EgInv, ValueOfWaiting
<1>6. WaitersUnmet'
  BY <1>1, <1>4 DEF EgInv, WaitersUnmet
<1>7. WokenIsMet'
  BY <1>4 DEF EgInv, WokenIsMet
<1>8. Accounts'
  <2> SUFFICES ASSUME NEW u \in EgTasks, NEW b \in EgBits PROVE Account(u, b)'
    BY DEF Accounts
  <2>1. Account(u, b) /\ used[u][b] \in Nat /\ rises[b] \in Nat
    BY DEF EgInv, Accounts, EgTypeOK
  <2>2. Owes(u, b)' => Owes(u, b)
    BY <1>4 DEF Owes
  <2> QED BY <1>1, <2>1, <2>2 DEF Account
<1> QED BY <1>3, <1>5, <1>6, <1>7, <1>8 DEF EgInv

LEMMA SyncMetKeeps ==
  ASSUME EgInv, NEW t \in EgTasks, NEW set \in SUBSET EgBits, NEW wanted \in SUBSET EgBits,
         SyncMet(t, set, wanted)
  PROVE  EgInv'
<1> DEFINE bits == eventBits \cup set
<1>1. bits \in SUBSET EgBits /\ EgTypeOK
  BY DEF EgInv, EgTypeOK
<1>2. /\ egPc[t] = "run" /\ wanted \subseteq bits
      /\ eventBits' = (bits \ Cleared(bits)) \ wanted
      /\ itemValue' = Values(bits) /\ egPc' = Steps(bits)
      /\ Uses(t, bits, wanted, Options)
      /\ Raise(set) /\ waitFor' = waitFor /\ options' = options
  BY DEF SyncMet
<1>3. \A u \in Woken(bits) :
        /\ u \in EgTasks /\ egPc[u] = "waits"
        /\ itemValue'[u] = bits \cup {"unblocked", "inUse"}
        /\ itemValue'[u] \cap EgBits = bits
        /\ egPc'[u] = "resumed"
        /\ Met(bits, waitFor[u], options[u])
        /\ "clear" \in options[u] => waitFor[u] \subseteq Cleared(bits)
  BY <1>1, <1>2, Walk
<1>4. \A u \in EgTasks \ Woken(bits) :
        /\ itemValue'[u] = itemValue[u] /\ egPc'[u] = egPc[u]
        /\ egPc[u] = "waits" => ~ Met(bits, waitFor[u], options[u])
  BY <1>1, <1>2, Walk
<1>5. EgTypeOK'
  <2>1. itemValue' \in [EgTasks -> SUBSET (EgBits \cup Control)]
        /\ egPc' \in [EgTasks -> {"run", "waits", "resumed"}]
    BY <1>1, <1>2, Walk
  <2>2. rises' \in [EgBits -> Nat]
    BY <1>1, <1>2, RaiseType
  <2>3. used' \in [EgTasks -> [EgBits -> Nat]]
    BY <1>1, <1>2, UsesType
  <2>4. eventBits' \in SUBSET EgBits
    BY <1>1, <1>2
  <2> QED BY <1>1, <1>2, <2>1, <2>2, <2>3, <2>4 DEF EgTypeOK
<1>6. ValueOfWaiting'
  <2> SUFFICES ASSUME NEW u \in EgTasks, egPc'[u] = "waits"
               PROVE  itemValue'[u] = waitFor'[u] \cup options'[u] \cup {"inUse"}
    BY DEF ValueOfWaiting
  <2>1. u \notin Woken(bits) /\ egPc[u] = "waits"
    BY <1>3, <1>4
  <2> QED BY <2>1, <1>2, <1>4 DEF EgInv, ValueOfWaiting
<1>7. WaitersUnmet'
  <2> SUFFICES ASSUME NEW u \in EgTasks, egPc'[u] = "waits"
               PROVE  ~ Met(eventBits', waitFor[u], options[u])
    BY <1>2 DEF WaitersUnmet
  <2>1. ~ Met(bits, waitFor[u], options[u])
    BY <1>3, <1>4
  <2>2. eventBits' \subseteq bits
    BY <1>2
  <2> QED BY <2>1, <2>2, MetMonotone
<1>8. WokenIsMet'
  <2> SUFFICES ASSUME NEW u \in EgTasks, egPc'[u] = "resumed", "unblocked" \in itemValue'[u]
               PROVE  Met(itemValue'[u] \cap EgBits, waitFor[u], options[u])
    BY <1>2 DEF WokenIsMet
  <2>1. CASE u \in Woken(bits)
    BY <2>1, <1>3
  <2>2. CASE u \notin Woken(bits)
    BY <2>2, <1>4 DEF EgInv, WokenIsMet
  <2> QED BY <2>1, <2>2
<1>9. Accounts'
  <2> SUFFICES ASSUME NEW u \in EgTasks, NEW b \in EgBits PROVE Account(u, b)'
    BY DEF Accounts
  <2>1. used[u][b] \in Nat /\ used'[u][b] \in Nat /\ rises'[b] \in Nat
    BY <1>1, <1>5 DEF EgTypeOK
  <2>2. used'[u][b] = IF u = t /\ "clear" \in Options /\ Met(bits, wanted, Options) /\ b \in wanted \cap bits
                        THEN used[u][b] + 1 ELSE used[u][b]
    BY <1>1, <1>2, UsesOne
  <2>3. b \in eventBits' => b \in bits /\ b \notin wanted
    BY <1>2
  <2>4. CASE u \in Woken(bits)
    <3>1. used[u][b] + (IF b \in bits THEN 1 ELSE 0) <= rises'[b]
      BY <2>4, <1>2, WalkPays
    <3>2. Owes(u, b)' => b \in bits /\ b \notin eventBits'
      <4> SUFFICES ASSUME Owes(u, b)' PROVE b \in bits /\ b \notin eventBits'
        OBVIOUS
      <4>1. "clear" \in options[u] /\ b \in waitFor[u] /\ b \in itemValue'[u]
        BY <1>2 DEF Owes
      <4>2. b \in bits /\ b \in Cleared(bits)
        BY <4>1, <2>4, <1>3
      <4> QED BY <4>2, <1>2
    <3>3. used'[u][b] = used[u][b]
      BY <2>2, <2>4, <1>2, <1>3
    <3> HIDE DEF bits
    <3> QED BY <3>1, <3>2, <3>3, <2>3, <2>1 DEF Account
  <2>5. CASE u \notin Woken(bits)
    <3>1. used[u][b] + (IF b \in bits THEN 1 ELSE 0) + (IF Owes(u, b) THEN 1 ELSE 0) <= rises'[b]
      BY <2>5, <1>2, WalkPays
    <3>2. Owes(u, b)' <=> Owes(u, b)
      BY <2>5, <1>2, <1>4 DEF Owes
    <3>3. u = t => ~ Owes(u, b)
      BY <1>2 DEF Owes
    <3>4. CASE u = t /\ b \in wanted
      <4>1. b \in bits /\ b \notin eventBits' /\ ~ Owes(u, b)
        BY <3>4, <3>3, <1>2
      <4>2. used'[u][b] <= used[u][b] + 1
        BY <2>1, <2>2
      <4> HIDE DEF bits
      <4> QED BY <4>1, <4>2, <3>1, <3>2, <2>1 DEF Account
    <3>5. CASE ~ (u = t /\ b \in wanted)
      <4>1. used'[u][b] = used[u][b]
        BY <2>2, <3>5
      <4> HIDE DEF bits
      <4> QED BY <4>1, <3>1, <3>2, <2>1, <2>3 DEF Account
    <3> QED BY <3>4, <3>5
  <2> QED BY <2>4, <2>5
<1> QED BY <1>5, <1>6, <1>7, <1>8, <1>9 DEF EgInv

LEMMA SyncBlockKeeps ==
  ASSUME EgInv, NEW t \in EgTasks, NEW set \in SUBSET EgBits, NEW wanted \in SUBSET EgBits,
         SyncBlock(t, set, wanted)
  PROVE  EgInv'
<1> DEFINE bits == eventBits \cup set
<1>1. bits \in SUBSET EgBits /\ EgTypeOK
  BY DEF EgInv, EgTypeOK
<1>2. /\ egPc[t] = "run" /\ ~ (wanted \subseteq bits)
      /\ eventBits' = bits \ Cleared(bits)
      /\ itemValue' = [Values(bits) EXCEPT ![t] = wanted \cup Options \cup {"inUse"}]
      /\ egPc' = [Steps(bits) EXCEPT ![t] = "waits"]
      /\ waitFor' = [waitFor EXCEPT ![t] = wanted] /\ options' = [options EXCEPT ![t] = Options]
      /\ Raise(set) /\ used' = used
  BY DEF SyncBlock
<1>3. /\ Values(bits) \in [EgTasks -> SUBSET (EgBits \cup Control)]
      /\ Steps(bits) \in [EgTasks -> {"run", "waits", "resumed"}]
  BY <1>1, Walk
<1>4. t \notin Woken(bits)
  BY <1>1, <1>2, Walk
<1>5. /\ egPc'[t] = "waits" /\ waitFor'[t] = wanted /\ options'[t] = Options
      /\ itemValue'[t] = wanted \cup Options \cup {"inUse"}
      /\ \A u \in EgTasks \ {t} :
           /\ egPc'[u] = Steps(bits)[u] /\ itemValue'[u] = Values(bits)[u]
           /\ waitFor'[u] = waitFor[u] /\ options'[u] = options[u]
  BY <1>1, <1>2, <1>3 DEF EgTypeOK
<1>6. \A u \in Woken(bits) :
        /\ u \in EgTasks /\ u # t /\ egPc[u] = "waits"
        /\ itemValue'[u] \cap EgBits = bits
        /\ egPc'[u] = "resumed"
        /\ Met(bits, waitFor[u], options[u])
        /\ "clear" \in options[u] => waitFor[u] \subseteq Cleared(bits)
  <2> SUFFICES ASSUME NEW u \in Woken(bits)
               PROVE  /\ u \in EgTasks /\ u # t /\ egPc[u] = "waits"
                      /\ itemValue'[u] \cap EgBits = bits
                      /\ egPc'[u] = "resumed"
                      /\ Met(bits, waitFor[u], options[u])
                      /\ "clear" \in options[u] => waitFor[u] \subseteq Cleared(bits)
    OBVIOUS
  <2>1. /\ u \in EgTasks /\ egPc[u] = "waits"
        /\ Values(bits)[u] \cap EgBits = bits
        /\ Steps(bits)[u] = "resumed"
        /\ Met(bits, waitFor[u], options[u])
        /\ "clear" \in options[u] => waitFor[u] \subseteq Cleared(bits)
    BY <1>1, Walk
  <2>2. u # t
    BY <1>4
  <2> QED BY <2>1, <2>2, <1>5
<1>7. \A u \in EgTasks \ Woken(bits) :
        u # t => /\ itemValue'[u] = itemValue[u] /\ egPc'[u] = egPc[u]
                 /\ egPc[u] = "waits" => ~ Met(bits, waitFor[u], options[u])
  <2> SUFFICES ASSUME NEW u \in EgTasks \ Woken(bits), u # t
               PROVE  /\ itemValue'[u] = itemValue[u] /\ egPc'[u] = egPc[u]
                      /\ egPc[u] = "waits" => ~ Met(bits, waitFor[u], options[u])
    OBVIOUS
  <2>1. /\ Values(bits)[u] = itemValue[u] /\ Steps(bits)[u] = egPc[u]
        /\ egPc[u] = "waits" => ~ Met(bits, waitFor[u], options[u])
    BY <1>1, Walk
  <2> QED BY <2>1, <1>5
<1>8. EgTypeOK'
  <2>1. wanted \cup Options \cup {"inUse"} \in SUBSET (EgBits \cup Control)
    BY DEF Options, Control
  <2>2. itemValue' \in [EgTasks -> SUBSET (EgBits \cup Control)]
        /\ egPc' \in [EgTasks -> {"run", "waits", "resumed"}]
    BY <1>2, <1>3, <2>1
  <2>3. rises' \in [EgBits -> Nat]
    BY <1>1, <1>2, RaiseType
  <2>4. eventBits' \in SUBSET EgBits
    BY <1>1, <1>2
  <2>5. waitFor' \in [EgTasks -> SUBSET EgBits] /\ options' \in [EgTasks -> SUBSET Options]
    BY <1>1, <1>2 DEF EgTypeOK
  <2> QED BY <1>1, <1>2, <2>2, <2>3, <2>4, <2>5 DEF EgTypeOK
<1>9. ValueOfWaiting'
  <2> SUFFICES ASSUME NEW u \in EgTasks, egPc'[u] = "waits"
               PROVE  itemValue'[u] = waitFor'[u] \cup options'[u] \cup {"inUse"}
    BY DEF ValueOfWaiting
  <2>1. CASE u = t
    BY <2>1, <1>5
  <2>2. CASE u # t
    <3>1. u \notin Woken(bits) /\ egPc[u] = "waits"
      BY <2>2, <1>6, <1>7
    <3> QED BY <2>2, <3>1, <1>5, <1>7 DEF EgInv, ValueOfWaiting
  <2> QED BY <2>1, <2>2
<1>10. WaitersUnmet'
  <2> SUFFICES ASSUME NEW u \in EgTasks, egPc'[u] = "waits"
               PROVE  ~ Met(eventBits', waitFor'[u], options'[u])
    BY DEF WaitersUnmet
  <2>1. ~ Met(bits, waitFor'[u], options'[u])
    <3>1. CASE u = t
      BY <3>1, <1>2, <1>5 DEF Met, Options
    <3>2. CASE u # t
      BY <3>2, <1>5, <1>6, <1>7
    <3> QED BY <3>1, <3>2
  <2>2. eventBits' \subseteq bits
    BY <1>2
  <2> QED BY <2>1, <2>2, MetMonotone
<1>11. WokenIsMet'
  <2> SUFFICES ASSUME NEW u \in EgTasks, egPc'[u] = "resumed", "unblocked" \in itemValue'[u]
               PROVE  Met(itemValue'[u] \cap EgBits, waitFor'[u], options'[u])
    BY DEF WokenIsMet
  <2>0. u # t
    BY <1>5
  <2>1. CASE u \in Woken(bits)
    BY <2>0, <2>1, <1>5, <1>6
  <2>2. CASE u \notin Woken(bits)
    BY <2>0, <2>2, <1>5, <1>7 DEF EgInv, WokenIsMet
  <2> QED BY <2>1, <2>2
<1>12. Accounts'
  <2> SUFFICES ASSUME NEW u \in EgTasks, NEW b \in EgBits PROVE Account(u, b)'
    BY DEF Accounts
  <2>1. used'[u][b] = used[u][b] /\ used[u][b] \in Nat /\ rises'[b] \in Nat
    BY <1>1, <1>2, <1>8 DEF EgTypeOK
  <2>2. b \in eventBits' => b \in bits
    BY <1>2
  <2>3. CASE u \in Woken(bits)
    <3>1. used[u][b] + (IF b \in bits THEN 1 ELSE 0) <= rises'[b]
      BY <2>3, <1>2, WalkPays
    <3>2. Owes(u, b)' => b \in bits /\ b \notin eventBits'
      <4> SUFFICES ASSUME Owes(u, b)' PROVE b \in bits /\ b \notin eventBits'
        OBVIOUS
      <4>1. "clear" \in options[u] /\ b \in waitFor[u] /\ b \in itemValue'[u]
        BY <2>3, <1>5, <1>6 DEF Owes
      <4>2. b \in bits /\ b \in Cleared(bits)
        BY <4>1, <2>3, <1>6
      <4> QED BY <4>2, <1>2
    <3> HIDE DEF bits
    <3> QED BY <3>1, <3>2, <2>2, <2>1 DEF Account
  <2>4. CASE u \notin Woken(bits)
    <3>1. used[u][b] + (IF b \in bits THEN 1 ELSE 0) + (IF Owes(u, b) THEN 1 ELSE 0) <= rises'[b]
      BY <2>4, <1>2, WalkPays
    <3>2. Owes(u, b)' => Owes(u, b)
      BY <2>4, <1>5, <1>7 DEF Owes
    <3> HIDE DEF bits
    <3> QED BY <3>1, <3>2, <2>2, <2>1 DEF Account
  <2> QED BY <2>3, <2>4
<1> QED BY <1>8, <1>9, <1>10, <1>11, <1>12 DEF EgInv

LEMMA TimeoutKeeps ==
  ASSUME EgInv, NEW t \in EgTasks, EgTimeout(t)
  PROVE  EgInv'
<1>1. /\ egPc[t] = "waits" /\ egPc' = [egPc EXCEPT ![t] = "resumed"]
      /\ UNCHANGED <<eventBits, itemValue, waitFor, options, rises, used>>
  BY DEF EgTimeout
<1>2. EgTypeOK /\ EgTypeOK'
  BY <1>1 DEF EgInv, EgTypeOK
<1>3. /\ egPc'[t] = "resumed" /\ \A u \in EgTasks \ {t} : egPc'[u] = egPc[u]
      /\ "unblocked" \notin itemValue[t]
  <2>1. itemValue[t] = waitFor[t] \cup options[t] \cup {"inUse"}
    BY <1>1 DEF EgInv, ValueOfWaiting
  <2>2. waitFor[t] \in SUBSET EgBits /\ options[t] \in SUBSET Options
    BY <1>2 DEF EgTypeOK
  <2>3. "unblocked" \notin EgBits /\ "unblocked" \notin Options /\ "unblocked" # "inUse"
    BY EventGroupAssumption DEF Options, Control
  <2> QED BY <1>1, <1>2, <2>1, <2>2, <2>3 DEF EgTypeOK
<1>4. ValueOfWaiting' /\ WaitersUnmet' /\ WokenIsMet'
  <2>1. ValueOfWaiting'
    BY <1>1, <1>3 DEF EgInv, ValueOfWaiting
  <2>2. WaitersUnmet'
    BY <1>1, <1>3 DEF EgInv, WaitersUnmet
  <2>3. WokenIsMet'
    BY <1>1, <1>3 DEF EgInv, WokenIsMet
  <2> QED BY <2>1, <2>2, <2>3
<1>5. Accounts'
  <2> SUFFICES ASSUME NEW u \in EgTasks, NEW b \in EgBits PROVE Account(u, b)'
    BY DEF Accounts
  <2>1. Account(u, b) /\ used[u][b] \in Nat /\ rises[b] \in Nat
    BY <1>2 DEF EgInv, Accounts, EgTypeOK
  <2>2. Owes(u, b)' <=> Owes(u, b)
    BY <1>1, <1>3 DEF Owes
  <2> QED BY <1>1, <2>1, <2>2 DEF Account
<1> QED BY <1>2, <1>4, <1>5 DEF EgInv

(* A task that returns owes nothing any more: what it owed is now counted, *)
(* or, after a timeout, the bit is cleared that it counts.                 *)
LEMMA ReturnKeeps ==
  ASSUME EgInv, NEW t \in EgTasks, ReturnWoken(t) \/ ReturnTimedOut(t)
  PROVE  EgInv'
<1> DEFINE bits == IF "unblocked" \in itemValue[t] THEN itemValue[t] \cap EgBits ELSE eventBits
<1>1. /\ egPc[t] = "resumed" /\ egPc' = [egPc EXCEPT ![t] = "run"]
      /\ itemValue' = [itemValue EXCEPT ![t] = {}]
      /\ waitFor' = [waitFor EXCEPT ![t] = {}] /\ options' = [options EXCEPT ![t] = {}]
      /\ rises' = rises
      /\ Uses(t, bits, waitFor[t], options[t])
  BY DEF ReturnWoken, ReturnTimedOut, Return
<1>2. /\ eventBits' \subseteq eventBits
      /\ "unblocked" \notin itemValue[t] /\ "clear" \in options[t] /\ Met(bits, waitFor[t], options[t])
           => eventBits' = eventBits \ waitFor[t]
  BY DEF ReturnWoken, ReturnTimedOut
<1>3. EgTypeOK
  BY DEF EgInv
<1>4. EgTypeOK'
  <2>1. used' \in [EgTasks -> [EgBits -> Nat]]
    BY <1>1, <1>3, UsesType
  <2>2. eventBits' \in SUBSET EgBits
    BY <1>2, <1>3 DEF EgTypeOK
  <2>3. itemValue' \in [EgTasks -> SUBSET (EgBits \cup Control)]
    BY <1>1, <1>3 DEF EgTypeOK
  <2>4. waitFor' \in [EgTasks -> SUBSET EgBits] /\ options' \in [EgTasks -> SUBSET Options]
    BY <1>1, <1>3 DEF EgTypeOK
  <2>5. egPc' \in [EgTasks -> {"run", "waits", "resumed"}]
    BY <1>1, <1>3 DEF EgTypeOK
  <2> QED BY <1>1, <1>3, <2>1, <2>2, <2>3, <2>4, <2>5 DEF EgTypeOK
<1>5. /\ egPc'[t] = "run"
      /\ \A u \in EgTasks \ {t} : /\ egPc'[u] = egPc[u] /\ waitFor'[u] = waitFor[u]
                                  /\ options'[u] = options[u] /\ itemValue'[u] = itemValue[u]
  BY <1>1, <1>3 DEF EgTypeOK
<1>6. ValueOfWaiting' /\ WokenIsMet'
  BY <1>5 DEF EgInv, ValueOfWaiting, WokenIsMet
<1>7. WaitersUnmet'
  <2> SUFFICES ASSUME NEW u \in EgTasks, egPc'[u] = "waits"
               PROVE  ~ Met(eventBits', waitFor'[u], options'[u])
    BY DEF WaitersUnmet
  <2>1. u # t /\ ~ Met(eventBits, waitFor[u], options[u])
    BY <1>5 DEF EgInv, WaitersUnmet
  <2>2. ~ Met(eventBits', waitFor[u], options[u])
    BY <1>2, <2>1, MetMonotone
  <2> QED BY <1>5, <2>1, <2>2
<1>8. Accounts'
  <2> SUFFICES ASSUME NEW u \in EgTasks, NEW b \in EgBits PROVE Account(u, b)'
    BY DEF Accounts
  <2>1. Account(u, b) /\ used[u][b] \in Nat /\ rises[b] \in Nat /\ rises' = rises
    BY <1>1, <1>3 DEF EgInv, Accounts, EgTypeOK
  <2>2. used'[u][b] = IF u = t /\ "clear" \in options[t] /\ Met(bits, waitFor[t], options[t])
                           /\ b \in waitFor[t] \cap bits
                        THEN used[u][b] + 1 ELSE used[u][b]
    BY <1>1, <1>3, UsesOne
  <2>3. CASE u # t
    <3>1. Owes(u, b)' <=> Owes(u, b)
      BY <2>3, <1>5 DEF Owes
    <3>2. used'[u][b] = used[u][b]
      BY <2>2, <2>3
    <3> QED BY <2>1, <3>1, <3>2, <1>2 DEF Account
  <2>4. CASE u = t /\ "unblocked" \in itemValue[t]
    <3>1. ~ Owes(u, b)'
      BY <2>4, <1>5 DEF Owes
    <3>2. used'[u][b] = used[u][b] + 1 => Owes(u, b)
      BY <2>1, <2>2, <2>4, <1>1 DEF Owes
    <3>3. used'[u][b] \in {used[u][b], used[u][b] + 1}
      BY <2>2
    <3> QED BY <2>1, <3>1, <3>2, <3>3, <1>2 DEF Account
  <2>5. CASE u = t /\ "unblocked" \notin itemValue[t]
    <3>1. ~ Owes(u, b)' /\ ~ Owes(u, b)
      BY <2>5, <1>5 DEF Owes
    <3>2. used'[u][b] = used[u][b] + 1 => b \in eventBits /\ b \notin eventBits'
      BY <2>1, <2>2, <2>5, <1>2
    <3>3. used'[u][b] \in {used[u][b], used[u][b] + 1}
      BY <2>2
    <3> QED BY <2>1, <3>1, <3>2, <3>3, <1>2 DEF Account
  <2> QED BY <2>3, <2>4, <2>5
<1> QED BY <1>4, <1>6, <1>7, <1>8 DEF EgInv

-----------------------------------------------------------------------------
LEMMA EgNextKeeps == EgInv /\ [EgNext]_egVars => EgInv'
<1> SUFFICES ASSUME EgInv, [EgNext]_egVars PROVE EgInv'
  OBVIOUS
<1>1. CASE UNCHANGED egVars
  <2>1. UNCHANGED <<eventBits, itemValue, egPc, waitFor, options, rises, used>>
    BY <1>1 DEF egVars
  <2>2. \A t \in EgTasks, b \in EgBits : Account(t, b)' <=> Account(t, b)
    BY <2>1 DEF Account, Owes
  <2> QED BY <2>1, <2>2
       DEF EgInv, EgTypeOK, ValueOfWaiting, WaitersUnmet, WokenIsMet, Accounts
<1>2. ASSUME NEW t \in EgTasks, NEW ask \in Asks
      PROVE  ask.bits \in SUBSET EgBits /\ ask.opts \in SUBSET Options
  BY EventGroupAssumption
<1>3. CASE EgNext
  <2> SUFFICES ASSUME NEW t \in EgTasks,
                      \/ \E set \in SUBSET EgBits : xEventGroupSetBits(t, set) \/ xEventGroupClearBits(t, set)
                      \/ \E ask \in Asks :
                           \/ WaitBitsMet(t, ask.bits, ask.opts) \/ WaitBitsBlock(t, ask.bits, ask.opts)
                           \/ \E set \in SUBSET EgBits : SyncMet(t, set, ask.bits) \/ SyncBlock(t, set, ask.bits)
                      \/ EgTimeout(t) \/ ReturnWoken(t) \/ ReturnTimedOut(t)
               PROVE  EgInv'
    BY <1>3 DEF EgNext
  <2>1. ASSUME NEW set \in SUBSET EgBits, xEventGroupSetBits(t, set) PROVE EgInv'
    BY <2>1, SetBitsKeeps
  <2>2. ASSUME NEW clear \in SUBSET EgBits, xEventGroupClearBits(t, clear) PROVE EgInv'
    BY <2>2, ClearBitsKeeps
  <2>3. ASSUME NEW ask \in Asks, WaitBitsMet(t, ask.bits, ask.opts) PROVE EgInv'
    BY <2>3, <1>2, WaitBitsMetKeeps
  <2>4. ASSUME NEW ask \in Asks, WaitBitsBlock(t, ask.bits, ask.opts) PROVE EgInv'
    BY <2>4, <1>2, WaitBitsBlockKeeps
  <2>5. ASSUME NEW ask \in Asks, NEW set \in SUBSET EgBits, SyncMet(t, set, ask.bits) PROVE EgInv'
    BY <2>5, <1>2, SyncMetKeeps
  <2>6. ASSUME NEW ask \in Asks, NEW set \in SUBSET EgBits, SyncBlock(t, set, ask.bits) PROVE EgInv'
    BY <2>6, <1>2, SyncBlockKeeps
  <2>7. CASE EgTimeout(t)
    BY <2>7, TimeoutKeeps
  <2>8. CASE ReturnWoken(t) \/ ReturnTimedOut(t)
    BY <2>8, ReturnKeeps
  <2> QED BY <2>1, <2>2, <2>3, <2>4, <2>5, <2>6, <2>7, <2>8
<1> QED BY <1>1, <1>3

LEMMA InvImplies == EgInv => EventsUsedOnce
<1> SUFFICES ASSUME EgInv PROVE UsedOnce
  BY DEF EgInv, EventsUsedOnce
<1> SUFFICES ASSUME NEW t \in EgTasks, NEW b \in EgBits PROVE used[t][b] <= rises[b]
  BY DEF UsedOnce
<1>1. Account(t, b) /\ used[t][b] \in Nat /\ rises[b] \in Nat
  BY DEF EgInv, Accounts, EgTypeOK
<1> QED BY <1>1 DEF Account

(* Event groups wake a task exactly when its bits are set, tell it bits    *)
(* that satisfy it, and let it use each setting of a bit once, whatever    *)
(* the tasks, the bits and the waits, and whenever block times end.        *)
THEOREM EventsOnce == EgSpec => []EventsUsedOnce
<1>1. EgInit => EgInv
  BY EgInitInv
<1>2. EgInv /\ [EgNext]_egVars => EgInv'
  BY EgNextKeeps
<1>3. EgInv => EventsUsedOnce
  BY InvImplies
<1> QED BY <1>1, <1>2, <1>3, PTL DEF EgSpec
=============================================================================
