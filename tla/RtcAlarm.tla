------------------------------ MODULE RtcAlarm -------------------------------
(***************************************************************************)
(* The alarms of the real time clock, L3_Utils/src/rtc_alarm.c, and the    *)
(* linked lists they are kept in, L3_Utils/src/c_list.c.  Tasks append     *)
(* alarms, one write at a time; the interrupt, once a second, walks the    *)
(* lists.  An alarm is known by the number of its list node; giving its    *)
(* semaphore is recorded.  Times are seconds since midnight.               *)
(***************************************************************************)
EXTENDS Integers, FiniteSets

CONSTANTS
  RtcTasks,     \* the tasks that create alarms
  NoList,       \* the NULL list
  MaxAlarms,    \* bound on the alarms
  AlarmArgs,    \* the lists and times of the alarms that tasks create
  SecsPerMin, MinsPerHour, HoursPerDay,
  MaxSeconds    \* bound on the seconds that pass

ASSUME RtcAssumption ==
  /\ {MaxAlarms, MaxSeconds} \subseteq Nat
  /\ {SecsPerMin, MinsPerHour, HoursPerDay} \subseteq Nat \ {0}
  /\ NoList \notin [head : 0 .. MaxAlarms, tail : 0 .. MaxAlarms]

Day == SecsPerMin * MinsPerHour * HoursPerDay
Frequencies == {"everySecond", "everyMinute", "everyHour", "everyDay"}
Lists == Frequencies \cup {"timed"}
Alarms == 1 .. MaxAlarms
NULL == 0

VARIABLES
  lists,     \* g_list_recur_alarms and g_list_timed_alarms: [head, tail] or NoList
  nextNode,  \* nextNode[n] : the node after node n
  alarm,     \* alarm[n] : the list node n is made for, and the time of a timed alarm
  nodes,     \* number of nodes allocated
  rtcIntr,   \* whether the clock interrupts
  rtcPc,     \* rtcPc[t] : where task t is in rtc_alarm_create() or ..._recurring()
  rtcArg,    \* rtcArg[t] : its list and time
  rtcNew,    \* rtcNew[t] : its new node
  rtcNow,    \* the time of day
  rtcDue,    \* the interrupt is pending
  seconds,   \* number of seconds that passed
  promised,  \* history: the alarms created before the second began
  gave,      \* history: the alarms whose semaphore was given in this second
  created,   \* history: the alarms whose creation returned
  overlapped \* history: two tasks created alarms at the same time

createVars == <<rtcPc, rtcArg, rtcNew, overlapped>>
rtcClock == <<rtcNow, rtcDue, seconds, promised, gave>>
rtcVars == <<lists, nextNode, alarm, nodes, rtcIntr, createVars, rtcClock, created>>

NoArg == [list |-> "timed", time |-> 0]
Args == {[list |-> "timed", time |-> s] : s \in 0 .. (Day - 1)}
          \cup {[list |-> f, time |-> 0] : f \in Frequencies}

ASSUME AlarmArgsAssumption == AlarmArgs \subseteq Args

RtcInit ==
  /\ lists = [f \in Lists |-> NoList]
  /\ nextNode = [n \in Alarms |-> NULL] /\ alarm = [n \in Alarms |-> NoArg] /\ nodes = 0
  /\ rtcIntr = FALSE
  /\ rtcPc = [t \in RtcTasks |-> "idle"]
  /\ rtcArg = [t \in RtcTasks |-> NoArg]
  /\ rtcNew = [t \in RtcTasks |-> NULL]
  /\ rtcNow \in 0 .. (Day - 1) /\ rtcDue = FALSE /\ seconds = 0
  /\ promised = {} /\ gave = {} /\ created = {} /\ overlapped = FALSE

-----------------------------------------------------------------------------
(* Creating an alarm.  A task runs while no interrupt is pending.  When    *)
(* creations have overlapped no more are begun: that is a bound.           *)

At(t, pc) == ~ rtcDue /\ rtcPc[t] = pc

Goto(t, pc) == rtcPc' = [rtcPc EXCEPT ![t] = pc]

(* The call returns; its variables are gone.                               *)
ReturnFrom(t) ==
  /\ Goto(t, "idle")
  /\ rtcArg' = [rtcArg EXCEPT ![t] = NoArg]
  /\ rtcNew' = [rtcNew EXCEPT ![t] = NULL]

CallCreate(t, arg) ==
  /\ At(t, "idle") /\ nodes < MaxAlarms /\ ~ overlapped
  /\ rtcArg' = [rtcArg EXCEPT ![t] = arg]
  /\ Goto(t, IF lists[arg.list] = NoList THEN "create" ELSE "insert")
  /\ overlapped' = (\E u \in RtcTasks : rtcPc[u] # "idle")
  /\ UNCHANGED <<lists, nextNode, alarm, nodes, rtcIntr, rtcNew, rtcClock, created>>

(* c_list_create() and rtc_enable_intr(); without memory there is no list, *)
(* and a recurring alarm is dropped without a word.                        *)
CreateList(t) ==
  /\ At(t, "create")
  /\ rtcIntr' = TRUE
  /\ \/ /\ lists' = [lists EXCEPT ![rtcArg[t].list] = [head |-> NULL, tail |-> NULL]]
        /\ Goto(t, "insert") /\ UNCHANGED <<rtcArg, rtcNew>>
     \/ UNCHANGED lists /\ ReturnFrom(t)
  /\ UNCHANGED <<nextNode, alarm, nodes, overlapped, rtcClock, created>>

(* c_list_insert_elm_end() allocates a node ...                            *)
NewNode(t) ==
  /\ At(t, "insert") /\ nodes < MaxAlarms
  /\ \/ /\ nodes' = nodes + 1
        /\ rtcNew' = [rtcNew EXCEPT ![t] = nodes + 1]
        /\ alarm' = [alarm EXCEPT ![nodes + 1] = rtcArg[t]]
        /\ Goto(t, "link") /\ UNCHANGED rtcArg
     \/ UNCHANGED <<nodes, alarm>> /\ ReturnFrom(t)
  /\ UNCHANGED <<lists, nextNode, rtcIntr, overlapped, rtcClock, created>>

Mutant_LinkNode(t) ==
  LET f == rtcArg[t].list IN
  /\ At(t, "link")
  /\ lists' = IF lists[f].head = NULL THEN [lists EXCEPT ![f].head = rtcNew[t]] ELSE lists
  /\ Goto(t, "tail")
  /\ UNCHANGED <<nextNode, alarm, nodes, rtcIntr, rtcArg, rtcNew, overlapped, rtcClock, created>>

(* ... links it to the last one, or to the head of an empty list ...       *)
LinkNode(t) ==
  LET f == rtcArg[t].list IN
  /\ At(t, "link")
  /\ \/ /\ lists[f].head = NULL
        /\ lists' = [lists EXCEPT ![f].head = rtcNew[t]] /\ UNCHANGED nextNode
     \/ /\ lists[f].head # NULL
        /\ nextNode' = IF lists[f].tail = NULL THEN nextNode
                       ELSE [nextNode EXCEPT ![lists[f].tail] = rtcNew[t]]
        /\ UNCHANGED lists
  /\ Goto(t, "tail")
  /\ UNCHANGED <<alarm, nodes, rtcIntr, rtcArg, rtcNew, overlapped, rtcClock, created>>

(* ... and makes it the last one.                                          *)
MoveTail(t) ==
  /\ At(t, "tail")
  /\ lists' = [lists EXCEPT ![rtcArg[t].list].tail = rtcNew[t]]
  /\ created' = created \cup {rtcNew[t]}
  /\ ReturnFrom(t)
  /\ UNCHANGED <<nextNode, alarm, nodes, rtcIntr, overlapped, rtcClock>>

createStep(t) == CreateList(t) \/ NewNode(t) \/ LinkNode(t) \/ MoveTail(t)

-----------------------------------------------------------------------------
(* The clock, which interrupts every second; the interrupt is served       *)
(* before the next one.                                                    *)

Second ==
  /\ ~ rtcDue /\ seconds < MaxSeconds
  /\ rtcNow' = (rtcNow + 1) % Day
  /\ rtcDue' = rtcIntr
  /\ seconds' = seconds + 1
  /\ promised' = created /\ gave' = {}
  /\ UNCHANGED <<lists, nextNode, alarm, nodes, rtcIntr, createVars, created>>

(* c_list_for_each_elm() visits the head and, after each node, the next:   *)
(* the nodes of every set that holds these.                                *)
HoldsFrom(h, S) ==
  /\ h # NULL => h \in S
  /\ \A n \in S : nextNode[n] # NULL => nextNode[n] \in S

Each(f) ==
  {n \in Alarms : lists[f] # NoList /\ \A S \in SUBSET Alarms : HoldsFrom(lists[f].head, S) => n \in S}

TimeSec == rtcNow % SecsPerMin
TimeMin == (rtcNow \div SecsPerMin) % MinsPerHour
TimeHour == rtcNow \div (SecsPerMin * MinsPerHour)

RTC_IRQHandler ==
  /\ rtcDue /\ rtcDue' = FALSE
  /\ gave' = UNION {Each("everySecond"),
                    IF TimeSec = 0 THEN Each("everyMinute") ELSE {},
                    IF TimeSec = 0 /\ TimeMin = 0 THEN Each("everyHour") ELSE {},
                    IF TimeSec = 0 /\ TimeMin = 0 /\ TimeHour = 0 THEN Each("everyDay") ELSE {},
                    {n \in Each("timed") : alarm[n].time = rtcNow}}
  /\ UNCHANGED <<lists, nextNode, alarm, nodes, rtcIntr, createVars, created,
                 rtcNow, seconds, promised>>

RtcNext ==
  \/ Second \/ RTC_IRQHandler
  \/ \E t \in RtcTasks :
       \/ \E arg \in AlarmArgs : CallCreate(t, arg)
       \/ createStep(t)

RtcSpec == RtcInit /\ [][RtcNext]_rtcVars

-----------------------------------------------------------------------------
RtcTypeOK ==
  /\ lists \in [Lists -> {NoList} \cup [head : 0 .. MaxAlarms, tail : 0 .. MaxAlarms]]
  /\ nextNode \in [Alarms -> 0 .. MaxAlarms] /\ alarm \in [Alarms -> Args ]
  /\ nodes \in 0 .. MaxAlarms /\ rtcIntr \in BOOLEAN
  /\ rtcPc \in [RtcTasks -> {"idle", "create", "insert", "link", "tail"}]
  /\ rtcArg \in [RtcTasks -> Args ] /\ rtcNew \in [RtcTasks -> 0 .. MaxAlarms]
  /\ rtcNow \in 0 .. (Day - 1) /\ rtcDue \in BOOLEAN /\ seconds \in 0 .. MaxSeconds
  /\ promised \subseteq created /\ gave \subseteq Alarms /\ created \subseteq Alarms
  /\ overlapped \in BOOLEAN

(* The seconds of alarm n.                                                  *)
Falls(n) ==
  LET every == CASE alarm[n].list = "everySecond" -> 1
                 [] alarm[n].list = "everyMinute" -> SecsPerMin
                 [] alarm[n].list = "everyHour" -> SecsPerMin * MinsPerHour
                 [] OTHER -> Day
  IN  rtcNow % every = alarm[n].time

(* In every second exactly the alarms of this second are given, although    *)
(* the interrupt may come between any two steps of an insertion, as long as *)
(* no two tasks create alarms at the same time: then one can be lost.       *)
AlarmsOnTime ==
  ~ rtcDue /\ ~ overlapped =>
    /\ {n \in promised : Falls(n)} \subseteq gave
    /\ \A n \in gave : Falls(n)
=============================================================================
