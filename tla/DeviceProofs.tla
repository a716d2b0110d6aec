---------------------------- MODULE DeviceProofs ----------------------------
(***************************************************************************)
(* The devices whose interrupts share state with tasks: the system timer   *)
(* with the watchdog, for every width of the counter, every period and     *)
(* every latency, the alarms of the real time clock, for any tasks, alarms *)
(* and lengths of minutes and hours, and the UART, for any tasks, strings  *)
(* and sizes of queues and FIFOs; and the kernel with its devices.         *)
(*                                                                         *)
(* The inductive invariant of RtcAlarm adds to its property the shape of   *)
(* the lists: every linked node but the head follows one made earlier, and *)
(* the node the next one is linked to is the last.  So the walk of the     *)
(* interrupt, whenever it comes, reaches every linked node.                *)
(*                                                                         *)
(* The one of Uart says which task holds a character between the queue and *)
(* the transmitter, that the transmitter is idle then if all use printf(), *)
(* and, for printf() and put() alike, which characters are in each place.  *)
(***************************************************************************)
EXTENDS MCKernel, KernelProofs

-----------------------------------------------------------------------------
(* The system timer and the watchdog.                                      *)

-----------------------------------------------------------------------------
(* The inductive invariant.                                                *)

TimerTypes ==
  /\ realTime \in Nat /\ tc \in 0 .. (TimerRange - 1) /\ rollovers \in Nat
  /\ matchFeed \in 0 .. (TimerRange - 1)
  /\ ir \subseteq Reasons /\ irSince \in Nat /\ irSince <= MaxLatency
  /\ cpuBusy \in BOOLEAN
  /\ watchdog \in Int /\ watchdog <= WatchPeriod
  /\ readPc \in {"idle", "rollovers", "after", "again", "done"}
  /\ before \in Nat /\ rolls \in Nat /\ after \in Nat /\ calledAt \in Nat

(* The rollover's interrupt comes with the counter's last value: it may be *)
(* served in the same microsecond, and then the count is early, or after   *)
(* the wrap, and then it is late.                                          *)
CountIsRight ==
  /\ "rollover" \in ir /\ tc = TimerRange - 1 => rollovers * TimerRange + tc = realTime
  /\ "rollover" \in ir /\ tc # TimerRange - 1 =>
       rollovers * TimerRange + TimerRange + tc = realTime /\ tc < irSince
  /\ "rollover" \notin ir /\ tc = TimerRange - 1 =>
       rollovers * TimerRange + tc = realTime + TimerRange /\ cpuBusy
  /\ "rollover" \notin ir /\ tc # TimerRange - 1 => rollovers * TimerRange + tc = realTime

(* What sys_get_uptime_us() has read so far.                               *)
ReadIsRight ==
  /\ calledAt <= realTime
  /\ readPc = "rollovers" => calledAt <= rollovers * TimerRange + before
  /\ readPc = "after" => rolls <= rollovers /\ calledAt <= rolls * TimerRange + before
  /\ UptimeIsExact

(* How long until the watchdog's next feed, when it is not pending.        *)
ToFeed == watchdog - (WatchPeriod - FeedPeriod)

FeedIsDue ==
  /\ "feed" \notin ir => /\ 1 <= ToFeed /\ ToFeed <= FeedPeriod
                         /\ tc + ToFeed \in {matchFeed, matchFeed + TimerRange}
  /\ "feed" \in ir => watchdog + irSince + FeedPeriod >= WatchPeriod

TimerIInv == TimerTypes /\ CountIsRight /\ ReadIsRight /\ FeedIsDue

-----------------------------------------------------------------------------
(* Arithmetic.                                                             *)

LEMMA Wraps ==
  ASSUME NEW r \in Nat \ {0}, NEW x \in 0 .. (2 * r - 1)
  PROVE  x % r = (IF x < r THEN x ELSE x - r)
<1>1. CASE x < r
  <2>1. x \in 0 .. (r - 1)
    BY <1>1
  <2> QED BY <2>1, SMT
<1>2. CASE x >= r
  <2>1. x \in r .. (2 * r - 1)
    BY <1>2
  <2>2. x % r = x - r
    BY <2>1, SMT
  <2> QED BY <1>2, <2>2
<1> QED BY <1>1, <1>2

LEMMA MoreRollovers ==
  ASSUME NEW r \in Nat, NEW a \in Nat, NEW b \in Nat, a <= b
  PROVE  /\ a * r <= b * r
         /\ a * r \in Nat /\ b * r \in Nat
         /\ (a + 1) * r = a * r + r
<1>1. a * r \in Nat /\ b * r \in Nat /\ (a + 1) * r = a * r + r
  OBVIOUS
<1>2. b * r = a * r + (b - a) * r /\ (b - a) * r >= 0
  <2>1. b - a \in Nat /\ b = a + (b - a)
    OBVIOUS
  <2>2. \A e \in Nat : (a + e) * r = a * r + e * r /\ e * r >= 0
    OBVIOUS
  <2> QED BY <2>1, <2>2
<1>3. (b - a) * r \in Int
  OBVIOUS
<1> QED BY <1>1, <1>2, <1>3

LEMMA Sums ==
  ASSUME NEW w \in Int, NEW i \in Nat, NEW f \in Nat, NEW p \in Nat, w + f = p
  PROVE  w + i + f >= p
  OBVIOUS

LEMMA Quotient ==
  ASSUME NEW a \in Nat, NEW d \in Nat \ {0}
  PROVE  a \div d \in Nat /\ a % d \in 0 .. (d - 1) /\ a = (d * (a \div d)) + (a % d)
  OBVIOUS

LEMMA RemainderOf ==
  ASSUME NEW d \in Nat \ {0}, NEW q \in Nat, NEW r \in 0 .. (d - 1)
  PROVE  ((d * q) + r) % d = r
  OBVIOUS

LEMMA TimerConstants ==
  /\ TimerRange \in Nat /\ TimerRange >= 2
  /\ FeedPeriod \in 1 .. (TimerRange - 1) /\ WatchPeriod \in Nat /\ MaxLatency \in Nat
  /\ MaxLatency < TimerRange - 1 /\ FeedPeriod + MaxLatency < WatchPeriod
  BY SysTimerAssumption
-----------------------------------------------------------------------------
(* The steps.                                                              *)

LEMMA TimerInitInv == SysTimerInit => TimerIInv
<1> SUFFICES ASSUME SysTimerInit PROVE TimerIInv
  OBVIOUS
<1>1. TimerTypes
  <2>1. /\ realTime = 0 /\ tc = 0 /\ rollovers = 0 /\ matchFeed = FeedPeriod /\ ir = {} /\ irSince = 0
        /\ cpuBusy = FALSE /\ watchdog = WatchPeriod /\ readPc = "idle"
        /\ before = 0 /\ rolls = 0 /\ after = 0 /\ calledAt = 0
    BY DEF SysTimerInit
  <2>2. tc \in 0 .. (TimerRange - 1) /\ matchFeed \in 0 .. (TimerRange - 1)
    BY <2>1, TimerConstants
  <2>3. irSince <= MaxLatency /\ watchdog \in Int /\ watchdog <= WatchPeriod
    BY <2>1, TimerConstants
  <2> QED BY <2>1, <2>2, <2>3 DEF TimerTypes
<1>2. CountIsRight
  BY TimerConstants DEF SysTimerInit, CountIsRight
<1>3. ReadIsRight
  BY TimerConstants DEF SysTimerInit, ReadIsRight, UptimeIsExact
<1>4. FeedIsDue
  BY TimerConstants DEF SysTimerInit, FeedIsDue, ToFeed
<1> QED BY <1>1, <1>2, <1>3, <1>4 DEF TimerIInv

LEMMA TickInv == TimerIInv /\ Tick => TimerIInv'
<1> SUFFICES ASSUME TimerIInv, Tick PROVE TimerIInv'
  OBVIOUS
<1> USE TimerConstants DEF TimerIInv
<1>1. tc' = IF tc = TimerRange - 1 THEN 0 ELSE tc + 1
  <2> DEFINE next == tc + 1
  <2>1. TimerRange \in Nat \ {0} /\ next \in 0 .. (2 * TimerRange - 1)
    BY DEF TimerTypes
  <2>2. tc' = next % TimerRange
    BY DEF Tick
  <2> HIDE DEF next
  <2>3. next % TimerRange = IF next < TimerRange THEN next ELSE next - TimerRange
    BY <2>1, Wraps
  <2> QED BY <2>2, <2>3 DEF next, TimerTypes
<1>2. ir' = ir \cup Matches(tc') /\ Matches(tc') \subseteq Reasons
  BY DEF Tick, Matches
<1>3. /\ "rollover" \in Matches(tc') <=> tc' = TimerRange - 1
      /\ "feed" \in Matches(tc') <=> tc' = matchFeed
  BY DEF Matches, Reasons
<1>4. /\ irSince' \in Nat /\ irSince' <= MaxLatency
      /\ ir # {} => irSince' = irSince + 1
  BY DEF Tick, TimerTypes
<1>5. TimerTypes'
  <2>1. tc' \in 0 .. (TimerRange - 1) /\ realTime' \in Nat
    BY <1>1 DEF Tick, TimerTypes
  <2>2. watchdog' \in Int /\ watchdog' <= WatchPeriod
    BY DEF Tick, TimerTypes
  <2>3. ir' \subseteq Reasons /\ cpuBusy' \in BOOLEAN
    BY <1>2 DEF Tick, TimerTypes
  <2> QED BY <1>4, <2>1, <2>2, <2>3 DEF Tick, TimerTypes, readVars
<1>6. CountIsRight'
  <2>1. /\ realTime' = realTime + 1 /\ rollovers' = rollovers
        /\ rollovers * TimerRange \in Nat /\ realTime \in Nat /\ tc \in Nat
        /\ "rollover" \in ir' <=> "rollover" \in ir \/ tc' = TimerRange - 1
        /\ "rollover" \in ir => irSince' = irSince + 1 /\ irSince \in Nat
    BY <1>2, <1>3, <1>4, MoreRollovers DEF Tick, TimerTypes
  <2>2. CASE "rollover" \in ir /\ tc # TimerRange - 1
    <3>1. tc + 1 < TimerRange - 1 /\ tc' = tc + 1 /\ "rollover" \in ir'
      BY <2>2, <1>1, <1>4, <2>1 DEF CountIsRight, TimerTypes
    <3> QED BY <2>1, <2>2, <3>1 DEF CountIsRight
  <2>3. CASE "rollover" \in ir /\ tc = TimerRange - 1
    BY <2>1, <2>3, <1>1 DEF CountIsRight
  <2>4. CASE "rollover" \notin ir /\ tc = TimerRange - 1
    BY <2>1, <2>4, <1>1 DEF CountIsRight
  <2>5. CASE "rollover" \notin ir /\ tc # TimerRange - 1
    BY <2>1, <2>5, <1>1 DEF CountIsRight
  <2> QED BY <2>2, <2>3, <2>4, <2>5
<1>7. ReadIsRight'
  <2>1. realTime' = realTime + 1 /\ realTime \in Nat /\ calledAt \in Nat
        /\ UNCHANGED <<rollovers, readPc, before, rolls, after, calledAt>>
    BY DEF Tick, TimerTypes, readVars
  <2>2. rolls * TimerRange + after \in Int
    BY MoreRollovers DEF TimerTypes
  <2> QED BY <2>1, <2>2 DEF ReadIsRight, UptimeIsExact
<1>8. FeedIsDue'
  <2>1. /\ watchdog' = watchdog - 1 /\ matchFeed' = matchFeed
        /\ "feed" \in ir' <=> "feed" \in ir \/ tc' = matchFeed
        /\ watchdog \in Int /\ tc \in 0 .. (TimerRange - 1)
        /\ matchFeed \in 0 .. (TimerRange - 1) /\ irSince \in Nat /\ irSince' \in Nat
    BY <1>2, <1>3, <1>4 DEF Tick, TimerTypes
  <2>2. CASE "feed" \in ir
    <3>1. irSince' = irSince + 1 /\ "feed" \in ir'
      BY <2>1, <2>2, <1>4
    <3> QED BY <2>1, <2>2, <3>1 DEF FeedIsDue
  <2>3. CASE "feed" \notin ir
    <3>1. ToFeed \in Int /\ ToFeed' = ToFeed - 1 /\ 1 <= ToFeed /\ ToFeed <= FeedPeriod
          /\ tc + ToFeed \in {matchFeed, matchFeed + TimerRange}
      BY <2>1, <2>3 DEF FeedIsDue, ToFeed
    <3>2. CASE ToFeed = 1
      <4>1. tc' = matchFeed
        BY <1>1, <2>1, <3>1, <3>2
      <4>2. watchdog' + FeedPeriod = WatchPeriod
        BY <2>1, <3>2 DEF ToFeed
      <4>3. "feed" \in ir'
        BY <2>1, <4>1
      <4>4. watchdog' \in Int /\ irSince' \in Nat /\ FeedPeriod \in Nat /\ WatchPeriod \in Nat
        BY <2>1
      <4>5. watchdog' + irSince' + FeedPeriod >= WatchPeriod
        BY ONLY <4>2, <4>4, Sums
      <4> QED BY <4>3, <4>5 DEF FeedIsDue
    <3>3. CASE ToFeed > 1
      <4>1. tc' # matchFeed /\ tc' + ToFeed' \in {matchFeed, matchFeed + TimerRange}
        BY <1>1, <2>1, <3>1, <3>3
      <4>2. "feed" \notin ir' /\ matchFeed' = matchFeed
        BY <2>1, <2>3, <4>1
      <4>3. 1 <= ToFeed' /\ ToFeed' <= FeedPeriod
        BY <3>1, <3>3
      <4> HIDE DEF ToFeed
      <4> QED BY <4>1, <4>2, <4>3 DEF FeedIsDue
    <3> QED BY <3>1, <3>2, <3>3
  <2> QED BY <2>2, <2>3
<1> QED BY <1>5, <1>6, <1>7, <1>8

(* Serving a reason other than the rollover and the feed changes nothing   *)
(* the invariant speaks of but the reasons that are pending.               *)
LEMMA ServeOtherInv ==
  ASSUME TimerIInv, NEW r \in Reasons \ {"rollover", "feed"}, Serve(r),
         UNCHANGED <<rollovers, matchFeed, watchdog>>
  PROVE  TimerIInv'
<1> USE TimerConstants DEF TimerIInv
<1>1. /\ ir' = ir \ {r} /\ cpuBusy' = TRUE
      /\ UNCHANGED <<realTime, tc, readPc, before, rolls, after, calledAt>>
      /\ "rollover" \in ir' <=> "rollover" \in ir
      /\ "feed" \in ir' <=> "feed" \in ir
  BY DEF Serve, readVars
<1>2. /\ irSince' \in Nat /\ irSince' <= MaxLatency
      /\ "rollover" \in ir \/ "feed" \in ir => irSince' = irSince
  BY DEF Serve, TimerTypes
<1>3. TimerTypes'
  BY <1>1, <1>2 DEF TimerTypes
<1>4. CountIsRight'
  BY <1>1, <1>2 DEF CountIsRight
<1>5. ReadIsRight'
  BY <1>1 DEF ReadIsRight, UptimeIsExact
<1>6. FeedIsDue'
  BY <1>1, <1>2 DEF FeedIsDue, ToFeed
<1> QED BY <1>3, <1>4, <1>5, <1>6

LEMMA RolloverInv == TimerIInv /\ ServeRollover => TimerIInv'
<1> SUFFICES ASSUME TimerIInv, ServeRollover PROVE TimerIInv'
  OBVIOUS
<1> USE TimerConstants DEF TimerIInv
<1>1. /\ "rollover" \in ir /\ ir' = ir \ {"rollover"} /\ cpuBusy' = TRUE
      /\ rollovers' = rollovers + 1
      /\ UNCHANGED <<realTime, tc, readPc, before, rolls, after, calledAt, matchFeed, watchdog>>
      /\ "rollover" \notin ir' /\ ("feed" \in ir' <=> "feed" \in ir)
  BY DEF ServeRollover, Serve, readVars
<1>2. /\ irSince' \in Nat /\ irSince' <= MaxLatency
      /\ "feed" \in ir => irSince' = irSince
  BY DEF ServeRollover, Serve, TimerTypes
<1>3. /\ rollovers' * TimerRange = rollovers * TimerRange + TimerRange
      /\ rollovers * TimerRange \in Nat /\ rollovers' * TimerRange \in Nat
  BY <1>1, MoreRollovers DEF TimerTypes
<1>4. TimerTypes'
  BY <1>1, <1>2 DEF TimerTypes
<1>5. CountIsRight'
  BY <1>1, <1>3 DEF CountIsRight, TimerTypes
<1>6. ReadIsRight'
  <2>1. rollovers <= rollovers'
    BY <1>1 DEF TimerTypes
  <2> QED BY <1>1, <1>3, <2>1 DEF ReadIsRight, UptimeIsExact, TimerTypes
<1>7. FeedIsDue'
  BY <1>1, <1>2 DEF FeedIsDue, ToFeed
<1> QED BY <1>4, <1>5, <1>6, <1>7

LEMMA FeedInv == TimerIInv /\ ServeFeed => TimerIInv'
<1> SUFFICES ASSUME TimerIInv, ServeFeed PROVE TimerIInv'
  OBVIOUS
<1> USE TimerConstants DEF TimerIInv
<1>1. /\ ir = {"feed"} /\ ir' = {} /\ cpuBusy' = TRUE /\ irSince' = 0
      /\ watchdog' = WatchPeriod
      /\ UNCHANGED <<realTime, tc, rollovers, readPc, before, rolls, after, calledAt>>
  BY DEF ServeFeed, Serve, readVars
<1>2. /\ matchFeed' \in {tc + FeedPeriod, (tc + FeedPeriod) - TimerRange}
      /\ matchFeed' \in 0 .. (TimerRange - 1)
  <2> DEFINE fed == tc + FeedPeriod
  <2>1. TimerRange \in Nat \ {0} /\ fed \in 0 .. (2 * TimerRange - 1)
    BY DEF TimerTypes
  <2>2. matchFeed' = fed % TimerRange
    BY DEF ServeFeed
  <2> HIDE DEF fed
  <2>3. fed % TimerRange = IF fed < TimerRange THEN fed ELSE fed - TimerRange
    BY <2>1, Wraps
  <2>4. CASE fed < TimerRange
    BY <2>1, <2>2, <2>3, <2>4 DEF fed
  <2>5. CASE ~ (fed < TimerRange)
    <3>1. matchFeed' = fed - TimerRange
      BY <2>2, <2>3, <2>5
    <3>2. fed - TimerRange \in 0 .. (TimerRange - 1)
      BY <2>1, <2>5
    <3>3. matchFeed' \in 0 .. (TimerRange - 1)
      BY ONLY <3>1, <3>2
    <3>4. matchFeed' = (tc + FeedPeriod) - TimerRange
      BY ONLY <3>1 DEF fed
    <3> QED BY ONLY <3>3, <3>4
  <2> QED BY <2>4, <2>5
<1>3. TimerTypes'
  BY <1>1, <1>2 DEF TimerTypes
<1>4. CountIsRight'
  BY <1>1 DEF CountIsRight
<1>5. ReadIsRight'
  BY <1>1 DEF ReadIsRight, UptimeIsExact
<1>6. FeedIsDue'
  <2>1. ToFeed' = FeedPeriod
    BY <1>1 DEF ToFeed
  <2>2. tc' + FeedPeriod \in {matchFeed', matchFeed' + TimerRange}
    <3>1. tc' = tc /\ tc \in Int /\ FeedPeriod \in Int /\ TimerRange \in Int
      BY <1>1 DEF TimerTypes
    <3>2. CASE matchFeed' = tc + FeedPeriod
      BY <3>1, <3>2
    <3>3. CASE matchFeed' = (tc + FeedPeriod) - TimerRange
      BY <3>1, <3>3
    <3> QED BY <1>2, <3>2, <3>3
  <2> QED BY <1>1, <2>1, <2>2 DEF FeedIsDue
<1> QED BY <1>3, <1>4, <1>5, <1>6

LEMMA EdgeInv == TimerIInv /\ Edge => TimerIInv'
<1> SUFFICES ASSUME TimerIInv, Edge PROVE TimerIInv'
  OBVIOUS
<1> USE TimerConstants DEF TimerIInv
<1>1. /\ ir' = ir \cup {"edge"}
      /\ UNCHANGED <<realTime, tc, rollovers, cpuBusy, matchFeed, watchdog>>
      /\ UNCHANGED <<readPc, before, rolls, after, calledAt>>
      /\ "rollover" \in ir' <=> "rollover" \in ir
      /\ "feed" \in ir' <=> "feed" \in ir
  BY DEF Edge, readVars
<1>2. /\ irSince' \in Nat /\ irSince' <= MaxLatency
      /\ ir # {} => irSince' = irSince
  BY DEF Edge, TimerTypes
<1>3. TimerTypes'
  BY <1>1, <1>2 DEF TimerTypes, Reasons
<1>4. CountIsRight'
  BY <1>1, <1>2 DEF CountIsRight
<1>5. ReadIsRight'
  BY <1>1 DEF ReadIsRight, UptimeIsExact
<1>6. FeedIsDue'
  BY <1>1, <1>2 DEF FeedIsDue, ToFeed
<1> QED BY <1>3, <1>4, <1>5, <1>6

(* While a task runs, nothing is pending and the count is exact.           *)
LEMMA ExactForTasks ==
  ASSUME TimerIInv, TaskRuns
  PROVE  /\ rollovers * TimerRange + tc = realTime
         /\ rollovers * TimerRange \in Nat /\ tc \in Nat /\ realTime \in Nat
<1>1. "rollover" \notin ir /\ ~ cpuBusy
  BY DEF TaskRuns
<1>2. rollovers * TimerRange \in Nat /\ tc \in Nat /\ realTime \in Nat
  BY TimerConstants, MoreRollovers DEF TimerIInv, TimerTypes
<1> QED BY <1>1, <1>2 DEF TimerIInv, CountIsRight

LEMMA ReadInv == TimerIInv /\ sys_get_uptime_us => TimerIInv'
<1> SUFFICES ASSUME TimerIInv, sys_get_uptime_us PROVE TimerIInv'
  OBVIOUS
<1> USE TimerConstants DEF TimerIInv
<1>1. TaskRuns /\ UNCHANGED hwAndTime
  BY DEF sys_get_uptime_us, ReadBefore, ReadRollovers, ReadAfter
<1>2. UNCHANGED <<realTime, tc, rollovers, matchFeed, ir, irSince, cpuBusy, watchdog>>
  BY <1>1 DEF hwAndTime
<1>3. TimerTypes'
  BY <1>2 DEF sys_get_uptime_us, ReadBefore, ReadRollovers, ReadAfter, TimerTypes
<1>4. CountIsRight' /\ FeedIsDue'
  BY <1>2 DEF CountIsRight, FeedIsDue, ToFeed
<1>5. ReadIsRight'
  <2>1. /\ rollovers * TimerRange + tc = realTime
        /\ rollovers * TimerRange \in Nat /\ tc \in Nat /\ realTime \in Nat
    BY <1>1, ExactForTasks
  <2>2. CASE ReadBefore
    BY <2>1, <2>2, <1>2 DEF ReadBefore, ReadIsRight, UptimeIsExact, TimerTypes
  <2>3. CASE ReadRollovers
    BY <2>1, <2>3, <1>2 DEF ReadRollovers, ReadIsRight, UptimeIsExact, TimerTypes
  <2>4. CASE ReadAfter
    <3>1. /\ rolls * TimerRange <= rollovers * TimerRange
          /\ rolls * TimerRange \in Nat
      BY <2>4, MoreRollovers DEF ReadAfter, ReadIsRight, TimerTypes
    <3>2. calledAt <= rolls * TimerRange + before
      BY <2>4 DEF ReadAfter, ReadIsRight
    <3> QED BY <2>1, <2>4, <3>1, <3>2, <1>2 DEF ReadAfter, ReadIsRight, UptimeIsExact, TimerTypes
  <2> QED BY <2>2, <2>3, <2>4 DEF sys_get_uptime_us
<1> QED BY <1>3, <1>4, <1>5

LEMMA TimerStepInv == TimerIInv /\ [SysTimerNext]_sysVars => TimerIInv'
<1> SUFFICES ASSUME TimerIInv, [SysTimerNext]_sysVars PROVE TimerIInv'
  OBVIOUS
<1>1. CASE Tick
  BY <1>1, TickInv
<1>2. CASE Edge
  BY <1>2, EdgeInv
<1>3. CASE TimerIsr
  <2>1. CASE ServeEdge
    BY <2>1, ServeOtherInv DEF ServeEdge, Reasons
  <2>2. CASE ServeIrTimeout
    BY <2>2, ServeOtherInv DEF ServeIrTimeout, Reasons
  <2>3. CASE ServeRollover
    BY <2>3, RolloverInv
  <2>4. CASE ServeBackground
    BY <2>4, ServeOtherInv DEF ServeBackground, Reasons
  <2>5. CASE ServeFeed
    BY <2>5, FeedInv
  <2> QED BY <1>3, <2>1, <2>2, <2>3, <2>4, <2>5 DEF TimerIsr
<1>4. CASE SysStartScheduler
  BY <1>4 DEF SysStartScheduler, TimerIInv, TimerTypes, CountIsRight, ReadIsRight, UptimeIsExact,
              FeedIsDue, ToFeed, readVars
<1>5. CASE sys_get_uptime_us
  BY <1>5, ReadInv
<1>6. CASE UNCHANGED sysVars
  BY <1>6 DEF sysVars, TimerIInv, TimerTypes, CountIsRight, ReadIsRight, UptimeIsExact,
              FeedIsDue, ToFeed, readVars
<1> QED BY <1>1, <1>2, <1>3, <1>4, <1>5, <1>6 DEF SysTimerNext

THEOREM TimerInvariance == SysTimerSpec => []TimerIInv
  BY TimerInitInv, TimerStepInv, PTL DEF SysTimerSpec

(* Whatever wraps and interrupts come between the reads of                 *)
(* sys_get_uptime_us(), it returns a time of the call.                     *)
THEOREM UptimeExact == SysTimerSpec => []UptimeIsExact
<1>1. TimerIInv => UptimeIsExact
  BY DEF TimerIInv, ReadIsRight
<1> QED BY <1>1, TimerInvariance, PTL

(* The watchdog is fed in time, however the interrupt's reasons delay each *)
(* other.                                                                  *)
THEOREM WatchdogFed == SysTimerSpec => []WatchdogNeverExpires
<1>1. TimerIInv => WatchdogNeverExpires
  BY TimerConstants DEF TimerIInv, TimerTypes, FeedIsDue, ToFeed, WatchdogNeverExpires
<1> QED BY <1>1, TimerInvariance, PTL

-----------------------------------------------------------------------------
(* What the type invariant says beyond the one above.                      *)
TimerRest ==
  /\ realTime <= MaxTime /\ tc = realTime % TimerRange
  /\ matchBack \in 0 .. (TimerRange - 1) /\ matchIr \in 0 .. (TimerRange - 1)
  /\ backOn \in BOOLEAN /\ sysOs \in BOOLEAN /\ edges \in 0 .. MaxEdges
  /\ before \in 0 .. (TimerRange - 1) /\ after \in 0 .. (TimerRange - 1)

LEMMA TimerRestInit == SysTimerInit => TimerRest
<1> SUFFICES ASSUME SysTimerInit PROVE TimerRest
  OBVIOUS
<1>1. TimerRange \in Nat \ {0} /\ BackPeriod \in 0 .. (TimerRange - 1) /\ MaxEdges \in Nat /\ MaxTime \in Nat
  BY SysTimerAssumption
<1>2. 0 % TimerRange = 0 /\ 0 \in 0 .. (TimerRange - 1) /\ 0 <= MaxTime /\ 0 \in 0 .. MaxEdges
  BY <1>1
<1>3. /\ realTime = 0 /\ tc = 0 /\ matchBack = BackPeriod /\ backOn = TRUE /\ matchIr = 0
      /\ sysOs = FALSE /\ edges = 0 /\ before = 0 /\ after = 0
  BY DEF SysTimerInit
<1>4. tc = realTime % TimerRange
  BY <1>2, <1>3
<1> QED BY <1>1, <1>2, <1>3, <1>4 DEF TimerRest

(* The counter is the time modulo its range.                               *)
LEMMA TickCounts ==
  ASSUME NEW n \in Nat, NEW d \in Nat \ {0}
  PROVE  ((n % d) + 1) % d = (n + 1) % d
<1> DEFINE q == n \div d
           r == n % d
<1>1. q \in Nat /\ r \in 0 .. (d - 1) /\ n = (d * q) + r
  BY Quotient
<1> HIDE DEF q, r
<1>2. CASE r = d - 1
  <2>1. n + 1 = (d * (q + 1)) + 0 /\ q + 1 \in Nat /\ 0 \in 0 .. (d - 1)
    BY <1>1, <1>2
  <2>2. ((d * (q + 1)) + 0) % d = 0
    BY <2>1, RemainderOf
  <2>3. (n + 1) % d = 0
    BY <2>1, <2>2
  <2>4. (r + 1) % d = 0
    <3>1. r + 1 = d
      BY <1>2
    <3>2. d % d = 0
      OBVIOUS
    <3> QED BY <3>1, <3>2
  <2> QED BY <2>3, <2>4 DEF r
<1>3. CASE r # d - 1
  <2>1. n + 1 = (d * q) + (r + 1) /\ r + 1 \in 0 .. (d - 1)
    BY <1>1, <1>3
  <2>2. ((d * q) + (r + 1)) % d = r + 1
    BY <1>1, <2>1, RemainderOf
  <2>3. (n + 1) % d = r + 1
    BY <2>1, <2>2
  <2>4. (r + 1) % d = r + 1
    BY <2>1
  <2> QED BY <2>3, <2>4 DEF r
<1> QED BY <1>2, <1>3

LEMMA TimerRestStep == TimerIInv /\ TimerRest /\ [SysTimerNext]_sysVars => TimerRest'
<1> SUFFICES ASSUME TimerIInv, TimerRest, [SysTimerNext]_sysVars PROVE TimerRest'
  OBVIOUS
<1>1. /\ TimerRange \in Nat \ {0} /\ BackPeriod \in Nat /\ IrGap \in Nat /\ MaxEdges \in Nat /\ MaxTime \in Nat
      /\ realTime \in Nat /\ tc \in 0 .. (TimerRange - 1) /\ tc \in Nat
  BY SysTimerAssumption DEF TimerIInv, TimerTypes
<1>2. \A n \in Nat : n % TimerRange \in 0 .. (TimerRange - 1)
  BY <1>1, Quotient
<1>3. CASE Tick
  <2>1. realTime' = realTime + 1 /\ realTime' <= MaxTime
    BY <1>1, <1>3 DEF Tick
  <2>2. tc' = realTime' % TimerRange
    BY <1>1, <1>3, TickCounts DEF Tick, TimerRest
  <2> QED BY <1>3, <2>1, <2>2 DEF Tick, TimerRest, readVars
<1>4. CASE ServeEdge
  <2>1. IrGap + tc \in Nat
    BY <1>1
  <2>2. matchIr' \in 0 .. (TimerRange - 1)
    BY <1>2, <1>4, <2>1 DEF ServeEdge
  <2>3. edges' \in 0 .. MaxEdges
    BY <1>1, <1>4 DEF ServeEdge, TimerRest
  <2> QED BY <1>4, <2>2, <2>3 DEF ServeEdge, Serve, TimerRest, readVars
<1>5. CASE ServeBackground
  <2>1. matchBack + tc + BackPeriod \in Nat
    BY <1>1 DEF TimerRest
  <2>2. matchBack' \in 0 .. (TimerRange - 1)
    BY <1>2, <1>5, <2>1 DEF ServeBackground
  <2> QED BY <1>5, <2>2 DEF ServeBackground, Serve, TimerRest, readVars
<1>6. CASE ServeIrTimeout
  BY <1>1, <1>6 DEF ServeIrTimeout, Serve, TimerRest, readVars
<1>7. CASE ServeRollover \/ ServeFeed
  BY <1>7 DEF ServeRollover, ServeFeed, Serve, TimerRest, readVars
<1>8. CASE Edge \/ SysStartScheduler \/ UNCHANGED sysVars
  BY <1>8 DEF Edge, SysStartScheduler, sysVars, TimerRest, readVars
<1>9. CASE sys_get_uptime_us
  BY <1>1, <1>9 DEF sys_get_uptime_us, ReadBefore, ReadRollovers, ReadAfter, hwAndTime, TimerRest
<1> QED BY <1>3, <1>4, <1>5, <1>6, <1>7, <1>8, <1>9 DEF SysTimerNext, TimerIsr

LEMMA TimerTyped == TimerIInv /\ TimerRest => SysTimerTypeOK
<1> SUFFICES ASSUME TimerIInv, TimerRest PROVE SysTimerTypeOK
  OBVIOUS
<1>1. watchdog \in 0 .. WatchPeriod
  BY TimerConstants DEF TimerIInv, TimerTypes, FeedIsDue, ToFeed
<1>2. realTime \in 0 .. MaxTime /\ irSince \in 0 .. MaxLatency /\ calledAt \in 0 .. realTime
  BY SysTimerAssumption DEF TimerIInv, TimerTypes, TimerRest, ReadIsRight
<1> QED BY <1>1, <1>2 DEF TimerIInv, TimerTypes, TimerRest, SysTimerTypeOK

-----------------------------------------------------------------------------
(* The alarms.  The nodes in list f: those made for it, but the one that   *)
(* is not linked yet.                                                      *)
Unlinked(n) == \E t \in RtcTasks : rtcPc[t] = "link" /\ rtcNew[t] = n

Linked(f) == {n \in 1 .. nodes : alarm[n].list = f /\ ~ Unlinked(n)}

(* What a creation has done when it is at each of its steps.               *)
CreationsInv ==
  \A t \in RtcTasks :
    /\ rtcPc[t] \in {"insert", "link", "tail"} => lists[rtcArg[t].list] # NoList
    /\ rtcPc[t] \in {"link", "tail"} => rtcNew[t] \in 1 .. nodes

(* The same while no two of them overlap.                                  *)
OneCreates ==
  ~ overlapped =>
    \A t \in RtcTasks :
      /\ \A u \in RtcTasks : rtcPc[t] # "idle" /\ rtcPc[u] # "idle" => t = u
      /\ rtcPc[t] = "create" => lists[rtcArg[t].list] = NoList
      /\ rtcPc[t] \in {"link", "tail"} => rtcNew[t] = nodes /\ alarm[nodes] = rtcArg[t]

NodesInv ==
  /\ \A n \in 1 .. nodes : lists[alarm[n].list] # NoList
  /\ ~ overlapped => \A n \in Alarms : nextNode[n] # NULL => n \in Linked(alarm[n].list)

(* Each node but the head has a node ahead of it, made earlier.            *)
Chained(f) ==
  /\ lists[f].head = NULL => Linked(f) = {}
  /\ lists[f].head # NULL => lists[f].head \in Linked(f)
  /\ \A n \in Linked(f) :
       /\ nextNode[n] # NULL => nextNode[n] \in Linked(f)
       /\ n # lists[f].head => \E m \in Linked(f) : m < n /\ nextNode[m] = n

(* The node that is about to be the tail, or the tail, is the last.        *)
TailIsLast(f) ==
  IF \E t \in RtcTasks : rtcPc[t] = "tail" /\ rtcArg[t].list = f
    THEN nextNode[nodes] = NULL
    ELSE /\ lists[f].head # NULL => lists[f].tail \in Linked(f) /\ nextNode[lists[f].tail] = NULL
         /\ lists[f].head = NULL => lists[f].tail = NULL

ListsSound == ~ overlapped => \A f \in Lists : lists[f] # NoList => Chained(f) /\ TailIsLast(f)

ClockInv ==
  /\ \A f \in Lists : lists[f] # NoList => rtcIntr
  /\ ~ overlapped => created \subseteq {n \in 1 .. nodes : ~ Unlinked(n)} /\ gave \subseteq 1 .. nodes

CreationInv == CreationsInv /\ OneCreates /\ NodesInv /\ ListsSound

RtcInv == RtcTypeOK /\ CreationInv /\ ClockInv /\ AlarmsOnTime

-----------------------------------------------------------------------------
(* Arithmetic.                                                             *)
LEMMA Positive ==
  ASSUME NEW a \in Nat \ {0}, NEW b \in Nat \ {0}
  PROVE  a * b \in Nat \ {0}
  OBVIOUS

(* A number below a * b is given by its remainder and its quotient by a.   *)
LEMMA Below ==
  ASSUME NEW a \in Nat \ {0}, NEW b \in Nat \ {0}, NEW r \in 0 .. (a - 1), NEW w \in 0 .. (b - 1)
  PROVE  (a * w) + r \in 0 .. ((a * b) - 1)
<1>1. a * w >= 0 /\ a * w \in Nat /\ a * b \in Nat
  OBVIOUS
<1>2. w + 1 <= b
  OBVIOUS
<1>3. a * (w + 1) <= a * b
  BY <1>2
<1>4. a * (w + 1) = (a * w) + a
  OBVIOUS
<1> QED BY <1>1, <1>3, <1>4

(* A multiple of a * b is a multiple of a, the quotient one of b.          *)
LEMMA MultipleOfProduct ==
  ASSUME NEW x \in Nat, NEW a \in Nat \ {0}, NEW b \in Nat \ {0}
  PROVE  x % (a * b) = 0 <=> x % a = 0 /\ (x \div a) % b = 0
<1> DEFINE q == x \div a
           r == x % a
           p == q \div b
           w == q % b
<1>1. q \in Nat /\ r \in 0 .. (a - 1) /\ x = (a * q) + r
  BY Quotient
<1>2. p \in Nat /\ w \in 0 .. (b - 1) /\ q = (b * p) + w
  BY <1>1, Quotient
<1> HIDE DEF q, r, p, w
<1>3. a * b \in Nat \ {0} /\ (a * w) + r \in 0 .. ((a * b) - 1)
  BY <1>1, <1>2, Positive, Below
<1>4. x = ((a * b) * p) + ((a * w) + r)
  <2>1. a * q = (a * (b * p)) + (a * w)
    BY <1>1, <1>2
  <2>2. a * (b * p) = (a * b) * p
    BY <1>2
  <2> QED BY <1>1, <1>2, <2>1, <2>2
<1>5. x % (a * b) = (a * w) + r
  <2> DEFINE d == a * b
             s == (a * w) + r
  <2>1. d \in Nat \ {0} /\ s \in 0 .. (d - 1) /\ x = (d * p) + s
    BY <1>3, <1>4
  <2> HIDE DEF d, s
  <2>2. x % d = s
    BY <1>2, <2>1, RemainderOf
  <2> QED BY <2>2 DEF d, s
<1>6. (a * w) + r = 0 <=> r = 0 /\ w = 0
  <2>1. w \in Nat /\ r \in Nat
    BY <1>1, <1>2
  <2>2. w # 0 => a * w > 0
    BY <2>1
  <2>3. w = 0 => a * w = 0
    BY <2>1
  <2>4. a * w \in Nat
    BY <2>1
  <2> QED BY <2>1, <2>2, <2>3, <2>4
<1> QED BY <1>5, <1>6 DEF r, w, q

LEMMA DayFacts == Day \in Nat \ {0} /\ SecsPerMin * MinsPerHour \in Nat \ {0}
<1>1. SecsPerMin * MinsPerHour \in Nat \ {0}
  BY RtcAssumption, Positive
<1> DEFINE m == SecsPerMin * MinsPerHour
<1>2. m \in Nat \ {0} /\ HoursPerDay \in Nat \ {0}
  BY <1>1, RtcAssumption
<1> HIDE DEF m
<1>3. m * HoursPerDay \in Nat \ {0}
  BY <1>2, Positive
<1> QED BY <1>1, <1>3 DEF m, Day

(* The tests the interrupt makes for the alarms of each list.              *)
FallsNow(f) ==
  CASE f = "everySecond" -> TRUE
    [] f = "everyMinute" -> TimeSec = 0
    [] f = "everyHour" -> TimeSec = 0 /\ TimeMin = 0
    [] OTHER -> TimeSec = 0 /\ TimeMin = 0 /\ TimeHour = 0

LEMMA TestsAreRight ==
  ASSUME RtcTypeOK, NEW n \in Alarms
  PROVE  Falls(n) <=> IF alarm[n].list = "timed" THEN alarm[n].time = rtcNow
                                                 ELSE FallsNow(alarm[n].list)
<1>1. rtcNow \in Nat /\ rtcNow < Day /\ alarm[n] \in Args
  BY DayFacts DEF RtcTypeOK
<1>2. rtcNow % Day = rtcNow
  BY <1>1, DayFacts
<1>3. rtcNow % (SecsPerMin * MinsPerHour) = 0 <=> TimeSec = 0 /\ TimeMin = 0
  BY <1>1, RtcAssumption, MultipleOfProduct DEF TimeSec, TimeMin
<1>4. rtcNow = 0 <=> TimeSec = 0 /\ TimeMin = 0 /\ TimeHour = 0
  <2> DEFINE m == SecsPerMin * MinsPerHour
             h == rtcNow \div m
             r == rtcNow % m
  <2>1. m \in Nat \ {0} /\ h \in Nat /\ r \in Nat /\ rtcNow = (m * h) + r
    <3>1. m \in Nat \ {0} /\ rtcNow \in Nat
      BY <1>1, DayFacts
    <3> HIDE DEF m
    <3>2. h \in Nat /\ r \in 0 .. (m - 1) /\ rtcNow = (m * h) + r
      BY <3>1, Quotient
    <3> QED BY <3>1, <3>2
  <2>2. TimeHour = h
    BY DEF TimeHour
  <2>3. r = 0 <=> TimeSec = 0 /\ TimeMin = 0
    BY <1>3
  <2>4. r = 0 /\ h = 0 => rtcNow = 0
    <3> HIDE DEF m, h, r
    <3>1. h = 0 => m * h = 0
      BY <2>1
    <3> QED BY <2>1, <3>1
  <2>5. rtcNow = 0 => r = 0 /\ h = 0
    <3> HIDE DEF m, h, r
    <3>1. m * h \in Nat
      BY <2>1
    <3>2. h # 0 => m * h > 0
      BY <2>1
    <3> QED BY <2>1, <3>1, <3>2
  <2> HIDE DEF m, h, r
  <2> QED BY <2>2, <2>3, <2>4, <2>5
<1>5. /\ alarm[n].list \in Frequencies \cup {"timed"}
      /\ alarm[n].list \in Frequencies => alarm[n].time = 0
  <2>1. CASE \E s \in 0 .. (Day - 1) : alarm[n] = [list |-> "timed", time |-> s]
    BY <2>1 DEF Frequencies
  <2>2. CASE \E f \in Frequencies : alarm[n] = [list |-> f, time |-> 0]
    BY <2>2 DEF Frequencies
  <2> QED BY <1>1, <2>1, <2>2 DEF Args
<1>6. CASE alarm[n].list = "timed"
  BY <1>2, <1>6 DEF Falls
<1>7. CASE alarm[n].list = "everySecond"
  <2>1. rtcNow % 1 = 0
    BY <1>1
  <2> QED BY <1>5, <1>7, <2>1 DEF Falls, FallsNow, Frequencies
<1>8. CASE alarm[n].list = "everyMinute"
  BY <1>5, <1>8 DEF Falls, FallsNow, Frequencies, TimeSec
<1>9. CASE alarm[n].list = "everyHour"
  BY <1>3, <1>5, <1>9 DEF Falls, FallsNow, Frequencies
<1>10. CASE alarm[n].list = "everyDay"
  BY <1>2, <1>4, <1>5, <1>10 DEF Falls, FallsNow, Frequencies
<1> QED BY <1>5, <1>6, <1>7, <1>8, <1>9, <1>10 DEF Frequencies

-----------------------------------------------------------------------------
(* Walking a list.                                                         *)

(* A set of numbers has a least one.                                        *)
LEMMA LeastIndex ==
  ASSUME NEW S \in SUBSET Nat, S # {}
  PROVE  \E x \in S : \A y \in S : x <= y
<1> DEFINE R == OpToRel(<, Nat)
<1>1. IsWellFoundedOn(R, Nat)
  BY NatLessThanWellFounded
<1>2. \E x \in S : \A y \in S : ~ (<<y, x>> \in R)
  <2> HIDE DEF R
  <2> QED BY <1>1, WFMin
<1>3. PICK x \in S : \A y \in S : ~ (<<y, x>> \in R)
  BY <1>2
<1>4. ASSUME NEW y \in S PROVE x <= y
  <2>1. ~ (<<y, x>> \in R)
    BY <1>3
  <2>2. ~ (y < x)
    BY <2>1 DEF OpToRel
  <2> HIDE DEF R
  <2> QED BY <2>2
<1> HIDE DEF R
<1> QED BY <1>3, <1>4

(* The interrupt visits exactly the nodes that are linked.                 *)
LEMMA VisitsLinked ==
  ASSUME RtcTypeOK, NodesInv, ListsSound, ~ overlapped, NEW f \in Lists
  PROVE  Each(f) = Linked(f)
<1>0. Linked(f) \subseteq Alarms /\ Linked(f) \subseteq Nat
  BY RtcAssumption DEF Linked, RtcTypeOK, Alarms
<1>1. CASE lists[f] = NoList
  <2>1. Linked(f) = {}
    BY <1>1 DEF NodesInv, Linked
  <2> QED BY <1>1, <2>1 DEF Each
<1>2. CASE lists[f] # NoList
  <2>1. Chained(f)
    BY <1>2 DEF ListsSound
  <2>2. HoldsFrom(lists[f].head, Linked(f))
    BY <2>1 DEF HoldsFrom, Chained
  <2>3. Each(f) \subseteq Linked(f)
    BY <1>0, <2>2 DEF Each
  <2>4. ASSUME NEW S \in SUBSET Alarms, HoldsFrom(lists[f].head, S)
        PROVE  Linked(f) \subseteq S
    <3> DEFINE Rest == Linked(f) \ S
    <3>1. SUFFICES ASSUME Rest # {} PROVE FALSE
      OBVIOUS
    <3>2. PICK n \in Rest : \A k \in Rest : n <= k
      <4>1. Rest \in SUBSET Nat
        BY <1>0
      <4> HIDE DEF Rest
      <4> QED BY <3>1, <4>1, LeastIndex
    <3>3. lists[f].head # NULL
      BY <2>1, <3>2 DEF Chained
    <3>4. n # lists[f].head
      BY <2>4, <3>2, <3>3 DEF HoldsFrom
    <3>5. PICK m \in Linked(f) : m < n /\ nextNode[m] = n
      BY <2>1, <3>2, <3>4 DEF Chained
    <3>6. m \notin Rest /\ n # NULL
      <4>1. m \in Nat /\ n \in Nat /\ n \in Alarms
        BY <1>0, <3>2
      <4> QED BY <3>2, <3>5, <4>1 DEF Alarms, NULL
    <3> QED BY <2>4, <3>2, <3>5, <3>6 DEF HoldsFrom
  <2>5. Linked(f) \subseteq Each(f)
    BY <1>0, <1>2, <2>4 DEF Each
  <2> QED BY <2>3, <2>5
<1> QED BY <1>1, <1>2

-----------------------------------------------------------------------------
(* Types.                                                                  *)
LEMMA NullType == NULL \in 0 .. MaxAlarms /\ NoArg \in Args
<1>1. 0 \in 0 .. (Day - 1)
  BY DayFacts
<1> QED BY <1>1, RtcAssumption DEF NoArg, Args, NULL

LEMMA RtcInitInv == RtcInit => RtcInv
<1> SUFFICES ASSUME RtcInit PROVE RtcInv
  OBVIOUS
<1>1. /\ 0 \in 0 .. MaxAlarms /\ 0 \in 0 .. MaxSeconds /\ NULL \in 0 .. MaxAlarms
      /\ NoArg \in Args
  BY NullType, RtcAssumption
<1>2. RtcTypeOK
  <2>1. /\ lists \in [Lists -> {NoList} \cup [head : 0 .. MaxAlarms, tail : 0 .. MaxAlarms]]
        /\ nextNode \in [Alarms -> 0 .. MaxAlarms] /\ alarm \in [Alarms -> Args ]
    BY <1>1 DEF RtcInit
  <2>2. /\ rtcPc \in [RtcTasks -> {"idle", "create", "insert", "link", "tail"}]
        /\ rtcArg \in [RtcTasks -> Args ] /\ rtcNew \in [RtcTasks -> 0 .. MaxAlarms]
    BY <1>1 DEF RtcInit
  <2> QED BY <1>1, <2>1, <2>2 DEF RtcInit, RtcTypeOK
<1>3. 1 .. nodes = {}
  BY DEF RtcInit
<1>4. CreationInv
  BY <1>3 DEF CreationInv, CreationsInv, OneCreates, NodesInv, ListsSound, RtcInit
<1>5. ClockInv /\ AlarmsOnTime
  BY DEF ClockInv, AlarmsOnTime, RtcInit
<1> QED BY <1>2, <1>4, <1>5 DEF RtcInv

ListRecord == [head : 0 .. MaxAlarms, tail : 0 .. MaxAlarms]

LEMMA CallCreateType ==
  ASSUME RtcTypeOK, NEW t \in RtcTasks, NEW arg \in AlarmArgs, CallCreate(t, arg)
  PROVE  RtcTypeOK'
BY AlarmArgsAssumption DEF RtcTypeOK, CallCreate, Goto, rtcClock

LEMMA CreateListType ==
  ASSUME RtcTypeOK, NEW t \in RtcTasks, CreateList(t)
  PROVE  RtcTypeOK'
<1>1. lists' \in [Lists -> {NoList} \cup ListRecord]
  BY NullType DEF RtcTypeOK, CreateList, ReturnFrom, ListRecord
<1>2. /\ rtcPc' \in [RtcTasks -> {"idle", "create", "insert", "link", "tail"}]
      /\ rtcArg' \in [RtcTasks -> Args ] /\ rtcNew' \in [RtcTasks -> 0 .. MaxAlarms]
  BY NullType DEF RtcTypeOK, CreateList, ReturnFrom, Goto
<1> QED BY <1>1, <1>2 DEF RtcTypeOK, CreateList, rtcClock, ListRecord

LEMMA NewNodeType ==
  ASSUME RtcTypeOK, NEW t \in RtcTasks, NewNode(t)
  PROVE  RtcTypeOK'
<1>1. nodes' \in 0 .. MaxAlarms /\ alarm' \in [Alarms -> Args ]
  BY RtcAssumption DEF RtcTypeOK, NewNode, Alarms
<1>2. /\ rtcPc' \in [RtcTasks -> {"idle", "create", "insert", "link", "tail"}]
      /\ rtcArg' \in [RtcTasks -> Args ] /\ rtcNew' \in [RtcTasks -> 0 .. MaxAlarms]
  BY NullType, RtcAssumption DEF RtcTypeOK, NewNode, ReturnFrom, Goto
<1> QED BY <1>1, <1>2 DEF RtcTypeOK, NewNode, rtcClock

LEMMA LinkNodeType ==
  ASSUME RtcTypeOK, CreationsInv, NEW t \in RtcTasks, LinkNode(t)
  PROVE  RtcTypeOK'
<1> DEFINE f == rtcArg[t].list
<1>1. f \in Lists /\ lists[f] \in ListRecord /\ rtcNew[t] \in 0 .. MaxAlarms
  <2>1. rtcArg[t] \in Args /\ lists[f] # NoList
    BY DEF RtcTypeOK, LinkNode, At, CreationsInv
  <2>2. f \in Lists
    BY <2>1 DEF Args, Lists
  <2> QED BY <2>1, <2>2 DEF RtcTypeOK, ListRecord
<1>2. lists' \in [Lists -> {NoList} \cup ListRecord]
  <2>1. lists' = lists \/ lists' = [lists EXCEPT ![f] = [lists[f] EXCEPT !.head = rtcNew[t]]]
    BY DEF LinkNode
  <2>2. [lists[f] EXCEPT !.head = rtcNew[t]] \in ListRecord
    BY <1>1 DEF ListRecord
  <2>3. lists \in [Lists -> {NoList} \cup ListRecord]
    BY DEF RtcTypeOK, ListRecord
  <2> HIDE DEF f
  <2> QED BY <1>1, <2>1, <2>2, <2>3
<1>3. nextNode' \in [Alarms -> 0 .. MaxAlarms]
  BY <1>1 DEF RtcTypeOK, LinkNode
<1>4. rtcPc' \in [RtcTasks -> {"idle", "create", "insert", "link", "tail"}]
  BY DEF RtcTypeOK, LinkNode, Goto
<1> QED BY <1>2, <1>3, <1>4 DEF RtcTypeOK, LinkNode, rtcClock, ListRecord

LEMMA MoveTailType ==
  ASSUME RtcTypeOK, CreationsInv, NEW t \in RtcTasks, MoveTail(t)
  PROVE  RtcTypeOK'
<1> DEFINE f == rtcArg[t].list
<1>1. /\ f \in Lists /\ lists[f] \in ListRecord
      /\ rtcNew[t] \in 0 .. MaxAlarms /\ rtcNew[t] \in Alarms
  <2>1. rtcArg[t] \in Args /\ lists[f] # NoList /\ rtcNew[t] \in 1 .. nodes
    BY DEF RtcTypeOK, MoveTail, At, CreationsInv
  <2>2. f \in Lists
    BY <2>1 DEF Args, Lists
  <2>3. rtcNew[t] \in Alarms
    BY <2>1, RtcAssumption DEF RtcTypeOK, Alarms
  <2> QED BY <2>1, <2>2, <2>3 DEF RtcTypeOK, ListRecord
<1>2. lists' \in [Lists -> {NoList} \cup ListRecord]
  <2>1. lists' = [lists EXCEPT ![f] = [lists[f] EXCEPT !.tail = rtcNew[t]]]
    BY DEF MoveTail
  <2>2. [lists[f] EXCEPT !.tail = rtcNew[t]] \in ListRecord
    BY <1>1 DEF ListRecord
  <2>3. lists \in [Lists -> {NoList} \cup ListRecord]
    BY DEF RtcTypeOK, ListRecord
  <2> HIDE DEF f
  <2> QED BY <1>1, <2>1, <2>2, <2>3
<1>3. created' \subseteq Alarms /\ created \subseteq created'
  BY <1>1 DEF RtcTypeOK, MoveTail
<1>4. /\ rtcPc' \in [RtcTasks -> {"idle", "create", "insert", "link", "tail"}]
      /\ rtcArg' \in [RtcTasks -> Args ] /\ rtcNew' \in [RtcTasks -> 0 .. MaxAlarms]
  BY NullType DEF RtcTypeOK, MoveTail, ReturnFrom, Goto
<1> QED BY <1>2, <1>3, <1>4 DEF RtcTypeOK, MoveTail, rtcClock, ListRecord

LEMMA SecondType == ASSUME RtcTypeOK, Second PROVE RtcTypeOK'
<1>1. rtcNow' \in 0 .. (Day - 1)
  <2>1. rtcNow + 1 \in Nat
    BY DayFacts DEF RtcTypeOK
  <2> QED BY <2>1, DayFacts, Quotient DEF Second
<1>2. seconds' \in 0 .. MaxSeconds
  BY RtcAssumption DEF RtcTypeOK, Second
<1> QED BY <1>1, <1>2 DEF RtcTypeOK, Second, createVars

LEMMA RtcInterruptType == ASSUME RtcTypeOK, RTC_IRQHandler PROVE RtcTypeOK'
<1>1. \A f : Each(f) \subseteq Alarms
  BY DEF Each
<1>2. gave' \subseteq Alarms
  BY <1>1 DEF RTC_IRQHandler
<1> QED BY <1>2 DEF RtcTypeOK, RTC_IRQHandler, createVars

-----------------------------------------------------------------------------
(* The steps of a creation, and of the clock.                              *)

LEMMA CreationUnchanged ==
  ASSUME CreationInv, UNCHANGED <<lists, nextNode, alarm, nodes, createVars>>
  PROVE  CreationInv'
<1> USE DEF createVars
<1>1. \A f : Linked(f)' = Linked(f)
  BY DEF Linked, Unlinked
<1>2. CreationsInv' /\ OneCreates'
  BY DEF CreationInv, CreationsInv, OneCreates
<1>3. NodesInv'
  BY <1>1 DEF CreationInv, NodesInv
<1>4. ListsSound'
  BY <1>1 DEF CreationInv, ListsSound, Chained, TailIsLast
<1> QED BY <1>2, <1>3, <1>4 DEF CreationInv

(* Which nodes are linked changes only when a node is made or linked.      *)
LEMMA LinkedUnchanged ==
  ASSUME nodes' = nodes, alarm' = alarm,
         \A t \in RtcTasks :
           /\ rtcPc[t] = "link" <=> rtcPc'[t] = "link"
           /\ rtcPc[t] = "link" => rtcNew'[t] = rtcNew[t]
  PROVE  (\A f : Linked(f)' = Linked(f)) /\ (\A n : Unlinked(n)' <=> Unlinked(n))
<1>1. ASSUME NEW n PROVE Unlinked(n)' <=> Unlinked(n)
  <2>1. ASSUME NEW t \in RtcTasks
        PROVE  (rtcPc[t] = "link" /\ rtcNew[t] = n) <=> (rtcPc'[t] = "link" /\ rtcNew'[t] = n)
    OBVIOUS
  <2> QED BY <2>1 DEF Unlinked
<1>2. ASSUME NEW f PROVE Linked(f)' = Linked(f)
  BY <1>1 DEF Linked
<1> QED BY <1>1, <1>2

(* Nothing changes but where a task is that had not begun or has returned. *)
LEMMA CallCreateInv ==
  ASSUME RtcTypeOK, CreationInv, NEW t \in RtcTasks, NEW arg \in AlarmArgs, CallCreate(t, arg)
  PROVE  CreationInv'
<1>1. /\ rtcPc[t] = "idle" /\ ~ overlapped
      /\ rtcPc' = [rtcPc EXCEPT ![t] = IF lists[arg.list] = NoList THEN "create" ELSE "insert"]
      /\ rtcArg' = [rtcArg EXCEPT ![t] = arg]
      /\ overlapped' = (\E u \in RtcTasks : rtcPc[u] # "idle")
      /\ UNCHANGED <<lists, nextNode, alarm, nodes, rtcNew>>
  BY DEF CallCreate, At, Goto
<1>2. rtcPc \in [RtcTasks -> {"idle", "create", "insert", "link", "tail"}] /\ rtcArg \in [RtcTasks -> Args ]
  BY DEF RtcTypeOK
<1>3. \A u \in RtcTasks :
        /\ rtcPc'[u] = (IF u = t THEN IF lists[arg.list] = NoList THEN "create" ELSE "insert" ELSE rtcPc[u])
        /\ rtcArg'[u] = (IF u = t THEN arg ELSE rtcArg[u])
  BY <1>1, <1>2
<1>4. \A f : Linked(f)' = Linked(f)
  BY <1>1, <1>3, LinkedUnchanged
<1>5. CreationsInv'
  BY <1>1, <1>3 DEF CreationInv, CreationsInv
<1>6. OneCreates'
  BY <1>1, <1>3 DEF CreationInv, OneCreates
<1>7. NodesInv'
  BY <1>1, <1>4 DEF CreationInv, NodesInv
<1>8. ListsSound'
  BY <1>1, <1>3, <1>4 DEF CreationInv, ListsSound, Chained, TailIsLast
<1> QED BY <1>5, <1>6, <1>7, <1>8 DEF CreationInv

LEMMA CreateListInv ==
  ASSUME RtcTypeOK, CreationInv, NEW t \in RtcTasks, CreateList(t)
  PROVE  CreationInv'
<1> DEFINE f == rtcArg[t].list
<1>1. /\ rtcPc[t] = "create" /\ UNCHANGED <<nextNode, alarm, nodes, overlapped>>
      /\ \/ /\ lists' = [lists EXCEPT ![f] = [head |-> NULL, tail |-> NULL]]
            /\ rtcPc' = [rtcPc EXCEPT ![t] = "insert"] /\ UNCHANGED <<rtcArg, rtcNew>>
         \/ /\ UNCHANGED lists
            /\ rtcPc' = [rtcPc EXCEPT ![t] = "idle"]
            /\ rtcArg' = [rtcArg EXCEPT ![t] = NoArg]
            /\ rtcNew' = [rtcNew EXCEPT ![t] = NULL]
  BY DEF CreateList, At, Goto, ReturnFrom
<1>2. /\ rtcPc \in [RtcTasks -> {"idle", "create", "insert", "link", "tail"}]
      /\ rtcArg \in [RtcTasks -> Args ] /\ rtcNew \in [RtcTasks -> 0 .. MaxAlarms]
      /\ DOMAIN lists = Lists /\ f \in Lists
  BY DEF RtcTypeOK, Args, Lists
<1>3. /\ \A u \in RtcTasks \ {t} : rtcPc'[u] = rtcPc[u] /\ rtcArg'[u] = rtcArg[u] /\ rtcNew'[u] = rtcNew[u]
      /\ rtcPc'[t] \in {"insert", "idle"}
      /\ rtcPc'[t] = "insert" => rtcArg'[t] = rtcArg[t]
  BY <1>1, <1>2
<1>4. /\ \A g \in Lists : lists'[g] # lists[g] =>
           g = f /\ lists'[f] = [head |-> NULL, tail |-> NULL] /\ lists'[f] # NoList
      /\ \A g \in Lists : lists[g] # NoList => lists'[g] # NoList
      /\ rtcPc'[t] = "insert" => lists'[f] # NoList
  <2>1. [head |-> NULL, tail |-> NULL] # NoList
    BY NullType, RtcAssumption
  <2> HIDE DEF f
  <2> QED BY <1>1, <1>2, <2>1
<1>5. \A g : Linked(g)' = Linked(g)
  BY <1>1, <1>3, LinkedUnchanged
<1>6. CreationsInv'
  <2>1. \A u \in RtcTasks : rtcArg[u].list \in Lists
    BY <1>2 DEF Args, Lists
  <2> QED BY <1>1, <1>3, <1>4, <2>1 DEF CreationInv, CreationsInv
<1>7. OneCreates'
  BY <1>1, <1>3 DEF CreationInv, OneCreates
<1>8. \A n \in 1 .. nodes : alarm[n].list \in Lists
  <2>1. \A n \in 1 .. nodes : n \in Alarms
    BY RtcAssumption DEF RtcTypeOK, Alarms
  <2> QED BY <2>1 DEF RtcTypeOK, Args, Lists
<1>9. NodesInv'
  BY <1>1, <1>4, <1>5, <1>8 DEF CreationInv, NodesInv
<1>10. ASSUME ~ overlapped, NEW g \in Lists, lists'[g] # NoList
       PROVE  Chained(g)' /\ TailIsLast(g)'
  <2>1. /\ ~ \E u \in RtcTasks : rtcPc'[u] = "tail" /\ rtcArg'[u].list = g
        /\ ~ \E u \in RtcTasks : rtcPc[u] = "tail" /\ rtcArg[u].list = g
    BY <1>1, <1>3, <1>10 DEF CreationInv, OneCreates
  <2>2. CASE lists'[g] = lists[g]
    <3>1. Chained(g) /\ TailIsLast(g)
      BY <1>10, <2>2 DEF CreationInv, ListsSound
    <3> QED BY <1>1, <1>5, <2>1, <2>2, <3>1 DEF Chained, TailIsLast
  <2>3. CASE lists'[g] # lists[g]
    <3>1. g = f /\ lists'[g].head = NULL /\ lists'[g].tail = NULL /\ lists[g] = NoList
      BY <1>1, <1>4, <1>10, <2>3 DEF CreationInv, OneCreates
    <3>2. Linked(g) = {}
      BY <3>1 DEF CreationInv, NodesInv, Linked
    <3> QED BY <1>5, <2>1, <3>1, <3>2 DEF Chained, TailIsLast
  <2> QED BY <2>2, <2>3
<1>11. ListsSound'
  BY <1>1, <1>10 DEF ListsSound
<1> QED BY <1>6, <1>7, <1>9, <1>11 DEF CreationInv

LEMMA NewNodeInv ==
  ASSUME RtcTypeOK, CreationInv, NEW t \in RtcTasks, NewNode(t)
  PROVE  CreationInv'
<1> DEFINE f == rtcArg[t].list
<1> PICK new : new = nodes + 1
  OBVIOUS
<1>1. /\ rtcPc[t] = "insert" /\ UNCHANGED <<lists, nextNode, overlapped>>
      /\ nodes < MaxAlarms
  BY DEF NewNode, At
<1>2. /\ rtcPc \in [RtcTasks -> {"idle", "create", "insert", "link", "tail"}]
      /\ rtcArg \in [RtcTasks -> Args ] /\ rtcNew \in [RtcTasks -> 0 .. MaxAlarms]
      /\ alarm \in [Alarms -> Args ] /\ nodes \in Nat /\ f \in Lists
      /\ new \in Alarms /\ MaxAlarms \in Nat
  <2>1. nodes \in Nat /\ MaxAlarms \in Nat /\ new \in Alarms
    BY <1>1, RtcAssumption DEF RtcTypeOK, Alarms
  <2> QED BY <2>1 DEF RtcTypeOK, Args, Lists
<1>3. \A u \in RtcTasks \ {t} : rtcPc'[u] = rtcPc[u] /\ rtcArg'[u] = rtcArg[u] /\ rtcNew'[u] = rtcNew[u]
  BY <1>2 DEF NewNode, Goto, ReturnFrom
<1>4. lists[f] # NoList
  BY <1>1 DEF CreationInv, CreationsInv
<1>5. ASSUME NEW g, ~ overlapped
      PROVE  ~ \E u \in RtcTasks : rtcPc[u] = "tail" /\ rtcArg[u].list = g
  BY <1>1, <1>5 DEF CreationInv, OneCreates
<1>6. CASE UNCHANGED <<nodes, alarm>> /\ ReturnFrom(t)
  <2>1. rtcPc'[t] = "idle"
    BY <1>2, <1>6 DEF ReturnFrom, Goto
  <2>2. \A g : Linked(g)' = Linked(g)
    BY <1>1, <1>3, <1>6, <2>1, LinkedUnchanged
  <2>3. CreationsInv' /\ OneCreates'
    BY <1>1, <1>3, <1>6, <2>1 DEF CreationInv, CreationsInv, OneCreates
  <2>4. NodesInv'
    BY <1>1, <1>6, <2>2 DEF CreationInv, NodesInv
  <2>5. ASSUME NEW g, ~ overlapped
        PROVE  ~ \E u \in RtcTasks : rtcPc'[u] = "tail" /\ rtcArg'[u].list = g
    BY <1>3, <1>5, <2>1, <2>5
  <2>6. ListsSound'
    BY <1>1, <1>5, <1>6, <2>2, <2>5 DEF CreationInv, ListsSound, Chained, TailIsLast
  <2> QED BY <2>3, <2>4, <2>6 DEF CreationInv
<1>7. CASE /\ nodes' = new
           /\ rtcNew' = [rtcNew EXCEPT ![t] = new]
           /\ alarm' = [alarm EXCEPT ![new] = rtcArg[t]]
           /\ Goto(t, "link") /\ UNCHANGED rtcArg
  <2>1. /\ rtcPc'[t] = "link" /\ rtcNew'[t] = new /\ rtcArg'[t] = rtcArg[t]
        /\ alarm'[new] = rtcArg[t] /\ \A n \in Alarms : n # new => alarm'[n] = alarm[n]
    BY <1>2, <1>7 DEF Goto
  <2>2. /\ \A n \in 1 .. nodes : n \in Alarms /\ n # new
        /\ 1 .. nodes' = (1 .. nodes) \cup {new} /\ new \notin 1 .. nodes
        /\ 1 .. nodes \subseteq 1 .. nodes'
    <3>1. \A n \in 1 .. nodes : n \in Alarms /\ n # new
      BY <1>1, <1>2 DEF Alarms
    <3>2. 1 .. nodes' = (1 .. nodes) \cup {new} /\ new \notin 1 .. nodes
      BY <1>2, <1>7
    <3> QED BY <3>1, <3>2
  <2>3. \A n : Unlinked(n)' <=> Unlinked(n) \/ n = new
    <3>1. ASSUME NEW n, Unlinked(n)' PROVE Unlinked(n) \/ n = new
      BY <1>3, <2>1, <3>1 DEF Unlinked
    <3>2. ASSUME NEW n, Unlinked(n) PROVE Unlinked(n)'
      BY <1>1, <1>3, <3>2 DEF Unlinked
    <3>3. Unlinked(new)'
      BY <2>1 DEF Unlinked
    <3> QED BY <3>1, <3>2, <3>3
  <2>4. ASSUME NEW g PROVE Linked(g)' = Linked(g)
    <3>1. ASSUME NEW n \in Linked(g)' PROVE n \in Linked(g)
      BY <2>1, <2>2, <2>3 DEF Linked
    <3>2. ASSUME NEW n \in Linked(g) PROVE n \in Linked(g)'
      BY <2>1, <2>2, <2>3 DEF Linked
    <3> QED BY <3>1, <3>2
  <2>5. CreationsInv'
    BY <1>1, <1>3, <1>4, <1>7, <2>1, <2>2 DEF CreationInv, CreationsInv
  <2>6. OneCreates'
    BY <1>1, <1>3, <1>7, <2>1 DEF CreationInv, OneCreates
  <2>7. NodesInv'
    <3>1. \A n \in 1 .. nodes' : lists[alarm'[n].list] # NoList
      BY <1>4, <2>1, <2>2 DEF CreationInv, NodesInv
    <3>2. ASSUME ~ overlapped, NEW n \in Alarms, nextNode[n] # NULL
          PROVE  n \in Linked(alarm'[n].list)
      <4>1. n \in Linked(alarm[n].list)
        BY <3>2 DEF CreationInv, NodesInv
      <4>2. n # new
        BY <2>2, <4>1 DEF Linked
      <4> QED BY <2>1, <4>1, <4>2
    <3> QED BY <1>1, <2>4, <3>1, <3>2 DEF NodesInv
  <2>8. ASSUME NEW g, ~ overlapped
        PROVE  ~ \E u \in RtcTasks : rtcPc'[u] = "tail" /\ rtcArg'[u].list = g
    BY <1>3, <1>5, <2>1, <2>8
  <2>9. ListsSound'
    BY <1>1, <1>5, <2>4, <2>8 DEF CreationInv, ListsSound, Chained, TailIsLast
  <2> QED BY <2>5, <2>6, <2>7, <2>9 DEF CreationInv
<1> QED BY <1>6, <1>7 DEF NewNode

LEMMA LinkNodeInv ==
  ASSUME RtcTypeOK, CreationInv, NEW t \in RtcTasks, LinkNode(t)
  PROVE  CreationInv'
<1> PICK f, new : f = rtcArg[t].list /\ new = rtcNew[t]
  OBVIOUS
<1>1. /\ rtcPc[t] = "link" /\ UNCHANGED <<alarm, nodes, rtcArg, rtcNew, overlapped>>
      /\ rtcPc' = [rtcPc EXCEPT ![t] = "tail"]
      /\ \/ /\ lists[f].head = NULL
            /\ lists' = [lists EXCEPT ![f].head = new] /\ UNCHANGED nextNode
         \/ /\ lists[f].head # NULL
            /\ nextNode' = IF lists[f].tail = NULL THEN nextNode
                           ELSE [nextNode EXCEPT ![lists[f].tail] = new]
            /\ UNCHANGED lists
  BY DEF LinkNode, At, Goto
<1>2. /\ rtcPc \in [RtcTasks -> {"idle", "create", "insert", "link", "tail"}]
      /\ rtcArg \in [RtcTasks -> Args ] /\ rtcNew \in [RtcTasks -> 0 .. MaxAlarms]
      /\ nodes \in Nat /\ f \in Lists /\ nextNode \in [Alarms -> 0 .. MaxAlarms]
      /\ lists[f] \in ListRecord /\ lists[f] # NoList
      /\ new \in 1 .. nodes /\ new # NULL /\ MaxAlarms \in Nat /\ nodes <= MaxAlarms
      /\ DOMAIN lists = Lists
  <2>1. rtcArg[t] \in Args /\ lists[f] # NoList /\ new \in 1 .. nodes
    BY <1>1 DEF RtcTypeOK, CreationInv, CreationsInv
  <2>2. f \in Lists
    BY <2>1 DEF Args, Lists
  <2>3. new # NULL
    BY <2>1 DEF RtcTypeOK, NULL
  <2> QED BY <2>1, <2>2, <2>3, RtcAssumption DEF RtcTypeOK, ListRecord
<1>3. rtcPc'[t] = "tail" /\ \A u \in RtcTasks \ {t} : rtcPc'[u] = rtcPc[u]
  BY <1>1, <1>2
<1>4. /\ \A g \in Lists \ {f} : lists'[g] = lists[g]
      /\ \A g \in Lists : lists'[g] # NoList <=> lists[g] # NoList
      /\ lists'[f] = IF lists[f].head = NULL THEN [head |-> new, tail |-> lists[f].tail] ELSE lists[f]
  <2>1. [head |-> new, tail |-> lists[f].tail] # NoList
    <3>1. new \in 0 .. MaxAlarms /\ lists[f].tail \in 0 .. MaxAlarms
      BY <1>2 DEF ListRecord
    <3> QED BY <3>1, RtcAssumption
  <2>2. lists[f] = [head |-> lists[f].head, tail |-> lists[f].tail]
    BY <1>2 DEF ListRecord
  <2>3. [lists[f] EXCEPT !.head = new] = [head |-> new, tail |-> lists[f].tail]
    BY <2>2
  <2>4. lists' = IF lists[f].head = NULL THEN [lists EXCEPT ![f] = [lists[f] EXCEPT !.head = new]] ELSE lists
    BY <1>1
  <2> QED BY <1>2, <2>1, <2>3, <2>4
<1>5. CreationsInv'
  <2>1. \A u \in RtcTasks : rtcArg[u].list \in Lists
    BY <1>2 DEF Args, Lists
  <2> QED BY <1>1, <1>2, <1>3, <1>4, <2>1 DEF CreationInv, CreationsInv
<1>6. OneCreates'
  BY <1>1, <1>3 DEF CreationInv, OneCreates
<1>7. \A n \in 1 .. nodes' : lists'[alarm'[n].list] # NoList
  <2>1. \A n \in 1 .. nodes : alarm[n].list \in Lists
    <3>1. \A n \in 1 .. nodes : n \in Alarms
      BY <1>2 DEF Alarms
    <3> QED BY <3>1 DEF RtcTypeOK, Args, Lists
  <2> QED BY <1>1, <1>4, <2>1 DEF CreationInv, NodesInv
<1>8. CASE overlapped
  BY <1>1, <1>5, <1>6, <1>7, <1>8 DEF CreationInv, NodesInv, ListsSound
<1>9. CASE ~ overlapped
  <2>1. new = nodes /\ alarm[new] = rtcArg[t] /\ new \in Alarms
    BY <1>1, <1>2, <1>9 DEF CreationInv, OneCreates, Alarms
  <2>2. /\ Unlinked(new) /\ ~ Unlinked(new)'
        /\ \A n : n # new => (Unlinked(n)' <=> Unlinked(n))
    <3>1. \A u \in RtcTasks \ {t} : rtcPc[u] = "idle"
      BY <1>1, <1>2, <1>9 DEF CreationInv, OneCreates
    <3> QED BY <1>1, <1>3, <3>1 DEF Unlinked
  <2>3. new \notin Linked(f) /\ Linked(f)' = Linked(f) \cup {new}
    BY <1>1, <1>2, <2>1, <2>2 DEF Linked
  <2>4. \A g : g # f => Linked(g)' = Linked(g)
    BY <1>1, <1>2, <2>1, <2>2 DEF Linked
  <2>5. nextNode[new] = NULL
    <3>1. new \notin Linked(alarm[new].list)
      BY <2>2 DEF Linked
    <3> QED BY <1>9, <2>1, <3>1 DEF CreationInv, NodesInv
  <2>6. Chained(f) /\ TailIsLast(f)
    BY <1>2, <1>9 DEF CreationInv, ListsSound
  <2>7. /\ lists[f].head # NULL => lists[f].tail \in Linked(f) /\ nextNode[lists[f].tail] = NULL
        /\ lists[f].head = NULL => lists[f].tail = NULL /\ Linked(f) = {}
    <3>1. ~ \E u \in RtcTasks : rtcPc[u] = "tail" /\ rtcArg[u].list = f
      BY <1>1, <1>9 DEF CreationInv, OneCreates
    <3> QED BY <2>6, <3>1 DEF Chained, TailIsLast
  <2>8. \A g : Linked(g) \subseteq 1 .. nodes /\ \A n \in Linked(g) : n \in Alarms /\ n \in Nat /\ n # NULL
    BY <1>2 DEF Linked, Alarms, NULL
  <2>9. /\ lists[f].head = NULL => nextNode' = nextNode
        /\ lists[f].head # NULL =>
             /\ lists[f].tail \in Linked(f) /\ nextNode'[lists[f].tail] = new
             /\ \A n \in Alarms : n # lists[f].tail => nextNode'[n] = nextNode[n]
    <3>1. lists[f].head # NULL => lists[f].tail # NULL /\ lists[f].tail \in Alarms
      BY <2>7, <2>8
    <3> QED BY <1>1, <1>2, <2>7, <3>1
  <2>10. nextNode'[new] = NULL
    BY <2>1, <2>3, <2>5, <2>9
  <2>11. ASSUME NEW n \in Alarms, nextNode'[n] # NULL, NEW g, g = alarm[n].list
         PROVE  n \in Linked(g)'
    <3>1. CASE lists[f].head # NULL /\ n = lists[f].tail
      <4>1. n \in Linked(f) /\ alarm[n].list = f
        BY <2>7, <3>1 DEF Linked
      <4> QED BY <2>3, <2>11, <4>1
    <3>2. CASE ~ (lists[f].head # NULL /\ n = lists[f].tail)
      <4>1. nextNode[n] # NULL
        BY <2>9, <2>11, <3>2
      <4>2. n \in Linked(g)
        BY <1>9, <2>11, <4>1 DEF CreationInv, NodesInv
      <4> QED BY <2>3, <2>4, <4>2
    <3> QED BY <3>1, <3>2
  <2>12. NodesInv'
    <3>1. \A n \in Alarms : nextNode'[n] # NULL => n \in Linked(alarm[n].list)'
      <4> SUFFICES ASSUME NEW n \in Alarms, nextNode'[n] # NULL
                   PROVE  n \in Linked(alarm[n].list)'
        OBVIOUS
      <4> PICK g : g = alarm[n].list
        OBVIOUS
      <4>1. g = alarm'[n].list
        BY <1>1
      <4> QED BY <2>11, <4>1 DEF Linked
    <3> QED BY <1>7, <3>1 DEF NodesInv
  <2>13. Chained(f)' /\ TailIsLast(f)'
    <3>1. CASE lists[f].head = NULL
      <4>1. Linked(f)' = {new} /\ lists'[f].head = new
        BY <1>4, <2>3, <2>7, <3>1
      <4>2. Chained(f)'
        BY <1>2, <2>10, <4>1 DEF Chained
      <4>3. TailIsLast(f)'
        BY <1>1, <1>3, <2>1, <2>10 DEF TailIsLast
      <4> QED BY <4>2, <4>3
    <3>2. CASE lists[f].head # NULL
      <4>1. lists'[f] = lists[f]
        BY <1>4, <3>2
      <4>2. TailIsLast(f)'
        BY <1>1, <1>3, <2>1, <2>10 DEF TailIsLast
      <4>3. ASSUME NEW n \in Linked(f)'
            PROVE  /\ nextNode'[n] # NULL => nextNode'[n] \in Linked(f)'
                   /\ n # lists[f].head => \E m \in Linked(f)' : m < n /\ nextNode'[m] = n
        <5>1. CASE n = new
          <6>1. lists[f].tail < new /\ nextNode'[lists[f].tail] = new /\ lists[f].tail \in Linked(f)'
            <7>1. lists[f].tail \in 1 .. nodes /\ lists[f].tail # new
              BY <2>3, <2>7, <2>8, <3>2
            <7>2. lists[f].tail \in Nat /\ nodes \in Nat /\ lists[f].tail <= nodes
              BY <7>1, <1>2
            <7> QED BY <2>1, <2>3, <2>9, <3>2, <7>1, <7>2
          <6> QED BY <2>10, <5>1, <6>1
        <5>2. CASE n # new
          <6>1. n \in Linked(f) /\ n \in Alarms
            BY <2>3, <2>8, <5>2
          <6>2. nextNode'[n] # NULL => nextNode'[n] \in Linked(f)'
            <7>1. CASE n = lists[f].tail
              BY <2>3, <2>9, <3>2, <7>1
            <7>2. CASE n # lists[f].tail
              BY <2>3, <2>6, <2>9, <3>2, <6>1, <7>2 DEF Chained
            <7> QED BY <7>1, <7>2
          <6>3. ASSUME n # lists[f].head
                PROVE  \E m \in Linked(f)' : m < n /\ nextNode'[m] = n
            <7>1. PICK m \in Linked(f) : m < n /\ nextNode[m] = n
              BY <2>6, <6>1, <6>3 DEF Chained
            <7>2. m # lists[f].tail /\ m \in Alarms
              BY <2>7, <2>8, <3>2, <6>1, <7>1
            <7>3. nextNode'[m] = n /\ m \in Linked(f)'
              BY <2>3, <2>9, <3>2, <7>1, <7>2
            <7> QED BY <7>1, <7>3
          <6> QED BY <6>2, <6>3
        <5> QED BY <5>1, <5>2
      <4>4. lists'[f].head \in Linked(f)' /\ lists'[f].head # NULL
        BY <2>3, <2>6, <3>2, <4>1 DEF Chained
      <4>5. Chained(f)'
        BY <4>1, <4>3, <4>4 DEF Chained
      <4> QED BY <4>2, <4>5
    <3> QED BY <3>1, <3>2
  <2>14. ASSUME NEW g \in Lists \ {f}, lists[g] # NoList
         PROVE  Chained(g)' /\ TailIsLast(g)'
    <3>1. Chained(g) /\ TailIsLast(g)
      BY <1>9, <2>14 DEF CreationInv, ListsSound
    <3>2. lists'[g] = lists[g] /\ Linked(g)' = Linked(g)
      BY <1>4, <2>4, <2>14
    <3>3. \A n \in Linked(g) : nextNode'[n] = nextNode[n]
      <4>1. \A n \in Linked(g) : n \in Alarms /\ alarm[n].list = g
        BY <2>8 DEF Linked
      <4>2. lists[f].head # NULL => alarm[lists[f].tail].list = f
        BY <2>7 DEF Linked
      <4> QED BY <2>9, <2>14, <4>1, <4>2
    <3>4. Chained(g)'
      BY <3>1, <3>2, <3>3 DEF Chained
    <3>5. /\ ~ \E u \in RtcTasks : rtcPc'[u] = "tail" /\ rtcArg'[u].list = g
          /\ ~ \E u \in RtcTasks : rtcPc[u] = "tail" /\ rtcArg[u].list = g
      <4>1. \A u \in RtcTasks \ {t} : rtcPc[u] = "idle"
        BY <1>1, <1>2, <1>9 DEF CreationInv, OneCreates
      <4> QED BY <1>1, <1>3, <2>14, <4>1
    <3>6. TailIsLast(g)'
      BY <3>1, <3>2, <3>3, <3>5 DEF TailIsLast
    <3> QED BY <3>4, <3>6
  <2>15. ListsSound'
    BY <1>4, <2>13, <2>14 DEF ListsSound
  <2> QED BY <1>5, <1>6, <2>12, <2>15 DEF CreationInv
<1> QED BY <1>8, <1>9

LEMMA MoveTailInv ==
  ASSUME RtcTypeOK, CreationInv, NEW t \in RtcTasks, MoveTail(t)
  PROVE  CreationInv'
<1> PICK f, new : f = rtcArg[t].list /\ new = rtcNew[t]
  OBVIOUS
<1>1. /\ rtcPc[t] = "tail" /\ UNCHANGED <<nextNode, alarm, nodes, overlapped>>
      /\ lists' = [lists EXCEPT ![f].tail = new]
      /\ rtcPc' = [rtcPc EXCEPT ![t] = "idle"]
      /\ rtcArg' = [rtcArg EXCEPT ![t] = NoArg]
      /\ rtcNew' = [rtcNew EXCEPT ![t] = NULL]
  BY DEF MoveTail, At, Goto, ReturnFrom
<1>2. /\ rtcPc \in [RtcTasks -> {"idle", "create", "insert", "link", "tail"}]
      /\ rtcArg \in [RtcTasks -> Args ] /\ rtcNew \in [RtcTasks -> 0 .. MaxAlarms]
      /\ f \in Lists /\ lists[f] \in ListRecord /\ lists[f] # NoList /\ DOMAIN lists = Lists
      /\ new \in 1 .. nodes /\ new # NULL /\ MaxAlarms \in Nat /\ nodes \in Nat /\ nodes <= MaxAlarms
  <2>1. rtcArg[t] \in Args /\ lists[f] # NoList /\ new \in 1 .. nodes
    BY <1>1 DEF RtcTypeOK, CreationInv, CreationsInv
  <2>2. f \in Lists
    BY <2>1 DEF Args, Lists
  <2>3. new # NULL
    BY <2>1 DEF RtcTypeOK, NULL
  <2> QED BY <2>1, <2>2, <2>3, RtcAssumption DEF RtcTypeOK, ListRecord
<1>3. /\ rtcPc'[t] = "idle"
      /\ \A u \in RtcTasks \ {t} : rtcPc'[u] = rtcPc[u] /\ rtcArg'[u] = rtcArg[u] /\ rtcNew'[u] = rtcNew[u]
  BY <1>1, <1>2
<1>4. /\ \A g \in Lists \ {f} : lists'[g] = lists[g]
      /\ \A g \in Lists : lists'[g] # NoList <=> lists[g] # NoList
      /\ lists'[f] = [head |-> lists[f].head, tail |-> new]
  <2>1. [head |-> lists[f].head, tail |-> new] # NoList
    <3>1. new \in 0 .. MaxAlarms /\ lists[f].head \in 0 .. MaxAlarms
      BY <1>2 DEF ListRecord
    <3> QED BY <3>1, RtcAssumption
  <2>2. lists[f] = [head |-> lists[f].head, tail |-> lists[f].tail]
    BY <1>2 DEF ListRecord
  <2>3. [lists[f] EXCEPT !.tail = new] = [head |-> lists[f].head, tail |-> new]
    BY <2>2
  <2>4. lists' = [lists EXCEPT ![f] = [lists[f] EXCEPT !.tail = new]]
    BY <1>1
  <2> QED BY <1>2, <2>1, <2>3, <2>4
<1>5. \A g : Linked(g)' = Linked(g)
  BY <1>1, <1>3, LinkedUnchanged
<1>6. \A n \in 1 .. nodes : alarm[n].list \in Lists
  <2>1. \A n \in 1 .. nodes : n \in Alarms
    BY <1>2 DEF Alarms
  <2> QED BY <2>1 DEF RtcTypeOK, Args, Lists
<1>7. CreationsInv'
  <2>1. \A u \in RtcTasks : rtcArg[u].list \in Lists
    BY <1>2 DEF Args, Lists
  <2> QED BY <1>1, <1>3, <1>4, <2>1 DEF CreationInv, CreationsInv
<1>8. OneCreates'
  BY <1>1, <1>3 DEF CreationInv, OneCreates
<1>9. NodesInv'
  BY <1>1, <1>4, <1>5, <1>6 DEF CreationInv, NodesInv
<1>10. ASSUME ~ overlapped, NEW g \in Lists, lists[g] # NoList
       PROVE  Chained(g)' /\ TailIsLast(g)'
  <2>1. /\ new = nodes /\ alarm[new] = rtcArg[t]
        /\ \A u \in RtcTasks \ {t} : rtcPc[u] = "idle"
    BY <1>1, <1>2, <1>10 DEF CreationInv, OneCreates
  <2>2. Chained(g) /\ TailIsLast(g)
    BY <1>10 DEF CreationInv, ListsSound
  <2>3. lists'[g].head = lists[g].head
    BY <1>4
  <2>4. Chained(g)'
    BY <1>1, <1>5, <2>2, <2>3 DEF Chained
  <2>5. ~ \E u \in RtcTasks : rtcPc'[u] = "tail" /\ rtcArg'[u].list = g
    BY <1>3, <2>1
  <2>6. CASE g = f
    <3>1. nextNode[new] = NULL
      BY <1>1, <2>1, <2>2, <2>6 DEF TailIsLast
    <3>2. new \in Linked(f)
      <4>1. ~ Unlinked(new)
        BY <1>1, <2>1 DEF Unlinked
      <4> QED BY <1>2, <2>1, <4>1 DEF Linked
    <3>3. lists'[f].tail = new /\ lists[f].head # NULL
      BY <1>4, <2>2, <2>6, <3>2 DEF Chained
    <3> QED BY <1>1, <1>5, <2>3, <2>4, <2>5, <2>6, <3>1, <3>2, <3>3 DEF TailIsLast
  <2>7. CASE g # f
    <3>1. lists'[g] = lists[g]
      BY <1>4, <2>7
    <3>2. ~ \E u \in RtcTasks : rtcPc[u] = "tail" /\ rtcArg[u].list = g
      BY <2>1, <2>7
    <3> QED BY <1>1, <1>5, <2>2, <2>4, <2>5, <3>1, <3>2 DEF TailIsLast
  <2> QED BY <2>6, <2>7
<1>11. ListsSound'
  BY <1>1, <1>4, <1>10 DEF ListsSound
<1> QED BY <1>7, <1>8, <1>9, <1>11 DEF CreationInv

LEMMA CreationStep == RtcTypeOK /\ CreationInv /\ [RtcNext]_rtcVars => RtcTypeOK' /\ CreationInv'
<1> SUFFICES ASSUME RtcTypeOK, CreationInv, [RtcNext]_rtcVars PROVE RtcTypeOK' /\ CreationInv'
  OBVIOUS
<1>1. CreationsInv
  BY DEF CreationInv
<1>2. CASE Second
  <2>1. UNCHANGED <<lists, nextNode, alarm, nodes, createVars>>
    BY <1>2 DEF Second
  <2> QED BY <1>2, <2>1, SecondType, CreationUnchanged
<1>3. CASE RTC_IRQHandler
  <2>1. UNCHANGED <<lists, nextNode, alarm, nodes, createVars>>
    BY <1>3 DEF RTC_IRQHandler
  <2> QED BY <1>3, <2>1, RtcInterruptType, CreationUnchanged
<1>4. ASSUME NEW t \in RtcTasks, NEW arg \in AlarmArgs, CallCreate(t, arg) PROVE RtcTypeOK' /\ CreationInv'
  BY <1>4, CallCreateType, CallCreateInv
<1>5. ASSUME NEW t \in RtcTasks, createStep(t) PROVE RtcTypeOK' /\ CreationInv'
  <2>1. CASE CreateList(t)
    BY <2>1, CreateListType, CreateListInv
  <2>2. CASE NewNode(t)
    BY <2>2, NewNodeType, NewNodeInv
  <2>3. CASE LinkNode(t)
    BY <1>1, <2>3, LinkNodeType, LinkNodeInv
  <2>4. CASE MoveTail(t)
    BY <1>1, <2>4, MoveTailType, MoveTailInv
  <2> QED BY <1>5, <2>1, <2>2, <2>3, <2>4 DEF createStep
<1>6. CASE UNCHANGED rtcVars
  <2>1. UNCHANGED <<lists, nextNode, alarm, nodes, createVars>>
    BY <1>6 DEF rtcVars
  <2>2. RtcTypeOK'
    BY <1>6 DEF RtcTypeOK, rtcVars, createVars, rtcClock
  <2> QED BY <2>1, <2>2, CreationUnchanged
<1> QED BY <1>2, <1>3, <1>4, <1>5, <1>6 DEF RtcNext

-----------------------------------------------------------------------------
(* The alarms given in a second.                                           *)

LEMMA ClockStep ==
  RtcTypeOK /\ CreationInv /\ ClockInv /\ [RtcNext]_rtcVars => ClockInv'
<1> SUFFICES ASSUME RtcTypeOK, CreationInv, ClockInv, [RtcNext]_rtcVars PROVE ClockInv'
  OBVIOUS
<1>1. nodes \in Nat /\ rtcPc \in [RtcTasks -> {"idle", "create", "insert", "link", "tail"}]
  BY RtcAssumption DEF RtcTypeOK
<1>2. CASE Second \/ UNCHANGED rtcVars
  <2>1. /\ UNCHANGED <<lists, nodes, rtcPc, rtcNew, rtcIntr, overlapped, created>>
        /\ gave' \subseteq gave
    BY <1>2 DEF Second, rtcVars, createVars, rtcClock
  <2>2. \A n : Unlinked(n)' <=> Unlinked(n)
    BY <2>1 DEF Unlinked
  <2> QED BY <2>1, <2>2 DEF ClockInv
<1>3. CASE RTC_IRQHandler
  <2>1. UNCHANGED <<lists, nodes, rtcPc, rtcNew, rtcIntr, overlapped, created>>
    BY <1>3 DEF RTC_IRQHandler, createVars
  <2>2. \A n : Unlinked(n)' <=> Unlinked(n)
    BY <2>1 DEF Unlinked
  <2>3. ~ overlapped => gave' \subseteq 1 .. nodes
    <3>1. ~ overlapped => \A f \in Lists : Each(f) \subseteq 1 .. nodes
      BY VisitsLinked DEF CreationInv, Linked
    <3> QED BY <1>3, <3>1 DEF RTC_IRQHandler, Lists, Frequencies
  <2> QED BY <2>1, <2>2, <2>3 DEF ClockInv
<1>4. ASSUME NEW t \in RtcTasks, NEW arg \in AlarmArgs, CallCreate(t, arg) PROVE ClockInv'
  <2>1. /\ UNCHANGED <<lists, nodes, alarm, rtcNew, rtcIntr, gave, created>> /\ ~ overlapped
        /\ rtcPc[t] = "idle" /\ rtcPc' = [rtcPc EXCEPT ![t] = rtcPc'[t]] /\ rtcPc'[t] \in {"create", "insert"}
    BY <1>1, <1>4 DEF CallCreate, At, Goto, rtcClock
  <2>2. \A n : Unlinked(n)' <=> Unlinked(n)
    <3>1. \A u \in RtcTasks : rtcPc'[u] = "link" <=> rtcPc[u] = "link"
      BY <1>1, <2>1
    <3> QED BY <2>1, <3>1 DEF Unlinked
  <2> QED BY <2>1, <2>2 DEF ClockInv
<1>5. ASSUME NEW t \in RtcTasks, createStep(t) PROVE ClockInv'
  <2>1. UNCHANGED <<overlapped, gave>> /\ \A u \in RtcTasks \ {t} : rtcPc'[u] = rtcPc[u] /\ rtcNew'[u] = rtcNew[u]
    BY <1>5 DEF createStep, CreateList, NewNode, LinkNode, MoveTail, Goto, ReturnFrom, rtcClock, RtcTypeOK
  <2>2. CASE CreateList(t)
    <3>1. UNCHANGED <<nodes, created>> /\ rtcIntr' = TRUE /\ rtcPc'[t] # "link"
      BY <1>1, <2>2 DEF CreateList, Goto, ReturnFrom
    <3>2. \A n : Unlinked(n)' => Unlinked(n)
      BY <2>1, <3>1 DEF Unlinked
    <3> QED BY <2>1, <3>1, <3>2 DEF ClockInv
  <2>3. CASE NewNode(t)
    <3>1. /\ UNCHANGED <<lists, rtcIntr, created>> /\ nodes' \in {nodes, nodes + 1}
          /\ rtcPc'[t] = "link" => rtcNew'[t] = nodes + 1
      BY <1>1, <2>3 DEF NewNode, Goto, ReturnFrom, RtcTypeOK
    <3>2. \A n \in 1 .. nodes : Unlinked(n)' => Unlinked(n)
      BY <1>1, <2>1, <3>1 DEF Unlinked
    <3>3. 1 .. nodes \subseteq 1 .. nodes'
      BY <1>1, <3>1
    <3> QED BY <2>1, <3>1, <3>2, <3>3 DEF ClockInv
  <2>4. CASE LinkNode(t)
    <3>1. /\ UNCHANGED <<nodes, created, rtcIntr>> /\ rtcPc'[t] = "tail" /\ rtcPc[t] = "link"
      BY <1>1, <2>4 DEF LinkNode, Goto, At
    <3>2. \A n : Unlinked(n)' => Unlinked(n)
      BY <2>1, <3>1 DEF Unlinked
    <3>3. \E f \in Lists : lists[f] # NoList
      <4>1. rtcArg[t] \in Args /\ lists[rtcArg[t].list] # NoList
        BY <3>1 DEF RtcTypeOK, CreationInv, CreationsInv
      <4> QED BY <4>1 DEF Args, Lists
    <3> QED BY <2>1, <3>1, <3>2, <3>3 DEF ClockInv
  <2>5. CASE MoveTail(t)
    <3>1. /\ UNCHANGED <<nodes, rtcIntr>> /\ created' = created \cup {rtcNew[t]}
          /\ rtcPc'[t] = "idle" /\ rtcPc[t] = "tail"
      BY <1>1, <2>5 DEF MoveTail, Goto, At, ReturnFrom
    <3>2. \A n : Unlinked(n)' => Unlinked(n)
      BY <2>1, <3>1 DEF Unlinked
    <3>3. ~ overlapped => ~ Unlinked(rtcNew[t])
      BY <3>1 DEF CreationInv, OneCreates, Unlinked
    <3>4. (\E f \in Lists : lists[f] # NoList) /\ rtcNew[t] \in 1 .. nodes
      <4>1. rtcArg[t] \in Args /\ lists[rtcArg[t].list] # NoList /\ rtcNew[t] \in 1 .. nodes
        BY <3>1 DEF RtcTypeOK, CreationInv, CreationsInv
      <4> QED BY <4>1 DEF Args, Lists
    <3>5. ASSUME ~ overlapped, NEW n \in created' PROVE n \in 1 .. nodes' /\ ~ Unlinked(n)'
      <4>1. CASE n \in created
        BY <3>1, <3>2, <3>5, <4>1 DEF ClockInv
      <4>2. CASE n = rtcNew[t]
        <5>1. ~ Unlinked(n)
          BY <3>3, <3>5, <4>2
        <5> QED BY <3>1, <3>2, <3>4, <4>2, <5>1
      <4> QED BY <3>1, <4>1, <4>2
    <3> QED BY <2>1, <3>1, <3>4, <3>5 DEF ClockInv
  <2> QED BY <1>5, <2>2, <2>3, <2>4, <2>5 DEF createStep
<1> QED BY <1>2, <1>3, <1>4, <1>5 DEF RtcNext

(* The interrupt gives the alarms of this second, and only these.          *)
LEMMA InterruptOnTime ==
  ASSUME RtcTypeOK, CreationInv, ClockInv, RTC_IRQHandler
  PROVE  AlarmsOnTime'
<1>1. SUFFICES ASSUME ~ overlapped PROVE AlarmsOnTime'
  BY DEF RTC_IRQHandler, createVars, AlarmsOnTime
<1>2. UNCHANGED <<alarm, rtcNow, promised>>
  BY DEF RTC_IRQHandler
<1>3. \A f \in Lists : Each(f) = Linked(f)
  BY <1>1, VisitsLinked DEF CreationInv
<1>4. ASSUME NEW n, NEW f \in Frequencies, n \in Each(f), f # "timed"
      PROVE  n \in gave' <=> FallsNow(f)
  <2>1. \A g \in Lists : n \in Each(g) => g = f
    BY <1>3, <1>4 DEF Linked, Lists
  <2>2. CASE f = "everySecond"
    BY <1>4, <2>2 DEF RTC_IRQHandler, FallsNow
  <2>3. CASE f = "everyMinute"
    BY <1>4, <2>1, <2>3 DEF RTC_IRQHandler, FallsNow, Lists, Frequencies
  <2>4. CASE f = "everyHour"
    BY <1>4, <2>1, <2>4 DEF RTC_IRQHandler, FallsNow, Lists, Frequencies
  <2>5. CASE f = "everyDay"
    BY <1>4, <2>1, <2>5 DEF RTC_IRQHandler, FallsNow, Lists, Frequencies
  <2> QED BY <1>4, <2>2, <2>3, <2>4, <2>5 DEF Frequencies
<1>5. ASSUME NEW n \in Each("timed")
      PROVE  n \in gave' <=> alarm[n].time = rtcNow
  <2>1. \A g \in Lists : n \in Each(g) => g = "timed"
    BY <1>3, <1>5 DEF Linked, Lists
  <2> QED BY <1>5, <2>1 DEF RTC_IRQHandler, Lists, Frequencies
<1>6. ASSUME NEW n, NEW f \in Lists, n \in Each(f)
      PROVE  n \in Alarms /\ (n \in gave' <=> Falls(n))
  <2>1. n \in Alarms /\ alarm[n].list = f
    BY <1>3, <1>6 DEF Linked, Each
  <2>2. CASE f = "timed"
    BY <1>5, <1>6, <2>1, <2>2, TestsAreRight
  <2>3. CASE f # "timed"
    <3>1. f \in Frequencies
      BY <2>3 DEF Lists
    <3> QED BY <1>4, <1>6, <2>1, <2>3, <3>1, TestsAreRight
  <2> QED BY <2>2, <2>3
<1>7. ASSUME NEW n \in promised
      PROVE  \E f \in Lists : n \in Each(f)
  <2>1. n \in created /\ n \in Alarms
    BY DEF RtcTypeOK
  <2>2. n \in Linked(alarm[n].list)
    BY <1>1, <2>1 DEF ClockInv, Linked
  <2>3. alarm[n].list \in Lists
    BY <2>1 DEF RtcTypeOK, Args, Lists
  <2> QED BY <1>3, <2>2, <2>3
<1>8. ASSUME NEW n \in gave'
      PROVE  \E f \in Lists : n \in Each(f)
  BY <1>8 DEF RTC_IRQHandler, Lists, Frequencies
<1>9. \A n : Falls(n)' <=> Falls(n)
  BY <1>2 DEF Falls
<1>10. (\A n \in promised : Falls(n) => n \in gave') /\ (\A n \in gave' : Falls(n))
  BY <1>6, <1>7, <1>8
<1> QED BY <1>2, <1>9, <1>10 DEF AlarmsOnTime

LEMMA OnTimeStep ==
  RtcTypeOK /\ CreationInv /\ ClockInv /\ AlarmsOnTime /\ [RtcNext]_rtcVars => AlarmsOnTime'
<1> SUFFICES ASSUME RtcTypeOK, CreationInv, ClockInv, AlarmsOnTime, [RtcNext]_rtcVars
             PROVE  AlarmsOnTime'
  OBVIOUS
<1>1. CASE RTC_IRQHandler
  BY <1>1, InterruptOnTime
<1>2. CASE Second
  <2>1. SUFFICES ASSUME ~ rtcIntr, ~ overlapped PROVE AlarmsOnTime'
    BY <1>2 DEF Second, createVars, AlarmsOnTime
  <2>2. created = {}
    <3>1. SUFFICES ASSUME NEW n \in created PROVE FALSE
      OBVIOUS
    <3>2. n \in 1 .. nodes /\ n \in Alarms
      BY <2>1 DEF ClockInv, RtcTypeOK
    <3>3. lists[alarm[n].list] # NoList /\ alarm[n].list \in Lists
      BY <3>2 DEF CreationInv, NodesInv, RtcTypeOK, Args, Lists
    <3> QED BY <2>1, <3>3 DEF ClockInv
  <2> QED BY <1>2, <2>2 DEF Second, AlarmsOnTime
<1>3. CASE UNCHANGED rtcVars
  <2>1. UNCHANGED <<alarm, rtcNow, promised, gave, rtcDue, overlapped>>
    BY <1>3 DEF rtcVars, createVars, rtcClock
  <2>2. \A n : Falls(n)' <=> Falls(n)
    BY <2>1 DEF Falls
  <2> QED BY <2>1, <2>2 DEF AlarmsOnTime
<1>4. ASSUME NEW t \in RtcTasks,
             createStep(t) \/ \E arg \in AlarmArgs : CallCreate(t, arg)
      PROVE  AlarmsOnTime'
  <2>1. UNCHANGED <<rtcNow, rtcDue, promised, gave>> /\ (overlapped => overlapped')
    <3>1. CASE createStep(t)
      BY <3>1 DEF createStep, CreateList, NewNode, LinkNode, MoveTail, rtcClock
    <3>2. CASE \E arg \in AlarmArgs : CallCreate(t, arg)
      BY <3>2 DEF CallCreate, rtcClock
    <3> QED BY <1>4, <3>1, <3>2
  <2>2. SUFFICES ASSUME ~ rtcDue, ~ overlapped PROVE AlarmsOnTime'
    BY <2>1 DEF AlarmsOnTime
  <2>3. \A n \in 1 .. nodes : alarm'[n] = alarm[n]
    <3>1. nodes \in Nat
      BY RtcAssumption DEF RtcTypeOK
    <3>2. \A n \in 1 .. nodes : n # nodes + 1 /\ n \in Alarms
      BY <3>1, RtcAssumption DEF RtcTypeOK, Alarms
    <3>3. alarm' = alarm \/ alarm' = [alarm EXCEPT ![nodes + 1] = rtcArg[t]]
      BY <1>4 DEF createStep, CallCreate, CreateList, NewNode, LinkNode, MoveTail
    <3> QED BY <3>2, <3>3 DEF RtcTypeOK
  <2>4. \A n \in 1 .. nodes : Falls(n)' <=> Falls(n)
    BY <2>1, <2>3 DEF Falls
  <2>5. promised \subseteq 1 .. nodes /\ gave \subseteq 1 .. nodes
    BY <2>2 DEF ClockInv, RtcTypeOK
  <2> QED BY <2>1, <2>2, <2>4, <2>5 DEF AlarmsOnTime
<1> QED BY <1>1, <1>2, <1>3, <1>4 DEF RtcNext

LEMMA RtcStep == RtcInv /\ [RtcNext]_rtcVars => RtcInv'
BY CreationStep, ClockStep, OnTimeStep DEF RtcInv

(* In every second exactly the alarms of this second are given, while no   *)
(* two creations overlap.                                                  *)
THEOREM AlarmsInvariance == RtcSpec => []RtcInv
<1>1. RtcInit => RtcInv
  BY RtcInitInv
<1>2. RtcInv /\ [RtcNext]_rtcVars => RtcInv'
  BY RtcStep
<1> QED BY <1>1, <1>2, PTL DEF RtcSpec

THEOREM AlarmsGivenOnTime == RtcSpec => []AlarmsOnTime
<1>1. RtcInv => AlarmsOnTime
  BY DEF RtcInv
<1> QED BY <1>1, AlarmsInvariance, PTL

-----------------------------------------------------------------------------
(* The UART driver.                                                        *)

(* Where a task of put() holds or is about to hold a character.            *)
Putting == {"send", "check", "pop", "write"}

(* Before the scheduler runs only the boot code prints, and it polls the   *)
(* transmitter; each putChar() of a string lowers the characters left.     *)
CallOk(t) ==
  /\ putPc[t] # "poll"
  /\ putPc[t] \in {"take"} \cup Putting => left[t] >= 1
  /\ putPc[t] \in {"take", "send"} => puts[t] + left[t] <= MaxChars[t]
  /\ putPc[t] \in {"check", "pop", "write"} => puts[t] + left[t] <= MaxChars[t] + 1

CallsInv ==
  /\ putPc[UartBoot] \in {"idle", "poll"}
  /\ uartOs => putPc[UartBoot] = "idle"
  /\ \A t \in Putters : hand[t] # NoChar <=> putPc[t] = "write"
  /\ \A t \in UartTasks : CallOk(t)

BootInv ==
  ~ uartOs =>
    /\ txQueue = <<>>
    /\ \A t \in UartTasks : putPc[t] = "idle"
    /\ putPc[UartBoot] = "idle" => TxIdle

(* The interrupt is due, and pending, only for an empty FIFO.              *)
FifoInv ==
  /\ threDue => thrFifo = <<>> /\ shift # NoChar
  /\ threIrq => thrFifo = <<>>

(* The task of printf() that is to write THR itself found the transmitter  *)
(* idle, and nothing has been written since: it holds the semaphore.       *)
Alone(t) ==
  /\ putPc[t] \in Putting => printfSem = t
  /\ putPc[t] \in {"pop", "write"} => TxIdle /\ ~ threDue /\ ~ threIrq

OneAtATime == direct = {} => \A t \in UartTasks : Alone(t)

PutTypes ==
  /\ uartOs \in BOOLEAN /\ direct \in DirectSets
  /\ printfSem \in UartTasks \cup {NoTask}
  /\ putPc \in [Putters -> {"idle", "poll", "take", "send", "check", "pop", "write", "flush"}]
  /\ left \in [Putters -> 0 .. MaxString]
  /\ puts \in [Putters -> Nat] /\ \A p \in Putters : puts[p] <= MaxChars[p]
  /\ hand \in [Putters -> Chars \cup {NoChar}]

QueueTypes == txQueue \in Seq(Chars) /\ Len(txQueue) <= UartTxQSize /\ queued \in Seq(Chars)

HwTypes ==
  /\ thrFifo \in Seq(Chars) /\ Len(thrFifo) <= HwFifoSize
  /\ shift \in Chars \cup {NoChar}
  /\ threDue \in BOOLEAN /\ threIrq \in BOOLEAN
  /\ line \in Seq(Chars) /\ overrun \subseteq Chars

RxTypes == rxFifo \in 0 .. HwFifoSize /\ rxQueue \in 0 .. UartRxQSize

UartInv ==
  /\ PutTypes /\ QueueTypes /\ HwTypes /\ RxTypes
  /\ CallsInv /\ BootInv /\ FifoInv /\ OneAtATime /\ PrintfInOrder

-----------------------------------------------------------------------------
(* The constants, the characters, and a write to THR.                      *)

LEMMA UartConstants ==
  /\ UartBoot \in Putters /\ UartBoot \notin UartTasks
  /\ \A t \in UartTasks : t \in Putters /\ t # UartBoot /\ t # NoTask
  /\ UartTxQSize \in Nat /\ UartTxQSize >= 1 /\ UartRxQSize \in Nat
  /\ HwFifoSize \in Nat /\ HwFifoSize >= 1 /\ MaxString \in Nat /\ MaxString >= 1
  /\ \A p \in Putters : MaxChars[p] \in Nat
BY UartAssumption, SMT DEF Putters

LEMMA CharIs ==
  ASSUME NEW p \in Putters, NEW i \in Nat, i >= 1, i <= MaxChars[p]
  PROVE  <<p, i>> \in Chars
<1>1. i \in 1 .. MaxChars[p]
  BY UartConstants, SMT
<1>2. <<p, i>> \in {p} \X (1 .. MaxChars[p])
  BY <1>1
<1> QED
  BY <1>2, Zenon DEF Chars

LEMMA NoCharIsNone == NoChar \notin Chars
<1> SUFFICES ASSUME NoChar \in Chars PROVE FALSE
  OBVIOUS
<1>1. PICK p \in Putters : NoChar \in {p} \X (1 .. MaxChars[p])
  BY Zenon DEF Chars
<1>2. NoChar \in Putters \X Nat
  BY <1>1, UartConstants, SMT
<1> QED
  BY <1>2, UartAssumption DEF Putters

LEMMA WriteThrType ==
  ASSUME NEW s \in Seq(Chars), HwTypes, WriteThr(s)
  PROVE  HwTypes'
<1> DEFINE room == HwFifoSize - Len(thrFifo)
           k == IF Len(s) < room THEN Len(s) ELSE room
<1>1. Len(thrFifo) \in Nat /\ Len(s) \in Nat /\ room \in Nat /\ k \in 0 .. Len(s) /\ k <= room
  BY UartConstants, LenProperties, SMT DEF HwTypes
<1>2. \A i \in 1 .. Len(s) : s[i] \in Chars
  BY ElementOfSeq
<1>3. SubSeq(s, 1, k) \in Seq(Chars) /\ Len(SubSeq(s, 1, k)) = k
  <2>1. \A i \in 1 .. k : s[i] \in Chars
    BY <1>1, <1>2, SMT
  <2> HIDE DEF k
  <2>2. /\ SubSeq(s, 1, k) \in Seq(Chars)
        /\ Len(SubSeq(s, 1, k)) = IF 1 <= k THEN k - 1 + 1 ELSE 0
    BY <2>1, <1>1, SubSeqProperties
  <2> QED
    BY <2>2, <1>1, SMT
<1>4. thrFifo' = thrFifo \o SubSeq(s, 1, k) /\ overrun' = overrun \cup {s[i] : i \in (room + 1) .. Len(s)}
  BY DEF WriteThr
<1>5. \A i \in (room + 1) .. Len(s) : s[i] \in Chars
  BY <1>1, <1>2, SMT
<1>6. overrun' \subseteq Chars
  BY <1>4, <1>5 DEF HwTypes
<1>7. thrFifo' \in Seq(Chars) /\ Len(thrFifo') = Len(thrFifo) + k
  <2> HIDE DEF k, room
  <2>1. thrFifo \in Seq(Chars)
    BY DEF HwTypes
  <2> QED
    BY <2>1, <1>3, <1>4, ConcatProperties
<1>8. Len(thrFifo') <= HwFifoSize
  BY <1>7, <1>1, UartConstants, SMT
<1>9. threIrq' \in BOOLEAN /\ threDue' \in BOOLEAN /\ shift' = shift /\ line' = line
  BY DEF WriteThr, HwTypes
<1> QED
  BY <1>6, <1>7, <1>8, <1>9 DEF HwTypes

(* What finds room in an empty FIFO is all of it afterwards.               *)
LEMMA WriteThrFits ==
  ASSUME NEW s \in Seq(Chars), Len(s) <= HwFifoSize, thrFifo = <<>>, WriteThr(s)
  PROVE  thrFifo' = s
<1> DEFINE room == HwFifoSize - Len(thrFifo)
           k == IF Len(s) < room THEN Len(s) ELSE room
<1>1. Len(s) \in Nat
  BY LenProperties
<1>2. k = Len(s)
  BY <1>1, UartConstants, EmptySeq, SMT
<1>3. thrFifo' = thrFifo \o SubSeq(s, 1, Len(s))
  BY <1>2 DEF WriteThr
<1> QED
  BY <1>3, SubSeqFull, ConcatEmptySeq

LEMMA OneChar ==
  ASSUME NEW c \in Chars
  PROVE  <<c>> \in Seq(Chars) /\ Len(<<c>>) = 1 /\ <<c>> # <<>>
<1> HIDE DEF Chars
<1> QED
  BY SMT

-----------------------------------------------------------------------------
(* Types.                                                                  *)

LEMMA UartInitInv == UartInit => UartInv
<1> SUFFICES ASSUME UartInit PROVE UartInv
  OBVIOUS
<1> USE DEF UartInit
<1>1. PutTypes
  <2>1. \A p \in Putters : puts[p] = 0 /\ MaxChars[p] \in Nat
    BY UartConstants
  <2>2. \A p \in Putters : puts[p] <= MaxChars[p]
    BY <2>1, SMT
  <2>3. 0 \in 0 .. MaxString
    BY UartConstants, SMT
  <2>4. left \in [Putters -> 0 .. MaxString] /\ puts \in [Putters -> Nat]
    BY <2>3
  <2>5. hand \in [Putters -> Chars \cup {NoChar}]
    OBVIOUS
  <2>6. putPc \in [Putters -> {"idle", "poll", "take", "send", "check", "pop", "write", "flush"}]
    OBVIOUS
  <2> QED
    BY <2>2, <2>4, <2>5, <2>6 DEF PutTypes
<1>2. <<>> \in Seq(Chars) /\ Len(<<>>) = 0
  BY EmptySeq
<1>3. QueueTypes /\ HwTypes /\ RxTypes
  <2>1. Len(<<>>) <= HwFifoSize /\ Len(<<>>) <= UartTxQSize /\ 0 \in 0 .. HwFifoSize /\ 0 \in 0 .. UartRxQSize
    BY <1>2, UartConstants, SMT
  <2> QED
    BY <1>2, <2>1, Zenon DEF QueueTypes, HwTypes, RxTypes
<1>4. CallsInv
  BY UartConstants, SMT DEF CallsInv, CallOk, Putting
<1>5. BootInv /\ FifoInv /\ OneAtATime
  BY UartConstants, SMT DEF BootInv, FifoInv, OneAtATime, Alone, TxIdle, Putting
<1>6. PrintfInOrder
  <2>1. InHand = <<>> /\ InShift = <<>>
    BY UartConstants DEF InHand, InShift
  <2> QED
    BY <2>1, <1>2, ConcatEmptySeq DEF PrintfInOrder
<1> QED
  BY <1>1, <1>3, <1>4, <1>5, <1>6 DEF UartInv

LEMMA UartTypesAre == PutTypes /\ QueueTypes /\ HwTypes /\ RxTypes <=> UartTypeOK
BY DEF UartTypeOK, PutTypes, QueueTypes, HwTypes, RxTypes

LEMMA TransmitterType ==
  ASSUME HwTypes, Load \/ RaiseThre \/ ShiftOut
  PROVE  HwTypes'
<1>1. CASE Load
  <2>1. thrFifo \in Seq(Chars) /\ thrFifo # <<>>
    BY <1>1 DEF Load, HwTypes
  <2>2. Head(thrFifo) \in Chars /\ Tail(thrFifo) \in Seq(Chars) /\ Len(Tail(thrFifo)) = Len(thrFifo) - 1
    BY <2>1, HeadTailProperties
  <2>3. Len(thrFifo) \in Nat
    BY <2>1, LenProperties
  <2> QED
    BY <1>1, <2>2, <2>3, UartConstants, SMT DEF Load, HwTypes
<1>2. CASE RaiseThre
  BY <1>2 DEF RaiseThre, HwTypes
<1>3. CASE ShiftOut
  <2>1. Append(line, shift) \in Seq(Chars)
    BY <1>3, AppendProperties DEF ShiftOut, HwTypes
  <2> QED
    BY <1>3, <2>1 DEF ShiftOut, HwTypes
<1> QED
  BY <1>1, <1>2, <1>3

(* What the interrupt moves, and what it leaves in the queue.              *)
LEMMA MovedFacts ==
  ASSUME QueueTypes,
         NEW n, n = IF Len(txQueue) < HwFifoSize THEN Len(txQueue) ELSE HwFifoSize
  PROVE  /\ n \in 0 .. Len(txQueue) /\ n <= HwFifoSize
         /\ SubSeq(txQueue, 1, n) \in Seq(Chars) /\ Len(SubSeq(txQueue, 1, n)) = n
         /\ SubSeq(txQueue, n + 1, Len(txQueue)) \in Seq(Chars)
         /\ Len(SubSeq(txQueue, n + 1, Len(txQueue))) = Len(txQueue) - n
         /\ SubSeq(txQueue, 1, n) \o SubSeq(txQueue, n + 1, Len(txQueue)) = txQueue
<1>1. txQueue \in Seq(Chars) /\ Len(txQueue) \in Nat
  BY LenProperties DEF QueueTypes
<1>2. n \in 0 .. Len(txQueue) /\ n <= HwFifoSize
  BY <1>1, UartConstants, SMT
<1>3. \A i \in 1 .. Len(txQueue) : txQueue[i] \in Chars
  BY <1>1, ElementOfSeq
<1>4. \A i \in 1 .. n : txQueue[i] \in Chars
  BY <1>1, <1>2, <1>3, SMT
<1>5. \A i \in n + 1 .. Len(txQueue) : txQueue[i] \in Chars
  BY <1>1, <1>2, <1>3, SMT
<1>6. /\ SubSeq(txQueue, 1, n) \in Seq(Chars)
      /\ Len(SubSeq(txQueue, 1, n)) = IF 1 <= n THEN n - 1 + 1 ELSE 0
  BY <1>2, <1>4, SubSeqProperties
<1>7. n + 1 \in Int /\ Len(txQueue) \in Int
  BY <1>1, <1>2, SMT
<1>8. /\ SubSeq(txQueue, n + 1, Len(txQueue)) \in Seq(Chars)
      /\ Len(SubSeq(txQueue, n + 1, Len(txQueue))) =
           IF n + 1 <= Len(txQueue) THEN Len(txQueue) - (n + 1) + 1 ELSE 0
  BY <1>5, <1>7, SubSeqProperties
<1>9. SubSeq(txQueue, 1, n) \o SubSeq(txQueue, n + 1, Len(txQueue)) = SubSeq(txQueue, 1, Len(txQueue))
  <2>1. 1 \in 1 .. Len(txQueue) + 1 /\ n \in 1 - 1 .. Len(txQueue) /\ Len(txQueue) \in n .. Len(txQueue)
    BY <1>1, <1>2, SMT
  <2> QED
    BY <2>1, <1>1, ConcatAdjacentSubSeq
<1>10. SubSeq(txQueue, 1, Len(txQueue)) = txQueue
  BY <1>1, SubSeqFull
<1>11. (IF 1 <= n THEN n - 1 + 1 ELSE 0) = n
  BY <1>1, <1>2, SMT
<1>12. (IF n + 1 <= Len(txQueue) THEN Len(txQueue) - (n + 1) + 1 ELSE 0) = Len(txQueue) - n
  BY <1>1, <1>2, SMT
<1> QED
  BY <1>2, <1>6, <1>8, <1>9, <1>10, <1>11, <1>12, Zenon

LEMMA InterruptType ==
  ASSUME QueueTypes, HwTypes, TransmitInterrupt
  PROVE  QueueTypes' /\ HwTypes'
<1>1. PICK n : n = IF Len(txQueue) < HwFifoSize THEN Len(txQueue) ELSE HwFifoSize
  OBVIOUS
<1>2. /\ n \in 0 .. Len(txQueue)
      /\ SubSeq(txQueue, 1, n) \in Seq(Chars)
      /\ SubSeq(txQueue, n + 1, Len(txQueue)) \in Seq(Chars)
      /\ Len(SubSeq(txQueue, n + 1, Len(txQueue))) = Len(txQueue) - n
  BY <1>1, MovedFacts
<1>3. WriteThr(SubSeq(txQueue, 1, n)) /\ txQueue' = SubSeq(txQueue, n + 1, Len(txQueue)) /\ queued' = queued
  BY <1>1 DEF TransmitInterrupt
<1>4. HwTypes'
  BY <1>2, <1>3, WriteThrType
<1>5. Len(txQueue) \in Nat
  BY LenProperties DEF QueueTypes
<1>6. QueueTypes'
  BY <1>2, <1>3, <1>5, UartConstants, SMT DEF QueueTypes
<1> QED
  BY <1>4, <1>6

LEMMA BootPutType ==
  ASSUME PutTypes, QueueTypes, HwTypes, BootPut
  PROVE  PutTypes' /\ QueueTypes' /\ HwTypes' /\ <<UartBoot, puts[UartBoot] + 1>> \in Chars
<1>1. puts[UartBoot] \in Nat /\ MaxChars[UartBoot] \in Nat /\ puts[UartBoot] < MaxChars[UartBoot]
  BY UartConstants DEF PutTypes, BootPut
<1>2. puts[UartBoot] + 1 \in Nat /\ puts[UartBoot] + 1 >= 1 /\ puts[UartBoot] + 1 <= MaxChars[UartBoot]
  BY <1>1, SMT
<1>3. PICK c : c = <<UartBoot, puts[UartBoot] + 1>>
  OBVIOUS
<1>4. c \in Chars
  BY <1>2, <1>3, CharIs, UartConstants
<1>5. HwTypes'
  BY <1>3, <1>4, OneChar, WriteThrType DEF BootPut
<1>6. queued' = Append(queued, c) /\ txQueue' = txQueue
  BY <1>3 DEF BootPut
<1>7. QueueTypes'
  BY <1>4, <1>6, AppendProperties DEF QueueTypes
<1>8. PutTypes'
  BY <1>1, <1>2, UartConstants, SMT DEF BootPut, PutTypes
<1> QED
  BY <1>3, <1>4, <1>5, <1>7, <1>8

LEMMA ProceedType ==
  ASSUME PutTypes, NEW t \in UartTasks, NEW n \in 0 .. MaxString, Proceed(t, n)
  PROVE  /\ left' \in [Putters -> 0 .. MaxString]
         /\ putPc' \in [Putters -> {"idle", "poll", "take", "send", "check", "pop", "write", "flush"}]
         /\ printfSem' \in UartTasks \cup {NoTask}
BY UartConstants DEF Proceed, PutTypes

LEMMA SendCharType ==
  ASSUME PutTypes, CallsInv, QueueTypes, NEW t \in UartTasks, SendChar(t)
  PROVE  PutTypes' /\ QueueTypes' /\ <<t, puts[t] + 1>> \in Chars
<1>1. puts[t] \in Nat /\ MaxChars[t] \in Nat /\ left[t] \in 0 .. MaxString /\ MaxString \in Nat
  BY UartConstants DEF PutTypes
<1>2. left[t] >= 1 /\ puts[t] + left[t] <= MaxChars[t]
  BY DEF SendChar, CallsInv, CallOk, Putting
<1>3. puts[t] + 1 \in Nat /\ puts[t] + 1 >= 1 /\ puts[t] + 1 <= MaxChars[t]
  BY <1>1, <1>2, SMT
<1>4. PICK c : c = <<t, puts[t] + 1>>
  OBVIOUS
<1>5. c \in Chars
  BY <1>3, <1>4, CharIs, UartConstants
<1>6. queued' = Append(queued, c) /\ txQueue' = Append(txQueue, c) /\ Len(txQueue) < UartTxQSize
  BY <1>4 DEF SendChar
<1>7. /\ Append(queued, c) \in Seq(Chars) /\ Append(txQueue, c) \in Seq(Chars)
      /\ Len(Append(txQueue, c)) = Len(txQueue) + 1 /\ Len(txQueue) \in Nat
  BY <1>5, AppendProperties, LenProperties DEF QueueTypes
<1>8. QueueTypes'
  BY <1>6, <1>7, UartConstants, SMT DEF QueueTypes
<1>9. PutTypes'
  <2>1. /\ puts' = [puts EXCEPT ![t] = @ + 1] /\ putPc' = [putPc EXCEPT ![t] = "check"]
        /\ UNCHANGED <<uartOs, direct, printfSem, left, hand>>
    BY DEF SendChar
  <2>2. puts' \in [Putters -> Nat] /\ \A p \in Putters : puts'[p] <= MaxChars[p]
    BY <1>3, <2>1, UartConstants DEF PutTypes
  <2> QED
    BY <2>1, <2>2, UartConstants DEF PutTypes
<1> QED
  BY <1>4, <1>5, <1>8, <1>9

LEMMA PopType ==
  ASSUME PutTypes, CallsInv, QueueTypes, NEW t \in UartTasks, PopOldest(t)
  PROVE  PutTypes' /\ QueueTypes'
<1>1. left[t] \in 0 .. MaxString /\ MaxString \in Nat /\ left[t] >= 1
  BY UartConstants DEF PutTypes, PopOldest, CallsInv, CallOk, Putting
<1>2. CASE txQueue = <<>>
  <2>1. left[t] - 1 \in 0 .. MaxString /\ Proceed(t, left[t] - 1)
    BY <1>1, <1>2, SMT DEF PopOldest
  <2>2. /\ left' \in [Putters -> 0 .. MaxString]
        /\ putPc' \in [Putters -> {"idle", "poll", "take", "send", "check", "pop", "write", "flush"}]
        /\ printfSem' \in UartTasks \cup {NoTask}
    BY <2>1, ProceedType
  <2> QED
    BY <1>2, <2>2 DEF PopOldest, PutTypes, QueueTypes
<1>3. CASE txQueue # <<>>
  <2>1. /\ Head(txQueue) \in Chars /\ Tail(txQueue) \in Seq(Chars)
        /\ Len(Tail(txQueue)) = Len(txQueue) - 1 /\ Len(txQueue) \in Nat
    BY <1>3, HeadTailProperties, LenProperties DEF QueueTypes
  <2>2. /\ hand' = [hand EXCEPT ![t] = Head(txQueue)] /\ txQueue' = Tail(txQueue)
        /\ putPc' = [putPc EXCEPT ![t] = "write"]
        /\ UNCHANGED <<printfSem, left, uartOs, direct, puts, queued>>
    BY <1>3 DEF PopOldest
  <2>3. QueueTypes'
    BY <2>1, <2>2, UartConstants, SMT DEF QueueTypes
  <2>4. PutTypes'
    BY <2>1, <2>2, UartConstants DEF PutTypes
  <2> QED
    BY <2>3, <2>4
<1> QED
  BY <1>2, <1>3

LEMMA WriteType ==
  ASSUME PutTypes, CallsInv, HwTypes, NEW t \in UartTasks, WriteOldest(t)
  PROVE  PutTypes' /\ HwTypes' /\ hand[t] \in Chars
<1>1. left[t] \in 0 .. MaxString /\ MaxString \in Nat /\ left[t] >= 1
  BY UartConstants DEF PutTypes, WriteOldest, CallsInv, CallOk, Putting
<1>2. left[t] - 1 \in 0 .. MaxString /\ Proceed(t, left[t] - 1)
  BY <1>1, SMT DEF WriteOldest
<1>3. /\ left' \in [Putters -> 0 .. MaxString]
      /\ putPc' \in [Putters -> {"idle", "poll", "take", "send", "check", "pop", "write", "flush"}]
      /\ printfSem' \in UartTasks \cup {NoTask}
  BY <1>2, ProceedType
<1>4. hand[t] \in Chars
  BY UartConstants DEF PutTypes, WriteOldest, CallsInv
<1>5. HwTypes'
  BY <1>4, OneChar, WriteThrType DEF WriteOldest
<1>6. PutTypes'
  BY <1>3, UartConstants DEF WriteOldest, PutTypes
<1> QED
  BY <1>4, <1>5, <1>6

LEMMA ClearType ==
  ASSUME QueueTypes, clearTx
  PROVE  QueueTypes'
<1>1. queued \in Seq(Chars) /\ Len(queued) \in Nat /\ Len(txQueue) \in Nat
  BY LenProperties DEF QueueTypes
<1>2. PICK n : n = Len(queued) - Len(txQueue)
  OBVIOUS
<1>3. n \in Int /\ n <= Len(queued)
  BY <1>1, <1>2, SMT
<1>4. \A i \in 1 .. Len(queued) : queued[i] \in Chars
  BY <1>1, ElementOfSeq
<1>5. \A i \in 1 .. n : queued[i] \in Chars
  BY <1>1, <1>3, <1>4, SMT
<1>6. SubSeq(queued, 1, n) \in Seq(Chars)
  BY <1>3, <1>5, SubSeqProperties
<1>7. <<>> \in Seq(Chars) /\ Len(<<>>) = 0
  BY EmptySeq
<1> QED
  BY <1>2, <1>6, <1>7, UartConstants, SMT DEF clearTx, QueueTypes

LEMMA UartTypeStep ==
  ASSUME PutTypes, QueueTypes, HwTypes, RxTypes, CallsInv, [UartNext]_uartVars
  PROVE  PutTypes' /\ QueueTypes' /\ HwTypes' /\ RxTypes'
<1> USE DEF putVars, txHwVars, rxCounts
<1> DEFINE CallSame == UNCHANGED <<uartOs, direct, printfSem, putPc, left, puts, hand>>
           QueueSame == UNCHANGED <<txQueue, queued>>
           HwSame == UNCHANGED <<thrFifo, shift, threDue, threIrq, line, overrun>>
           RxSame == UNCHANGED <<rxFifo, rxQueue>>
<1>a. CallSame => PutTypes'
  BY DEF PutTypes
<1>b. QueueSame => QueueTypes'
  BY DEF QueueTypes
<1>c. HwSame => HwTypes'
  BY DEF HwTypes
<1>d. RxSame => RxTypes'
  BY DEF RxTypes
<1>1. CASE UNCHANGED uartVars
  <2>1. CallSame /\ QueueSame /\ HwSame /\ RxSame
    BY <1>1 DEF uartVars
  <2> QED
    BY <2>1, <1>a, <1>b, <1>c, <1>d
<1>2. CASE Transmitter
  <2>1. CallSame /\ QueueSame /\ RxSame /\ (Load \/ RaiseThre \/ ShiftOut)
    BY <1>2 DEF Transmitter
  <2>2. HwTypes'
    BY <2>1, TransmitterType
  <2> QED
    BY <2>1, <2>2, <1>a, <1>b, <1>d
<1>3. CASE Receiver \/ ReceiveInterrupt \/ getChar \/ clearRx
  <2>1. CallSame /\ QueueSame /\ HwSame
    BY <1>3 DEF Receiver, ReceiveInterrupt, getChar, clearRx
  <2>2. RxTypes'
    BY <1>3, UartConstants, SMT DEF Receiver, ReceiveInterrupt, getChar, clearRx, RxTypes
  <2> QED
    BY <2>1, <2>2, <1>a, <1>b, <1>c
<1>4. CASE TransmitInterrupt
  <2>1. CallSame /\ RxSame
    BY <1>4 DEF TransmitInterrupt
  <2> QED
    BY <1>4, <2>1, InterruptType, <1>a, <1>d
<1>5. CASE BootPut
  <2>1. RxSame
    BY <1>5 DEF BootPut
  <2> QED
    BY <1>5, <2>1, BootPutType, <1>d
<1>6. CASE BootPolled \/ UartStartScheduler
  <2>1. QueueSame /\ HwSame /\ RxSame
    BY <1>6 DEF BootPolled, UartStartScheduler
  <2>2. PutTypes'
    BY <1>6, UartConstants DEF BootPolled, UartStartScheduler, PutTypes
  <2> QED
    BY <2>1, <2>2, <1>b, <1>c, <1>d
<1>7. CASE clearTx
  <2>1. CallSame /\ HwSame /\ RxSame
    BY <1>7 DEF clearTx
  <2> QED
    BY <1>7, <2>1, ClearType, <1>a, <1>c, <1>d
<1>8. ASSUME NEW t \in UartTasks, NEW n \in 1 .. MaxString, CallPut(t, n)
      PROVE  PutTypes' /\ QueueTypes' /\ HwTypes' /\ RxTypes'
  <2>1. QueueSame /\ HwSame /\ RxSame
    BY <1>8 DEF CallPut
  <2>2. n \in 0 .. MaxString /\ t \in Putters
    BY UartConstants, SMT
  <2>3. PutTypes'
    BY <1>8, <2>2 DEF CallPut, PutTypes
  <2> QED
    BY <2>1, <2>3, <1>b, <1>c, <1>d
<1>9. ASSUME NEW t \in UartTasks, CallFlush(t) \/ FlushDone(t) \/ TakeSem(t)
      PROVE  PutTypes' /\ QueueTypes' /\ HwTypes' /\ RxTypes'
  <2>1. QueueSame /\ HwSame /\ RxSame
    BY <1>9 DEF CallFlush, FlushDone, TakeSem
  <2>2. PutTypes'
    BY <1>9, UartConstants DEF CallFlush, FlushDone, TakeSem, PutTypes
  <2> QED
    BY <2>1, <2>2, <1>b, <1>c, <1>d
<1>10. ASSUME NEW t \in UartTasks, SendTimeout(t) \/ CheckIdle(t)
       PROVE  PutTypes' /\ QueueTypes' /\ HwTypes' /\ RxTypes'
  <2>1. QueueSame /\ HwSame /\ RxSame /\ UNCHANGED <<uartOs, direct, puts, hand>>
    BY <1>10 DEF SendTimeout, CheckIdle
  <2>2. left[t] \in 0 .. MaxString /\ MaxString \in Nat
    BY UartConstants DEF PutTypes
  <2>3. /\ left' \in [Putters -> 0 .. MaxString]
        /\ putPc' \in [Putters -> {"idle", "poll", "take", "send", "check", "pop", "write", "flush"}]
        /\ printfSem' \in UartTasks \cup {NoTask}
    <3>1. CASE SendTimeout(t)
      <4>1. 0 \in 0 .. MaxString /\ Proceed(t, 0)
        BY <3>1, <2>2, SMT DEF SendTimeout
      <4> QED
        BY <4>1, ProceedType
    <3>2. CASE CheckIdle(t)
      <4>1. left[t] >= 1
        BY <3>2 DEF CheckIdle, CallsInv, CallOk, Putting
      <4>2. left[t] - 1 \in 0 .. MaxString
        BY <4>1, <2>2, SMT
      <4>3. CASE TxIdle
        BY <3>2, <4>3, UartConstants DEF CheckIdle, PutTypes
      <4>4. CASE ~ TxIdle
        BY <3>2, <4>4, <4>2, ProceedType DEF CheckIdle
      <4> QED
        BY <4>3, <4>4
    <3> QED
      BY <1>10, <3>1, <3>2
  <2>4. PutTypes'
    BY <2>1, <2>3 DEF PutTypes
  <2> QED
    BY <2>1, <2>4, <1>b, <1>c, <1>d
<1>11. ASSUME NEW t \in UartTasks, SendChar(t) \/ PopOldest(t)
       PROVE  PutTypes' /\ QueueTypes' /\ HwTypes' /\ RxTypes'
  <2>1. HwSame /\ RxSame
    BY <1>11 DEF SendChar, PopOldest
  <2> QED
    BY <1>11, <2>1, SendCharType, PopType, <1>c, <1>d
<1>12. ASSUME NEW t \in UartTasks, WriteOldest(t)
       PROVE  PutTypes' /\ QueueTypes' /\ HwTypes' /\ RxTypes'
  <2>1. QueueSame /\ RxSame
    BY <1>12 DEF WriteOldest
  <2> QED
    BY <1>12, <2>1, WriteType, <1>b, <1>d
<1> HIDE DEF CallSame, QueueSame, HwSame, RxSame
<1> QED
  BY <1>1, <1>2, <1>3, <1>4, <1>5, <1>6, <1>7, <1>8, <1>9, <1>10, <1>11, <1>12
  DEF UartNext, uartInterrupt, putStep

-----------------------------------------------------------------------------
(* Where the callers are.                                                  *)

LEMMA CallsStep ==
  ASSUME PutTypes, QueueTypes, HwTypes, CallsInv, BootInv, [UartNext]_uartVars
  PROVE  CallsInv'
<1> USE DEF putVars
<1>1. CASE UNCHANGED <<uartOs, putPc, left, puts, hand>>
  BY <1>1 DEF CallsInv, CallOk
<1>2. CASE BootPut \/ BootPolled \/ UartStartScheduler
  <2>1. CASE BootPut
    <3>1. /\ putPc' = [putPc EXCEPT ![UartBoot] = "poll"] /\ puts' = [puts EXCEPT ![UartBoot] = @ + 1]
          /\ UNCHANGED <<uartOs, left, hand>> /\ ~ uartOs /\ putPc[UartBoot] = "idle"
      BY <2>1 DEF BootPut
    <3>2. ASSUME NEW t \in UartTasks PROVE CallOk(t)'
      <4>1. CallOk(t) /\ putPc'[t] = putPc[t] /\ puts'[t] = puts[t] /\ left'[t] = left[t]
        BY <3>1, UartConstants DEF CallsInv, PutTypes
      <4> QED
        BY <4>1 DEF CallOk
    <3> QED
      BY <3>1, <3>2, UartConstants DEF CallsInv, PutTypes
  <2>2. CASE BootPolled
    <3>1. /\ putPc' = [putPc EXCEPT ![UartBoot] = "idle"] /\ putPc[UartBoot] = "poll"
          /\ UNCHANGED <<uartOs, left, puts, hand>>
      BY <2>2 DEF BootPolled
    <3>2. ASSUME NEW t \in UartTasks PROVE CallOk(t)'
      <4>1. CallOk(t) /\ putPc'[t] = putPc[t] /\ puts'[t] = puts[t] /\ left'[t] = left[t]
        BY <3>1, UartConstants DEF CallsInv, PutTypes
      <4> QED
        BY <4>1 DEF CallOk
    <3> QED
      BY <3>1, <3>2, UartConstants DEF CallsInv, PutTypes
  <2>3. CASE UartStartScheduler
    BY <2>3 DEF UartStartScheduler, CallsInv, CallOk
  <2> QED
    BY <1>2, <2>1, <2>2, <2>3
<1>3. ASSUME NEW t \in UartTasks, NEW next \in {"idle", "take", "send", "check", "pop", "write", "flush"},
             putPc' = [putPc EXCEPT ![t] = next], uartOs' = uartOs,
             \A u \in Putters \ {t} : left'[u] = left[u] /\ puts'[u] = puts[u] /\ hand'[u] = hand[u],
             hand'[t] # NoChar <=> next = "write",
             CallOk(t)'
      PROVE  CallsInv'
  <2>1. t \in Putters /\ t # UartBoot /\ UartBoot \in Putters
    BY UartConstants
  <2>2. \A u \in Putters \ {t} : putPc'[u] = putPc[u]
    BY <1>3, <2>1 DEF PutTypes
  <2>3. putPc'[t] = next
    BY <1>3, <2>1 DEF PutTypes
  <2>4. \A u \in Putters : hand'[u] # NoChar <=> putPc'[u] = "write"
    BY <1>3, <2>2, <2>3 DEF CallsInv
  <2>5. putPc'[UartBoot] = putPc[UartBoot]
    BY <2>1, <2>2
  <2>6. ASSUME NEW u \in UartTasks PROVE CallOk(u)'
    <3>1. CASE u = t
      BY <3>1, <1>3
    <3>2. CASE u # t
      <4>1. CallOk(u) /\ putPc'[u] = putPc[u] /\ puts'[u] = puts[u] /\ left'[u] = left[u]
        BY <3>2, <1>3, <2>2, UartConstants DEF CallsInv
      <4> QED
        BY <4>1 DEF CallOk
    <3> QED
      BY <3>1, <3>2
  <2> QED
    BY <1>3, <2>4, <2>5, <2>6 DEF CallsInv
<1>4. ASSUME NEW t \in UartTasks
      PROVE  /\ t \in Putters /\ puts[t] \in Nat /\ MaxChars[t] \in Nat /\ left[t] \in Nat
             /\ DOMAIN putPc = Putters /\ DOMAIN left = Putters
             /\ DOMAIN puts = Putters /\ DOMAIN hand = Putters
             /\ CallOk(t) /\ (hand[t] # NoChar <=> putPc[t] = "write")
  <2>1. t \in Putters /\ left[t] \in 0 .. MaxString /\ MaxString \in Nat
    BY UartConstants DEF PutTypes
  <2>2. left[t] \in Nat
    BY <2>1, SMT
  <2> QED
    BY <2>1, <2>2, UartConstants DEF PutTypes, CallsInv
<1>5. ASSUME NEW t \in UartTasks, NEW n \in 1 .. MaxString, CallPut(t, n)
      PROVE  CallsInv'
  <2>1. PICK next \in {"take", "send"} :
          /\ putPc' = [putPc EXCEPT ![t] = next] /\ left' = [left EXCEPT ![t] = n]
          /\ UNCHANGED <<uartOs, puts, hand>> /\ putPc[t] = "idle" /\ puts[t] + n <= MaxChars[t]
    BY <1>5 DEF CallPut
  <2>2. putPc'[t] = next /\ left'[t] = n /\ puts'[t] = puts[t] /\ n \in Nat /\ n >= 1
    BY <2>1, <1>4, UartConstants, SMT
  <2>3. CallOk(t)'
    BY <2>1, <2>2, <1>4, SMT DEF CallOk, Putting
  <2> QED
    BY <1>3, <1>4, <2>1, <2>3
<1>6. ASSUME NEW t \in UartTasks, CallFlush(t) \/ FlushDone(t) \/ TakeSem(t)
      PROVE  CallsInv'
  <2>1. PICK next \in {"idle", "flush", "send"} :
          /\ putPc' = [putPc EXCEPT ![t] = next]
          /\ UNCHANGED <<uartOs, left, puts, hand>> /\ putPc[t] \in {"idle", "flush", "take"}
          /\ next = "send" => putPc[t] = "take"
    BY <1>6 DEF CallFlush, FlushDone, TakeSem
  <2>2. CallOk(t)'
    BY <2>1, <1>4 DEF CallOk, Putting
  <2> QED
    BY <1>3, <1>4, <2>1, <2>2
<1>7. ASSUME NEW t \in UartTasks, SendChar(t)
      PROVE  CallsInv'
  <2>1. /\ putPc' = [putPc EXCEPT ![t] = "check"] /\ puts' = [puts EXCEPT ![t] = @ + 1]
        /\ UNCHANGED <<uartOs, left, hand>> /\ putPc[t] = "send"
    BY <1>7 DEF SendChar
  <2>2. left[t] >= 1 /\ puts[t] + left[t] <= MaxChars[t]
    BY <2>1, <1>4 DEF CallOk, Putting
  <2>3. putPc'[t] = "check" /\ left'[t] = left[t] /\ puts'[t] = puts[t] + 1
    BY <2>1, <1>4
  <2>4. puts[t] + 1 + left[t] <= MaxChars[t] + 1
    BY <2>2, <1>4, SMT
  <2>5. CallOk(t)'
    BY <2>2, <2>3, <2>4 DEF CallOk, Putting
  <2> QED
    BY <1>3, <1>4, <2>1, <2>5
<1>8. ASSUME NEW t \in UartTasks, NEW n \in Nat, Proceed(t, n),
             n >= 1 => puts[t] + n <= MaxChars[t],
             hand'[t] = NoChar, \A u \in Putters \ {t} : hand'[u] = hand[u],
             UNCHANGED <<uartOs, puts>>
      PROVE  CallsInv'
  <2>1. PICK next \in {"idle", "send"} :
          /\ putPc' = [putPc EXCEPT ![t] = next] /\ left' = [left EXCEPT ![t] = n]
          /\ next = "send" => n # 0
    BY <1>8 DEF Proceed
  <2>2. putPc'[t] = next /\ left'[t] = n /\ puts'[t] = puts[t]
    BY <1>8, <2>1, <1>4
  <2>3. next = "send" => n >= 1 /\ puts[t] + n <= MaxChars[t]
    BY <1>8, <2>1, SMT
  <2>4. CallOk(t)'
    BY <2>1, <2>2, <2>3 DEF CallOk, Putting
  <2> QED
    BY <1>3, <1>4, <1>8, <2>1, <2>4
<1>9. ASSUME NEW t \in UartTasks, putPc[t] \in {"check", "pop", "write"}
      PROVE  /\ left[t] - 1 \in Nat /\ puts[t] + (left[t] - 1) <= MaxChars[t]
  <2>1. left[t] >= 1 /\ puts[t] + left[t] <= MaxChars[t] + 1
    BY <1>4, <1>9 DEF CallOk, Putting
  <2> QED
    BY <2>1, <1>4, SMT
<1>10. ASSUME NEW t \in UartTasks, SendTimeout(t)
       PROVE  CallsInv'
  <2>1. Proceed(t, 0) /\ UNCHANGED <<uartOs, puts, hand>> /\ putPc[t] = "send"
    BY <1>10 DEF SendTimeout
  <2> QED
    BY <2>1, <1>4, <1>8, SMT
<1>11. ASSUME NEW t \in UartTasks, CheckIdle(t)
       PROVE  CallsInv'
  <2>1. UNCHANGED <<uartOs, puts, hand>> /\ putPc[t] = "check" /\ hand[t] = NoChar
    BY <1>4, <1>11 DEF CheckIdle
  <2>2. CASE TxIdle
    <3>1. putPc' = [putPc EXCEPT ![t] = "pop"] /\ left' = left
      BY <1>11, <2>2 DEF CheckIdle
    <3>2. CallOk(t)'
      BY <2>1, <3>1, <1>4 DEF CallOk, Putting
    <3> QED
      BY <1>3, <1>4, <2>1, <3>1, <3>2
  <2>3. CASE ~ TxIdle
    BY <1>8, <1>9, <1>11, <2>1, <2>3 DEF CheckIdle
  <2> QED
    BY <2>2, <2>3
<1>12. ASSUME NEW t \in UartTasks, PopOldest(t)
       PROVE  CallsInv'
  <2>1. UNCHANGED <<uartOs, puts>> /\ putPc[t] = "pop" /\ hand[t] = NoChar
    BY <1>4, <1>12 DEF PopOldest
  <2>2. CASE txQueue # <<>>
    <3>1. putPc' = [putPc EXCEPT ![t] = "write"] /\ left' = left /\ hand' = [hand EXCEPT ![t] = Head(txQueue)]
      BY <1>12, <2>2 DEF PopOldest
    <3>2. CallOk(t)'
      BY <2>1, <3>1, <1>4 DEF CallOk, Putting
    <3>3. Head(txQueue) # NoChar
      BY <2>2, HeadTailProperties, NoCharIsNone DEF QueueTypes
    <3> QED
      BY <1>3, <1>4, <2>1, <3>1, <3>2, <3>3
  <2>3. CASE txQueue = <<>>
    BY <1>8, <1>9, <1>12, <2>1, <2>3 DEF PopOldest
  <2> QED
    BY <2>2, <2>3
<1>13. ASSUME NEW t \in UartTasks, WriteOldest(t)
       PROVE  CallsInv'
  <2>1. /\ UNCHANGED <<uartOs, puts>> /\ putPc[t] = "write"
        /\ hand' = [hand EXCEPT ![t] = NoChar] /\ Proceed(t, left[t] - 1)
    BY <1>13 DEF WriteOldest
  <2> QED
    BY <1>4, <1>8, <1>9, <2>1
<1> QED
  BY <1>1, <1>2, <1>5, <1>6, <1>7, <1>10, <1>11, <1>12, <1>13
  DEF UartNext, uartVars, putStep, Transmitter, Receiver, uartInterrupt, ReceiveInterrupt,
      TransmitInterrupt, clearTx, getChar, clearRx

(* Nothing of the tasks moves before the scheduler runs.                   *)
LEMMA BootStep ==
  ASSUME PutTypes, QueueTypes, HwTypes, CallsInv, BootInv, [UartNext]_uartVars
  PROVE  BootInv'
<1> USE DEF putVars, txHwVars
<1> SUFFICES ASSUME ~ uartOs'
             PROVE  /\ txQueue' = <<>>
                    /\ \A t \in UartTasks : putPc'[t] = "idle"
                    /\ putPc'[UartBoot] = "idle" => TxIdle'
  BY DEF BootInv
<1>0. ~ uartOs
  BY DEF UartNext, uartVars, putStep, Transmitter, Receiver, uartInterrupt, ReceiveInterrupt,
      TransmitInterrupt, clearTx, getChar, clearRx, BootPut, BootPolled, UartStartScheduler,
      CallPut, CallFlush, TakeSem, SendChar, SendTimeout, CheckIdle, PopOldest, WriteOldest, FlushDone
<1>1. /\ txQueue = <<>>
      /\ \A t \in UartTasks : putPc[t] = "idle"
      /\ putPc[UartBoot] = "idle" => TxIdle
  BY <1>0 DEF BootInv
<1>2. \A t \in UartTasks : ~ putStep(t) /\ ~ CallFlush(t) /\ \A n : ~ CallPut(t, n)
  BY <1>0, <1>1 DEF putStep, TakeSem, SendChar, SendTimeout, CheckIdle, PopOldest, WriteOldest,
      FlushDone, CallFlush, CallPut
<1>3. CASE UNCHANGED <<txQueue, putPc, thrFifo, shift>>
  BY <1>1, <1>3 DEF TxIdle
<1>4. CASE Transmitter
  <2>1. UNCHANGED <<txQueue, putPc>>
    BY <1>4 DEF Transmitter
  <2>2. ASSUME TxIdle PROVE UNCHANGED <<thrFifo, shift>>
    BY <1>4, <2>2 DEF Transmitter, TxIdle, Load, RaiseThre, ShiftOut
  <2> QED
    BY <1>1, <2>1, <2>2 DEF TxIdle
<1>5. CASE TransmitInterrupt
  <2>1. PICK n : n = IF Len(txQueue) < HwFifoSize THEN Len(txQueue) ELSE HwFifoSize
    OBVIOUS
  <2>2. Len(txQueue) = 0 /\ n = 0
    BY <1>1, <2>1, UartConstants, EmptySeq, SMT
  <2>3. UNCHANGED putPc /\ WriteThr(SubSeq(txQueue, 1, n)) /\ txQueue' = SubSeq(txQueue, n + 1, Len(txQueue))
    BY <1>5, <2>1 DEF TransmitInterrupt
  <2>4. SubSeq(txQueue, 1, n) = <<>> /\ txQueue' = <<>>
    BY <2>2, <2>3, SubSeqEmpty, SMT
  <2>5. ASSUME TxIdle PROVE TxIdle'
    <3>1. <<>> \in Seq(Chars) /\ Len(<<>>) <= HwFifoSize
      BY EmptySeq, UartConstants
    <3>2. thrFifo' = <<>>
      BY <3>1, <2>3, <2>4, <2>5, WriteThrFits DEF TxIdle
    <3>3. shift' = shift
      BY <2>3 DEF WriteThr
    <3> QED
      BY <3>2, <3>3, <2>5 DEF TxIdle
  <2> QED
    BY <1>1, <2>3, <2>4, <2>5
<1>6. CASE BootPut
  <2>1. putPc' = [putPc EXCEPT ![UartBoot] = "poll"] /\ txQueue' = txQueue
    BY <1>6 DEF BootPut
  <2> QED
    BY <1>1, <2>1, UartConstants DEF PutTypes
<1>7. CASE BootPolled
  <2>1. putPc' = [putPc EXCEPT ![UartBoot] = "idle"] /\ UNCHANGED <<txQueue, thrFifo, shift>> /\ TxIdle
    BY <1>7 DEF BootPolled
  <2> QED
    BY <1>1, <2>1, UartConstants DEF PutTypes, TxIdle
<1> QED
  BY <1>0, <1>1, <1>2, <1>3, <1>4, <1>5, <1>6, <1>7
  DEF UartNext, uartVars, Receiver, uartInterrupt, ReceiveInterrupt, clearTx, getChar, clearRx,
      UartStartScheduler

-----------------------------------------------------------------------------
(* The transmitter and the semaphore.                                      *)

LEMMA WriteThrFifo ==
  ASSUME NEW s \in Seq(Chars), HwTypes, FifoInv, WriteThr(s)
  PROVE  FifoInv'
<1>1. threIrq' = FALSE /\ threDue' = (threDue /\ s = <<>>) /\ shift' = shift
  BY DEF WriteThr
<1>2. ASSUME threDue' PROVE thrFifo' = <<>> /\ shift' # NoChar
  <2>1. s = <<>> /\ thrFifo = <<>> /\ shift # NoChar
    BY <1>1, <1>2 DEF FifoInv
  <2>2. Len(s) <= HwFifoSize
    BY <2>1, EmptySeq, UartConstants
  <2> QED
    BY <1>1, <2>1, <2>2, WriteThrFits
<1> QED
  BY <1>1, <1>2 DEF FifoInv

LEMMA FifoStep ==
  ASSUME PutTypes, QueueTypes, HwTypes, CallsInv, FifoInv, [UartNext]_uartVars
  PROVE  FifoInv'
<1> USE DEF putVars, txHwVars
<1>1. CASE UNCHANGED <<thrFifo, shift, threDue, threIrq>>
  BY <1>1 DEF FifoInv
<1>2. CASE Transmitter
  <2>1. CASE Load
    <3>1. Head(thrFifo) # NoChar
      BY <2>1, HeadTailProperties, NoCharIsNone DEF Load, HwTypes
    <3> QED
      BY <2>1, <3>1 DEF Load, FifoInv, HwTypes
  <2>2. CASE RaiseThre \/ ShiftOut
    BY <2>2 DEF RaiseThre, ShiftOut, FifoInv
  <2> QED
    BY <1>2, <2>1, <2>2 DEF Transmitter
<1>3. CASE TransmitInterrupt
  <2>1. PICK n : n = IF Len(txQueue) < HwFifoSize THEN Len(txQueue) ELSE HwFifoSize
    OBVIOUS
  <2>2. SubSeq(txQueue, 1, n) \in Seq(Chars) /\ WriteThr(SubSeq(txQueue, 1, n))
    BY <1>3, <2>1, MovedFacts DEF TransmitInterrupt
  <2> QED
    BY <2>2, WriteThrFifo
<1>4. CASE BootPut
  <2>1. <<UartBoot, puts[UartBoot] + 1>> \in Chars
    BY <1>4, BootPutType
  <2> QED
    BY <1>4, <2>1, OneChar, WriteThrFifo DEF BootPut
<1>5. ASSUME NEW t \in UartTasks, WriteOldest(t) PROVE FifoInv'
  BY <1>5, WriteType, OneChar, WriteThrFifo DEF WriteOldest
<1> QED
  BY <1>1, <1>2, <1>3, <1>4, <1>5
  DEF UartNext, uartVars, Receiver, uartInterrupt, ReceiveInterrupt, clearTx, getChar, clearRx,
      UartStartScheduler, BootPolled, CallPut, CallFlush, putStep, TakeSem, SendChar, SendTimeout,
      CheckIdle, PopOldest, FlushDone

LEMMA AloneStep ==
  ASSUME PutTypes, QueueTypes, HwTypes, CallsInv, BootInv, FifoInv, OneAtATime, [UartNext]_uartVars
  PROVE  OneAtATime'
<1> USE DEF putVars, txHwVars
<1> SUFFICES ASSUME direct' = {}, NEW u \in UartTasks PROVE Alone(u)'
  BY DEF OneAtATime
<1>0. direct = {}
  BY DEF UartNext, uartVars, putStep, Transmitter, Receiver, uartInterrupt, ReceiveInterrupt,
      TransmitInterrupt, clearTx, getChar, clearRx, BootPut, BootPolled, UartStartScheduler,
      CallPut, CallFlush, TakeSem, SendChar, SendTimeout, CheckIdle, PopOldest, WriteOldest, FlushDone
<1>1. \A t \in UartTasks : Alone(t)
  BY <1>0 DEF OneAtATime
<1>2. DOMAIN putPc = Putters /\ UartBoot \in Putters /\ u \in Putters /\ u # UartBoot /\ u # NoTask
  BY UartConstants DEF PutTypes
<1>3. CASE UNCHANGED <<putPc, printfSem, shift, thrFifo, threDue, threIrq>>
  BY <1>1, <1>3 DEF Alone, TxIdle
<1>4. CASE Transmitter \/ TransmitInterrupt
  <2>1. UNCHANGED <<putPc, printfSem>>
    BY <1>4 DEF Transmitter, TransmitInterrupt
  <2>2. putPc[u] \notin {"pop", "write"}
    BY <1>1, <1>4 DEF Alone, Transmitter, Load, RaiseThre, ShiftOut, TransmitInterrupt, TxIdle
  <2> QED
    BY <1>1, <2>1, <2>2 DEF Alone
<1>5. CASE BootPut \/ BootPolled
  <2>1. putPc[u] = "idle" \/ (UNCHANGED <<shift, thrFifo, threDue, threIrq>> /\ BootPolled)
    BY <1>5 DEF BootPut, BootPolled, BootInv
  <2>2. putPc'[u] = putPc[u] /\ printfSem' = printfSem
    BY <1>2, <1>5 DEF BootPut, BootPolled
  <2> QED
    BY <1>1, <2>1, <2>2 DEF Alone, TxIdle, Putting
<1>6. ASSUME NEW t \in UartTasks,
             putStep(t) \/ CallFlush(t) \/ \E n \in 1 .. MaxString : CallPut(t, n)
      PROVE  Alone(u)'
  <2>0. t \in Putters /\ t # NoTask
    BY UartConstants
  <2>1. CASE u # t
    <3>1. putPc'[u] = putPc[u]
      BY <1>2, <1>6, <2>1 DEF putStep, CallFlush, CallPut, TakeSem, SendChar, SendTimeout,
         CheckIdle, PopOldest, WriteOldest, FlushDone, Proceed
    <3>2. putPc[u] \in Putting => printfSem = u
      BY <1>1 DEF Alone
    <3>3. ASSUME putPc[u] \in Putting PROVE printfSem' = u
      BY <1>2, <1>6, <2>0, <2>1, <3>2, <3>3 DEF putStep, CallFlush, CallPut, TakeSem, SendChar, SendTimeout,
         CheckIdle, PopOldest, WriteOldest, FlushDone, Proceed
    <3>4. ASSUME putPc[u] \in {"pop", "write"} PROVE UNCHANGED <<shift, thrFifo, threDue, threIrq>>
      <4>1. ~ WriteOldest(t)
        BY <1>1, <2>1, <3>2, <3>4 DEF Alone, WriteOldest, Putting
      <4> QED
        BY <1>6, <4>1 DEF putStep, CallFlush, CallPut, TakeSem, SendChar, SendTimeout, CheckIdle,
           PopOldest, FlushDone
    <3>5. putPc[u] \in {"pop", "write"} => TxIdle /\ ~ threDue /\ ~ threIrq
      BY <1>1 DEF Alone
    <3> QED
      BY <3>1, <3>3, <3>4, <3>5 DEF Alone, TxIdle
  <2>2. CASE u = t
    <3>1. CASE TakeSem(t) \/ CallFlush(t) \/ FlushDone(t) \/ \E n \in 1 .. MaxString : CallPut(t, n)
      <4>1. putPc'[t] \in {"take", "flush", "idle"} \/ (putPc'[t] = "send" /\ printfSem' = t)
        BY <1>0, <1>2, <2>0, <3>1 DEF TakeSem, CallFlush, FlushDone, CallPut
      <4> QED
        BY <2>2, <4>1 DEF Alone, Putting
    <3>2. CASE SendChar(t)
      BY <1>1, <1>2, <2>2, <3>2 DEF Alone, SendChar, Putting
    <3>3. ASSUME NEW n, Proceed(t, n), putPc[t] \in Putting PROVE Alone(u)'
      <4>1. printfSem = t
        BY <1>1, <3>3 DEF Alone
      <4> QED
        BY <1>2, <2>2, <3>3, <4>1 DEF Alone, Proceed, Putting
    <3>4. CASE SendTimeout(t) \/ WriteOldest(t)
      BY <3>3, <3>4 DEF SendTimeout, WriteOldest, Putting
    <3>5. CASE CheckIdle(t)
      <4>1. CASE ~ TxIdle
        BY <3>3, <3>5, <4>1 DEF CheckIdle, Putting
      <4>2. CASE TxIdle
        <5>1. ~ threDue /\ ~ threIrq
          BY <3>5, <4>2 DEF CheckIdle, FifoInv, TxIdle
        <5>2. printfSem = t
          BY <1>1, <3>5 DEF CheckIdle, Alone, Putting
        <5> QED
          BY <2>2, <3>5, <4>2, <5>1, <5>2 DEF CheckIdle, Alone, TxIdle
      <4> QED
        BY <4>1, <4>2
    <3>6. CASE PopOldest(t)
      <4>1. CASE txQueue = <<>>
        BY <3>3, <3>6, <4>1 DEF PopOldest, Putting
      <4>2. CASE txQueue # <<>>
        <5>1. printfSem = t /\ TxIdle /\ ~ threDue /\ ~ threIrq
          BY <1>1, <3>6 DEF PopOldest, Alone, Putting
        <5> QED
          BY <2>2, <3>6, <4>2, <5>1 DEF PopOldest, Alone, TxIdle
      <4> QED
        BY <4>1, <4>2
    <3> QED
      BY <1>6, <3>1, <3>2, <3>4, <3>5, <3>6 DEF putStep
  <2> QED
    BY <2>1, <2>2
<1> QED
  BY <1>3, <1>4, <1>5, <1>6
  DEF UartNext, uartVars, Receiver, uartInterrupt, ReceiveInterrupt, clearTx, getChar, clearRx,
      UartStartScheduler

-----------------------------------------------------------------------------
(* The order of the characters.                                            *)

LEMMA HeadAndTail ==
  ASSUME NEW S, NEW s \in Seq(S), s # <<>>
  PROVE  <<Head(s)>> \o Tail(s) = s
<1>1. Len(s) \in Nat \ {0}
  BY EmptySeq
<1>2. 1 \in 1 .. Len(s) /\ Len(s) \in 1 .. Len(s) /\ Head(s) = s[1]
  BY <1>1, SMT
<1>3. SubSeq(s, 1, Len(s)) = <<s[1]>> \o SubSeq(s, 1 + 1, Len(s))
  BY <1>2, SubSeqRecursiveFirst
<1>4. SubSeq(s, 1, Len(s)) = s /\ Tail(s) = SubSeq(s, 2, Len(s))
  BY SubSeqFull, TailIsSubSeq
<1>5. 1 + 1 = 2
  BY SMT
<1> QED
  BY <1>2, <1>3, <1>4, <1>5

(* Without its last part a sequence is what comes before it.               *)
LEMMA BeforeLast ==
  ASSUME NEW S, NEW s \in Seq(S), NEW t \in Seq(S)
  PROVE  SubSeq(s \o t, 1, Len(s \o t) - Len(t)) = s
<1>1. Len(s) \in Nat /\ Len(t) \in Nat /\ Len(s \o t) = Len(s) + Len(t)
  BY LenProperties, ConcatProperties
<1>2. Len(s \o t) - Len(t) = Len(s)
  BY <1>1, SMT
<1>3. CASE s = <<>>
  <2>1. Len(s) = 0
    BY <1>3, EmptySeq
  <2>2. 0 \in Int /\ 1 \in Int /\ 0 < 1
    BY SMT
  <2>3. SubSeq(s \o t, 1, 0) = <<>>
    BY <2>2, SubSeqEmpty
  <2> QED
    BY <1>2, <1>3, <2>1, <2>3
<1>4. CASE s # <<>>
  <2>1. Len(s) \in Nat \ {0}
    BY <1>4, EmptySeq
  <2>2. 1 \in 1 .. Len(s) /\ Len(s) \in 1 .. Len(s)
    BY <2>1, SMT
  <2>3. SubSeq(s \o t, 1, Len(s)) = SubSeq(s, 1, Len(s))
    BY <2>2, SubSeqOfConcat1
  <2> QED
    BY <1>2, <2>3, SubSeqFull
<1> QED
  BY <1>3, <1>4

(* What has left the queue, in order.                                      *)
Left == line \o InShift \o thrFifo \o InHand

LEMMA PlacesFacts ==
  ASSUME PutTypes, QueueTypes, HwTypes, CallsInv
  PROVE  /\ InShift \in Seq(Chars) /\ InHand \in Seq(Chars)
         /\ line \in Seq(Chars) /\ thrFifo \in Seq(Chars)
         /\ txQueue \in Seq(Chars) /\ queued \in Seq(Chars)
         /\ line \o InShift \in Seq(Chars) /\ line \o InShift \o thrFifo \in Seq(Chars)
         /\ Left \in Seq(Chars)
<1>1. line \in Seq(Chars) /\ thrFifo \in Seq(Chars) /\ txQueue \in Seq(Chars) /\ queued \in Seq(Chars)
  BY DEF QueueTypes, HwTypes
<1>2. InShift \in Seq(Chars)
  BY OneChar, EmptySeq DEF InShift, HwTypes
<1>3. InHand \in Seq(Chars)
  <2>1. CASE \E t \in UartTasks : hand[t] # NoChar
    <3>1. PICK t \in UartTasks : t = CHOOSE u \in UartTasks : hand[u] # NoChar
      BY <2>1
    <3>2. hand[t] # NoChar
      BY <2>1, <3>1
    <3>3. hand[t] \in Chars /\ InHand = <<hand[t]>>
      BY <2>1, <3>1, <3>2, UartConstants DEF InHand, PutTypes
    <3> QED
      BY <3>3, OneChar
  <2>2. CASE ~ \E t \in UartTasks : hand[t] # NoChar
    BY <2>2, EmptySeq DEF InHand
  <2> QED
    BY <2>1, <2>2
<1>4. line \o InShift \in Seq(Chars)
  BY <1>1, <1>2, ConcatProperties
<1>5. line \o InShift \o thrFifo \in Seq(Chars)
  BY <1>1, <1>4, ConcatProperties
<1>6. Left \in Seq(Chars)
  BY <1>3, <1>5, ConcatProperties DEF Left
<1> QED
  BY <1>1, <1>2, <1>3, <1>4, <1>5, <1>6

(* At most one task of printf() has a character in its hand.               *)
LEMMA NoneInHand ==
  ASSUME CallsInv, \A t \in UartTasks : putPc[t] # "write"
  PROVE  InHand = <<>>
BY UartConstants DEF CallsInv, InHand

LEMMA HolderAlone ==
  ASSUME CallsInv, OneAtATime, direct = {}, NEW t \in UartTasks, putPc[t] \in Putting
  PROVE  \A u \in UartTasks \ {t} : putPc[u] \notin Putting /\ hand[u] = NoChar
<1>1. \A u \in UartTasks : putPc[u] \in Putting => printfSem = u
  BY DEF OneAtATime, Alone
<1> QED
  BY <1>1, UartConstants DEF CallsInv, Putting

LEMMA LoadOrder ==
  ASSUME PutTypes, QueueTypes, HwTypes, CallsInv, PrintfInOrder, direct = {},
         Load, UNCHANGED <<hand, txQueue, queued>>
  PROVE  queued' = Left' \o txQueue'
<1>1. /\ InShift = <<>> /\ InHand' = InHand
      /\ thrFifo # <<>> /\ shift' = Head(thrFifo) /\ thrFifo' = Tail(thrFifo) /\ line' = line
  BY DEF Load, InShift, InHand
<1>2. line \in Seq(Chars) /\ thrFifo \in Seq(Chars)
  BY PlacesFacts
<1>3. Head(thrFifo) \in Chars /\ Tail(thrFifo) \in Seq(Chars) /\ <<Head(thrFifo)>> \o Tail(thrFifo) = thrFifo
  BY <1>1, <1>2, HeadTailProperties, HeadAndTail
<1>4. InShift' = <<Head(thrFifo)>>
  BY <1>1, <1>3, NoCharIsNone DEF InShift
<1>5. line \o InShift \o thrFifo = line \o thrFifo
  BY <1>1, <1>2, ConcatEmptySeq
<1>6. line \o <<Head(thrFifo)>> \o Tail(thrFifo) = line \o thrFifo
  BY <1>2, <1>3, OneChar, ConcatAssociative
<1>7. Left' = Left
  BY <1>1, <1>4, <1>5, <1>6 DEF Left
<1> QED
  BY <1>7 DEF PrintfInOrder, Left

LEMMA ShiftOutOrder ==
  ASSUME PutTypes, QueueTypes, HwTypes, CallsInv, PrintfInOrder, direct = {},
         ShiftOut, UNCHANGED <<hand, txQueue, queued>>
  PROVE  queued' = Left' \o txQueue'
<1>1. /\ InShift = <<shift>> /\ InShift' = <<>> /\ InHand' = InHand
      /\ thrFifo' = thrFifo /\ line' = Append(line, shift) /\ shift \in Chars
  BY DEF ShiftOut, InShift, InHand, HwTypes
<1>2. line \in Seq(Chars) /\ line \o InShift \in Seq(Chars)
  BY PlacesFacts
<1>3. line' = line \o InShift
  BY <1>1, <1>2, AppendIsConcat
<1>4. line' \o InShift' = line \o InShift
  BY <1>1, <1>2, <1>3, ConcatEmptySeq
<1>5. Left' = Left
  BY <1>1, <1>4 DEF Left
<1> QED
  BY <1>5 DEF PrintfInOrder, Left

LEMMA InterruptOrder ==
  ASSUME PutTypes, QueueTypes, HwTypes, CallsInv, FifoInv, OneAtATime, PrintfInOrder,
         direct = {}, TransmitInterrupt
  PROVE  queued' = Left' \o txQueue'
<1>1. PICK n : n = IF Len(txQueue) < HwFifoSize THEN Len(txQueue) ELSE HwFifoSize
  OBVIOUS
<1>2. PICK s \in Seq(Chars) : s = SubSeq(txQueue, 1, n) /\ Len(s) <= HwFifoSize
  BY <1>1, MovedFacts
<1>3. PICK r \in Seq(Chars) : r = SubSeq(txQueue, n + 1, Len(txQueue)) /\ s \o r = txQueue
  BY <1>1, <1>2, MovedFacts
<1>4. /\ WriteThr(s) /\ txQueue' = r /\ queued' = queued /\ hand' = hand /\ threIrq
  BY <1>1, <1>2, <1>3 DEF TransmitInterrupt, putVars
<1>5. thrFifo = <<>> /\ thrFifo' = s /\ shift' = shift /\ line' = line
  BY <1>2, <1>4, WriteThrFits DEF FifoInv, WriteThr
<1>6. InHand = <<>> /\ InHand' = InHand /\ InShift' = InShift
  <2>1. \A t \in UartTasks : putPc[t] # "write"
    BY <1>4 DEF OneAtATime, Alone
  <2> QED
    BY <1>4, <1>5, <2>1, NoneInHand DEF InHand, InShift
<1>7. PICK A \in Seq(Chars) : A = line \o InShift
  BY PlacesFacts
<1>8. queued = A \o txQueue
  BY <1>5, <1>6, <1>7, ConcatEmptySeq DEF PrintfInOrder
<1>9. Left' = A \o s
  <2>1. A \o s \in Seq(Chars)
    BY ConcatProperties
  <2> QED
    BY <1>5, <1>6, <1>7, <2>1, ConcatEmptySeq DEF Left
<1>10. (A \o s) \o r = A \o (s \o r)
  BY ConcatAssociative
<1> QED
  BY <1>3, <1>4, <1>8, <1>9, <1>10

LEMMA BootOrder ==
  ASSUME PutTypes, QueueTypes, HwTypes, CallsInv, BootInv, PrintfInOrder, direct = {}, BootPut
  PROVE  queued' = Left' \o txQueue'
<1>1. PICK c : c = <<UartBoot, puts[UartBoot] + 1>>
  OBVIOUS
<1>2. c \in Chars /\ <<c>> \in Seq(Chars) /\ Len(<<c>>) <= HwFifoSize
  BY <1>1, BootPutType, OneChar, UartConstants
<1>3. /\ WriteThr(<<c>>) /\ queued' = Append(queued, c) /\ txQueue' = txQueue /\ hand' = hand
  BY <1>1 DEF BootPut
<1>4. /\ txQueue = <<>> /\ thrFifo = <<>> /\ shift = NoChar
      /\ \A t \in UartTasks : putPc[t] = "idle"
  BY DEF BootPut, BootInv, TxIdle
<1>5. thrFifo' = <<c>> /\ shift' = shift /\ line' = line
  BY <1>2, <1>3, <1>4, WriteThrFits DEF WriteThr
<1>6. InHand = <<>> /\ InHand' = <<>> /\ InShift = <<>> /\ InShift' = <<>>
  BY <1>3, <1>4, <1>5, NoneInHand DEF InHand, InShift
<1>7. line \in Seq(Chars)
  BY PlacesFacts
<1>8. queued = line
  BY <1>4, <1>6, <1>7, ConcatEmptySeq DEF PrintfInOrder
<1>9. line \o <<c>> \in Seq(Chars) /\ queued' = line \o <<c>>
  BY <1>2, <1>3, <1>7, <1>8, ConcatProperties, AppendIsConcat
<1>10. Left' \o txQueue' = line \o <<c>>
  BY <1>3, <1>4, <1>5, <1>6, <1>7, <1>9, ConcatEmptySeq DEF Left
<1> QED
  BY <1>9, <1>10

LEMMA SendOrder ==
  ASSUME PutTypes, QueueTypes, HwTypes, CallsInv, PrintfInOrder, direct = {},
         NEW t \in UartTasks, SendChar(t)
  PROVE  queued' = Left' \o txQueue'
<1>1. PICK c : c = <<t, puts[t] + 1>>
  OBVIOUS
<1>2. c \in Chars /\ <<c>> \in Seq(Chars)
  BY <1>1, SendCharType, OneChar
<1>3. /\ queued' = Append(queued, c) /\ txQueue' = Append(txQueue, c)
      /\ UNCHANGED <<hand, line, shift, thrFifo>>
  BY <1>1 DEF SendChar, txHwVars
<1>4. Left' = Left
  BY <1>3 DEF Left, InHand, InShift
<1>5. Left \in Seq(Chars) /\ txQueue \in Seq(Chars) /\ queued \in Seq(Chars)
  BY PlacesFacts
<1>6. queued = Left \o txQueue
  BY DEF PrintfInOrder, Left
<1>7. queued' = queued \o <<c>> /\ txQueue' = txQueue \o <<c>>
  BY <1>2, <1>3, <1>5, AppendIsConcat
<1>8. (Left \o txQueue) \o <<c>> = Left \o (txQueue \o <<c>>)
  BY <1>2, <1>5, ConcatAssociative
<1> QED
  BY <1>4, <1>6, <1>7, <1>8

LEMMA PopOrder ==
  ASSUME PutTypes, QueueTypes, HwTypes, CallsInv, OneAtATime, PrintfInOrder, direct = {},
         NEW t \in UartTasks, PopOldest(t)
  PROVE  queued' = Left' \o txQueue'
<1>1. UNCHANGED <<line, shift, thrFifo, queued>> /\ putPc[t] = "pop"
  BY DEF PopOldest, txHwVars
<1>2. CASE txQueue = <<>>
  <2>1. UNCHANGED <<hand, txQueue>>
    BY <1>2 DEF PopOldest
  <2>2. Left' = Left
    BY <1>1, <2>1 DEF Left, InHand, InShift
  <2> QED
    BY <1>1, <2>1, <2>2 DEF PrintfInOrder, Left
<1>3. CASE txQueue # <<>>
  <2>1. hand' = [hand EXCEPT ![t] = Head(txQueue)] /\ txQueue' = Tail(txQueue)
    BY <1>3 DEF PopOldest
  <2>2. /\ txQueue \in Seq(Chars) /\ line \o InShift \o thrFifo \in Seq(Chars)
    BY PlacesFacts
  <2>3. PICK c \in Chars : c = Head(txQueue) /\ Tail(txQueue) \in Seq(Chars) /\ <<c>> \o Tail(txQueue) = txQueue
    BY <1>3, <2>2, HeadTailProperties, HeadAndTail
  <2>4. \A u \in UartTasks \ {t} : hand[u] = NoChar /\ putPc[u] # "write"
    BY <1>1, HolderAlone DEF Putting
  <2>5. InHand = <<>>
    BY <1>1, <2>4, NoneInHand
  <2>6. hand'[t] = c /\ c # NoChar /\ \A u \in UartTasks \ {t} : hand'[u] = NoChar
    BY <2>1, <2>3, <2>4, UartConstants, NoCharIsNone DEF PutTypes
  <2>7. InHand' = <<c>>
    <3>1. (CHOOSE u \in UartTasks : hand'[u] # NoChar) = t
      BY <2>6
    <3> QED
      BY <2>6, <3>1 DEF InHand
  <2>8. PICK B \in Seq(Chars) : B = line \o InShift \o thrFifo
    BY <2>2
  <2>9. queued = B \o txQueue
    BY <2>5, <2>8, ConcatEmptySeq DEF PrintfInOrder
  <2>10. Left' = B \o <<c>>
    BY <1>1, <2>7, <2>8 DEF Left, InShift
  <2>11. (B \o <<c>>) \o Tail(txQueue) = B \o (<<c>> \o Tail(txQueue))
    BY <2>3, OneChar, ConcatAssociative
  <2> QED
    BY <1>1, <2>1, <2>3, <2>9, <2>10, <2>11
<1> QED
  BY <1>2, <1>3

LEMMA WriteOrder ==
  ASSUME PutTypes, QueueTypes, HwTypes, CallsInv, OneAtATime, PrintfInOrder, direct = {},
         NEW t \in UartTasks, WriteOldest(t)
  PROVE  queued' = Left' \o txQueue'
<1>1. PICK c : c = hand[t]
  OBVIOUS
<1>2. c \in Chars /\ <<c>> \in Seq(Chars) /\ Len(<<c>>) <= HwFifoSize /\ c # NoChar
  BY <1>1, WriteType, OneChar, UartConstants, NoCharIsNone
<1>3. /\ WriteThr(<<c>>) /\ UNCHANGED <<queued, txQueue>> /\ putPc[t] = "write"
      /\ hand' = [hand EXCEPT ![t] = NoChar]
  BY <1>1 DEF WriteOldest
<1>4. thrFifo = <<>> /\ shift = NoChar
  BY <1>3 DEF OneAtATime, Alone, TxIdle
<1>5. thrFifo' = <<c>> /\ shift' = shift /\ line' = line
  BY <1>2, <1>3, <1>4, WriteThrFits DEF WriteThr
<1>6. \A u \in UartTasks \ {t} : hand[u] = NoChar
  BY <1>3, HolderAlone DEF Putting
<1>7. InHand = <<c>>
  <2>1. (CHOOSE u \in UartTasks : hand[u] # NoChar) = t
    BY <1>1, <1>2, <1>6
  <2> QED
    BY <1>1, <1>2, <2>1 DEF InHand
<1>8. InHand' = <<>>
  <2>1. \A u \in UartTasks : hand'[u] = NoChar
    BY <1>3, <1>6, UartConstants DEF PutTypes
  <2> QED
    BY <2>1 DEF InHand
<1>9. InShift = <<>> /\ InShift' = <<>>
  BY <1>4, <1>5 DEF InShift
<1>10. line \in Seq(Chars) /\ line \o <<c>> \in Seq(Chars)
  BY <1>2, PlacesFacts, ConcatProperties
<1>11. Left = line \o <<c>>
  BY <1>4, <1>7, <1>9, <1>10, ConcatEmptySeq DEF Left
<1>12. Left' = line \o <<c>>
  BY <1>5, <1>8, <1>9, <1>10, ConcatEmptySeq DEF Left
<1> QED
  BY <1>3, <1>11, <1>12 DEF PrintfInOrder, Left

LEMMA ClearOrder ==
  ASSUME PutTypes, QueueTypes, HwTypes, CallsInv, PrintfInOrder, direct = {}, clearTx
  PROVE  queued' = Left' \o txQueue'
<1>1. /\ txQueue' = <<>> /\ queued' = SubSeq(queued, 1, Len(queued) - Len(txQueue))
      /\ UNCHANGED <<hand, line, shift, thrFifo>>
  BY DEF clearTx, txHwVars, putVars
<1>2. Left' = Left
  BY <1>1 DEF Left, InHand, InShift
<1>3. Left \in Seq(Chars) /\ txQueue \in Seq(Chars) /\ queued = Left \o txQueue
  BY PlacesFacts DEF PrintfInOrder, Left
<1>4. queued' = Left
  BY <1>1, <1>3, BeforeLast
<1> QED
  BY <1>1, <1>2, <1>3, <1>4, ConcatEmptySeq

LEMMA PrintfStep ==
  ASSUME UartInv, [UartNext]_uartVars
  PROVE  PrintfInOrder'
<1> USE DEF putVars, txHwVars, UartInv
<1> SUFFICES ASSUME direct' = {} PROVE queued' = Left' \o txQueue'
  BY DEF PrintfInOrder, Left
<1>0. direct = {}
  BY DEF UartNext, uartVars, putStep, Transmitter, Receiver, uartInterrupt, ReceiveInterrupt,
      TransmitInterrupt, clearTx, getChar, clearRx, BootPut, BootPolled, UartStartScheduler,
      CallPut, CallFlush, TakeSem, SendChar, SendTimeout, CheckIdle, PopOldest, WriteOldest, FlushDone
<1>1. CASE UNCHANGED <<hand, line, shift, thrFifo, txQueue, queued>>
  <2>1. Left' = Left
    BY <1>1 DEF Left, InHand, InShift
  <2> QED
    BY <1>0, <1>1, <2>1 DEF PrintfInOrder, Left
<1>2. CASE Transmitter
  <2>1. UNCHANGED <<hand, txQueue, queued>>
    BY <1>2 DEF Transmitter
  <2> QED
    BY <1>0, <1>1, <1>2, <2>1, LoadOrder, ShiftOutOrder DEF Transmitter, RaiseThre
<1>3. CASE TransmitInterrupt
  BY <1>0, <1>3, InterruptOrder
<1>4. CASE BootPut
  BY <1>0, <1>4, BootOrder
<1>5. CASE clearTx
  BY <1>0, <1>5, ClearOrder
<1>6. ASSUME NEW t \in UartTasks, SendChar(t) \/ PopOldest(t) \/ WriteOldest(t)
      PROVE  queued' = Left' \o txQueue'
  BY <1>0, <1>6, SendOrder, PopOrder, WriteOrder
<1> HIDE DEF UartInv
<1> QED
  BY <1>1, <1>2, <1>3, <1>4, <1>5, <1>6
  DEF UartNext, uartVars, Receiver, uartInterrupt, ReceiveInterrupt, getChar, clearRx,
      UartStartScheduler, BootPolled, CallPut, CallFlush, putStep, TakeSem, SendTimeout,
      CheckIdle, FlushDone

-----------------------------------------------------------------------------
(* The order of the characters, from the whole invariant.                  *)

LEMMA UartStep == UartInv /\ [UartNext]_uartVars => UartInv'
<1> SUFFICES ASSUME UartInv, [UartNext]_uartVars PROVE UartInv'
  OBVIOUS
<1>1. PrintfInOrder'
  BY PrintfStep
<1> QED
  BY <1>1, UartTypeStep, CallsStep, BootStep, FifoStep, AloneStep DEF UartInv

(* Where every caller of put() and printf() is, what the transmitter does, *)
(* and the order of the characters, for any tasks and sizes of the queues. *)
THEOREM UartInvariance == UartSpec => []UartInv
BY UartInitInv, UartStep, PTL DEF UartSpec

(* If all tasks print with printf(), the characters leave in the order     *)
(* they were put, although the interrupt and putChar() both move them from *)
(* the queue to the transmitter, and none is lost to a full FIFO.          *)
THEOREM PrintfKeepsOrder == UartSpec => []PrintfInOrder
<1>1. UartInv => PrintfInOrder
  BY DEF UartInv
<1> QED
  BY <1>1, UartInvariance, PTL

(* The queues and the FIFOs never hold more than they can, whether the     *)
(* tasks use printf() or put().                                            *)
THEOREM UartTyped == UartSpec => []UartTypeOK
<1>1. UartInv => UartTypeOK
  BY UartTypesAre DEF UartInv
<1> QED
  BY <1>1, UartInvariance, PTL

-----------------------------------------------------------------------------
(* The places of characters.                                               *)

(* What is in a sequence, and that nothing is in it twice.                 *)
Elems(s) == {s[i] : i \in DOMAIN s}
Distinct(s) == \A i, j \in DOMAIN s : s[i] = s[j] => i = j

(* The characters in the six places of a character.                        *)
Holding ==
  <<Elems(txQueue), {hand[t] : t \in UartTasks} \ {NoChar}, Elems(thrFifo),
    {shift} \ {NoChar}, Elems(line), overrun>>

Apart(H) == \A i, j \in 1 .. 6 : i # j => H[i] \cap H[j] = {}
InAPlace(H) == UNION {H[k] : k \in 1 .. 6}

(* All in S were put, by their number.                                     *)
WerePut(S) == \A c \in S : c[2] <= puts[c[1]]

PlacesInv ==
  /\ Distinct(txQueue) /\ Distinct(thrFifo) /\ Distinct(line) /\ Distinct(queued)
  /\ \A t, u \in UartTasks : hand[t] = hand[u] /\ hand[t] # NoChar => t = u
  /\ Apart(Holding) /\ Elems(queued) \subseteq InAPlace(Holding)
  /\ WerePut(InAPlace(Holding))
  /\ \E r \in Seq(Chars) : queued = r \o txQueue

LEMMA HoldingIs ==
  /\ Holding[1] = Elems(txQueue) /\ Holding[2] = {hand[t] : t \in UartTasks} \ {NoChar}
  /\ Holding[3] = Elems(thrFifo) /\ Holding[4] = {shift} \ {NoChar}
  /\ Holding[5] = Elems(line) /\ Holding[6] = overrun
BY DEF Holding

LEMMA SixPlaces == \A k \in 1 .. 6 : k \in {1, 2, 3, 4, 5, 6}
OBVIOUS

LEMMA AppendElems ==
  ASSUME NEW S, NEW q \in Seq(S), NEW e \in S
  PROVE  /\ Elems(Append(q, e)) = Elems(q) \cup {e}
         /\ Distinct(q) /\ e \notin Elems(q) => Distinct(Append(q, e))
<1> DEFINE r == Append(q, e)
<1>1. /\ DOMAIN r = 1 .. Len(q) + 1 /\ r[Len(q) + 1] = e /\ Len(q) \in Nat /\ DOMAIN q = 1 .. Len(q)
      /\ \A i \in 1 .. Len(q) : r[i] = q[i]
  OBVIOUS
<1> HIDE DEF r
<1>2. \A i \in DOMAIN r : i \in DOMAIN q \/ i = Len(q) + 1
  BY <1>1
<1>3. Len(q) + 1 \in DOMAIN r /\ \A i \in DOMAIN q : i \in DOMAIN r
  BY <1>1
<1>4. Elems(r) = Elems(q) \cup {e}
  BY <1>1, <1>2, <1>3 DEF Elems
<1>5. Distinct(q) /\ e \notin Elems(q) => Distinct(r)
  <2> SUFFICES ASSUME Distinct(q), e \notin Elems(q), NEW i \in DOMAIN r, NEW j \in DOMAIN r, r[i] = r[j]
               PROVE  i = j
    BY DEF Distinct
  <2>1. CASE i \in DOMAIN q /\ j \in DOMAIN q
    BY <1>1, <2>1 DEF Distinct
  <2>2. CASE i \notin DOMAIN q \/ j \notin DOMAIN q
    BY <1>1, <1>2, <2>2 DEF Elems
  <2> QED
    BY <2>1, <2>2
<1> QED
  BY <1>4, <1>5 DEF r

LEMMA ConcatElems ==
  ASSUME NEW S, NEW s \in Seq(S), NEW r \in Seq(S), Distinct(s \o r)
  PROVE  /\ Distinct(s) /\ Distinct(r) /\ Elems(s) \subseteq Elems(s \o r)
         /\ Elems(r) = Elems(s \o r) \ Elems(s)
<1> DEFINE q == s \o r
<1>1. /\ DOMAIN q = 1 .. Len(s) + Len(r) /\ Len(s) \in Nat /\ Len(r) \in Nat
      /\ DOMAIN s = 1 .. Len(s) /\ DOMAIN r = 1 .. Len(r)
      /\ \A i \in 1 .. Len(s) : q[i] = s[i]
      /\ \A i \in 1 .. Len(r) : q[i + Len(s)] = r[i]
  OBVIOUS
<1>0. Distinct(q)
  OBVIOUS
<1> HIDE DEF q
<1>2. \A i \in DOMAIN s : i \in DOMAIN q /\ q[i] = s[i]
  BY <1>1
<1>3. \A i \in DOMAIN r : i + Len(s) \in DOMAIN q /\ q[i + Len(s)] = r[i] /\ i + Len(s) \notin DOMAIN s
  BY <1>1
<1>4. \A i \in DOMAIN q : i \in DOMAIN s \/ (i - Len(s) \in DOMAIN r /\ q[i] = r[i - Len(s)])
  <2> SUFFICES ASSUME NEW i \in DOMAIN q, i \notin DOMAIN s
               PROVE  i - Len(s) \in DOMAIN r /\ q[i] = r[i - Len(s)]
    OBVIOUS
  <2>1. i - Len(s) \in 1 .. Len(r) /\ (i - Len(s)) + Len(s) = i
    BY <1>1
  <2> QED
    BY <1>1, <2>1
<1>5. Distinct(s)
  BY <1>0, <1>2 DEF Distinct
<1>6. Distinct(r)
  <2> SUFFICES ASSUME NEW i \in DOMAIN r, NEW j \in DOMAIN r, r[i] = r[j] PROVE i = j
    BY DEF Distinct
  <2>1. i + Len(s) = j + Len(s)
    BY <1>0, <1>3 DEF Distinct
  <2> QED
    BY <1>1, <2>1
<1>7. Elems(s) \subseteq Elems(q)
  BY <1>2 DEF Elems
<1>8. ASSUME NEW e \in Elems(r) PROVE e \in Elems(q) /\ e \notin Elems(s)
  <2>1. PICK i \in DOMAIN r : e = r[i]
    BY DEF Elems
  <2>2. \A j \in DOMAIN s : s[j] # e
    BY <1>0, <1>2, <1>3, <2>1 DEF Distinct
  <2> QED
    BY <1>3, <2>1, <2>2 DEF Elems
<1>9. ASSUME NEW e \in Elems(q), e \notin Elems(s) PROVE e \in Elems(r)
  BY <1>2, <1>4, <1>9 DEF Elems
<1> QED
  BY <1>5, <1>6, <1>7, <1>8, <1>9 DEF q

LEMMA TailElems ==
  ASSUME NEW S, NEW q \in Seq(S), q # <<>>, Distinct(q)
  PROVE  /\ Tail(q) \in Seq(S) /\ Head(q) \in S /\ Head(q) \in Elems(q)
         /\ Distinct(Tail(q)) /\ Elems(Tail(q)) = Elems(q) \ {Head(q)}
<1>1. PICK h, r : h = Head(q) /\ r = Tail(q)
  OBVIOUS
<1>2. h \in S /\ r \in Seq(S) /\ <<h>> \o r = q
  BY <1>1, HeadTailProperties, HeadAndTail
<1>3. <<h>> \in Seq(S)
  BY <1>2
<1>4. /\ Distinct(r) /\ Elems(<<h>>) \subseteq Elems(q)
      /\ Elems(r) = Elems(q) \ Elems(<<h>>)
  BY ONLY <1>2, <1>3, ConcatElems, Distinct(q)
<1>5. Elems(<<h>>) = {h}
  BY DEF Elems
<1> QED
  BY <1>1, <1>2, <1>4, <1>5

Hands == {hand[t] : t \in UartTasks} \ {NoChar}
Shifting == {shift} \ {NoChar}
HandsDiffer == \A t, u \in UartTasks : hand[t] = hand[u] /\ hand[t] # NoChar => t = u
AfterRest == \E r \in Seq(Chars) : queued = r \o txQueue

(* In this step M leaves its places, and N, a part of it, goes to place j. *)
Moves(M, N, j) ==
  /\ Elems(txQueue)' = (Elems(txQueue) \ M) \cup (IF j = 1 THEN N ELSE {})
  /\ Hands' = (Hands \ M) \cup (IF j = 2 THEN N ELSE {})
  /\ Elems(thrFifo)' = (Elems(thrFifo) \ M) \cup (IF j = 3 THEN N ELSE {})
  /\ Shifting' = (Shifting \ M) \cup (IF j = 4 THEN N ELSE {})
  /\ Elems(line)' = (Elems(line) \ M) \cup (IF j = 5 THEN N ELSE {})
  /\ overrun' = (overrun \ M) \cup (IF j = 6 THEN N ELSE {})

LEMMA HeldIs ==
  InAPlace(Holding) = Elems(txQueue) \cup Hands \cup Elems(thrFifo) \cup Shifting \cup Elems(line) \cup overrun
<1>1. \A k \in 1 .. 6 : k \in {1, 2, 3, 4, 5, 6}
  BY SixPlaces
<1>2. {1, 2, 3, 4, 5, 6} \subseteq 1 .. 6
  OBVIOUS
<1>3. PICK H : H = Holding
  OBVIOUS
<1>4. /\ H[1] = Elems(txQueue) /\ H[2] = Hands /\ H[3] = Elems(thrFifo)
      /\ H[4] = Shifting /\ H[5] = Elems(line) /\ H[6] = overrun
  BY <1>3, HoldingIs DEF Hands, Shifting
<1>5. InAPlace(H) = H[1] \cup H[2] \cup H[3] \cup H[4] \cup H[5] \cup H[6]
  BY ONLY <1>1, <1>2 DEF InAPlace
<1> QED
  BY ONLY <1>3, <1>4, <1>5

(* Different places have nothing in common.                                *)
LEMMA PlacesApart ==
  ASSUME Apart(Holding)
  PROVE  /\ \A c \in Elems(txQueue) :
              c \notin Hands /\ c \notin Elems(thrFifo) /\ c \notin Shifting /\ c \notin Elems(line) /\ c \notin overrun
         /\ \A c \in Hands : c \notin Elems(thrFifo) /\ c \notin Shifting /\ c \notin Elems(line) /\ c \notin overrun
         /\ \A c \in Elems(thrFifo) : c \notin Shifting /\ c \notin Elems(line) /\ c \notin overrun
         /\ \A c \in Shifting : c \notin Elems(line) /\ c \notin overrun
         /\ \A c \in Elems(line) : c \notin overrun
<1>1. PICK H : H = Holding
  OBVIOUS
<1>2. /\ H[1] = Elems(txQueue) /\ H[2] = Hands /\ H[3] = Elems(thrFifo)
      /\ H[4] = Shifting /\ H[5] = Elems(line) /\ H[6] = overrun
  BY <1>1, HoldingIs DEF Hands, Shifting
<1>3. \A i, j \in 1 .. 6 : \A c : i # j /\ c \in H[i] => c \notin H[j]
  BY <1>1 DEF Apart
<1>4. /\ \A c \in H[1] : c \notin H[2] /\ c \notin H[3] /\ c \notin H[4] /\ c \notin H[5] /\ c \notin H[6]
      /\ \A c \in H[2] : c \notin H[3] /\ c \notin H[4] /\ c \notin H[5] /\ c \notin H[6]
      /\ \A c \in H[3] : c \notin H[4] /\ c \notin H[5] /\ c \notin H[6]
      /\ \A c \in H[4] : c \notin H[5] /\ c \notin H[6]
      /\ \A c \in H[5] : c \notin H[6]
  BY ONLY <1>3
<1> QED
  BY ONLY <1>2, <1>4

LEMMA MovesApart ==
  ASSUME Apart(Holding), NEW M, NEW N \in SUBSET M, NEW j \in 1 .. 6, Moves(M, N, j)
  PROVE  Apart(Holding)' /\ InAPlace(Holding)' = (InAPlace(Holding) \ M) \cup N
<1>1. PICK H, G : H = Holding /\ G = Holding'
  OBVIOUS
<1>2. /\ H[1] = Elems(txQueue) /\ H[2] = Hands /\ H[3] = Elems(thrFifo)
      /\ H[4] = Shifting /\ H[5] = Elems(line) /\ H[6] = overrun
  BY <1>1, HoldingIs DEF Hands, Shifting
<1>3. /\ G[1] = Elems(txQueue)' /\ G[2] = Hands' /\ G[3] = Elems(thrFifo)'
      /\ G[4] = Shifting' /\ G[5] = Elems(line)' /\ G[6] = overrun'
  BY <1>1 DEF Hands, Shifting, Holding
<1>4. /\ G[1] = (H[1] \ M) \cup (IF j = 1 THEN N ELSE {}) /\ G[2] = (H[2] \ M) \cup (IF j = 2 THEN N ELSE {})
      /\ G[3] = (H[3] \ M) \cup (IF j = 3 THEN N ELSE {}) /\ G[4] = (H[4] \ M) \cup (IF j = 4 THEN N ELSE {})
      /\ G[5] = (H[5] \ M) \cup (IF j = 5 THEN N ELSE {}) /\ G[6] = (H[6] \ M) \cup (IF j = 6 THEN N ELSE {})
  BY <1>2, <1>3 DEF Moves
<1>5. \A k \in 1 .. 6 : G[k] = (H[k] \ M) \cup (IF k = j THEN N ELSE {})
  <2> TAKE k \in 1 .. 6
  <2>1. k \in {1, 2, 3, 4, 5, 6}
    BY SixPlaces
  <2> QED
    BY ONLY <2>1, <1>4
<1>6. Apart(G) /\ InAPlace(G) = (InAPlace(H) \ M) \cup N
  <2>1. \A i, k \in 1 .. 6 : i # k => H[i] \cap H[k] = {}
    BY <1>1 DEF Apart
  <2>2. N \subseteq M
    OBVIOUS
  <2>3. \A i, k \in 1 .. 6 : i # k => G[i] \cap G[k] = {}
    BY ONLY <1>5, <2>1, <2>2
  <2>4. InAPlace(G) = (InAPlace(H) \ M) \cup N
    BY ONLY <1>5, <2>2, j \in 1 .. 6 DEF InAPlace
  <2> QED
    BY <2>3, <2>4 DEF Apart
<1>7. Apart(Holding)' <=> Apart(G)
  BY <1>1 DEF Apart
<1>8. InAPlace(Holding)' = InAPlace(G)
  BY <1>1 DEF InAPlace
<1> QED
  BY <1>1, <1>6, <1>7, <1>8

LEMMA PlacesMove ==
  ASSUME PlacesInv, NEW M, NEW N \in SUBSET M, NEW j \in 1 .. 6, Moves(M, N, j),
         Distinct(txQueue)', Distinct(thrFifo)', Distinct(line)', Distinct(queued)', HandsDiffer', AfterRest',
         Elems(queued)' \subseteq (InAPlace(Holding) \ M) \cup N,
         \A c \in (InAPlace(Holding) \ M) \cup N : c[2] <= puts'[c[1]]
  PROVE  PlacesInv'
<1>1. Apart(Holding)' /\ InAPlace(Holding)' = (InAPlace(Holding) \ M) \cup N
  BY MovesApart DEF PlacesInv
<1>2. WerePut(InAPlace(Holding))'
  BY <1>1 DEF WerePut
<1> QED
  BY <1>1, <1>2 DEF PlacesInv, HandsDiffer, AfterRest

LEMMA PlacesInit == UartInit => PlacesInv
<1> SUFFICES ASSUME UartInit PROVE PlacesInv
  OBVIOUS
<1>1. Elems(txQueue) = {} /\ Elems(thrFifo) = {} /\ Elems(line) = {} /\ Elems(queued) = {} /\ overrun = {}
  BY DEF UartInit, Elems
<1>2. Hands = {} /\ Shifting = {} /\ HandsDiffer
  BY UartConstants DEF UartInit, Hands, Shifting, HandsDiffer
<1>3. InAPlace(Holding) = {}
  BY <1>1, <1>2, HeldIs
<1>4. Apart(Holding)
  BY <1>3 DEF Apart, InAPlace
<1>5. AfterRest
  <2>1. <<>> \in Seq(Chars) /\ <<>> = <<>> \o <<>>
    BY EmptySeq, ConcatEmptySeq
  <2> QED
    BY <2>1 DEF UartInit, AfterRest
<1> QED
  BY <1>1, <1>2, <1>3, <1>4, <1>5 DEF PlacesInv, UartInit, Distinct, WerePut, HandsDiffer, AfterRest

(* What PlacesInv says, with named parts.                                  *)
LEMMA PlacesParts ==
  PlacesInv <=>
    /\ Distinct(txQueue) /\ Distinct(thrFifo) /\ Distinct(line) /\ Distinct(queued)
    /\ HandsDiffer /\ Apart(Holding) /\ Elems(queued) \subseteq InAPlace(Holding)
    /\ WerePut(InAPlace(Holding)) /\ AfterRest
BY DEF PlacesInv, HandsDiffer, AfterRest

(* A step that moves no character.                                         *)
LEMMA PlacesStay ==
  ASSUME PlacesInv, UNCHANGED <<txQueue, hand, thrFifo, shift, line, overrun, queued, puts>>
  PROVE  PlacesInv'
<1>1. Holding' = Holding
  BY DEF Holding, Elems
<1>2. Apart(Holding)' /\ InAPlace(Holding)' = InAPlace(Holding)
  BY <1>1, PlacesParts DEF Apart, InAPlace
<1>3. WerePut(InAPlace(Holding))'
  BY <1>2, PlacesParts DEF WerePut
<1>4. HandsDiffer' /\ AfterRest' /\ Elems(queued)' = Elems(queued)
  BY PlacesParts DEF HandsDiffer, AfterRest, Elems
<1>5. Distinct(txQueue)' /\ Distinct(thrFifo)' /\ Distinct(line)' /\ Distinct(queued)'
  BY PlacesParts DEF Distinct
<1>6. Elems(queued)' \subseteq InAPlace(Holding)'
  BY <1>2, <1>4, PlacesParts
<1> QED
  BY <1>2, <1>3, <1>4, <1>5, <1>6 DEF PlacesInv, HandsDiffer, AfterRest

PlacesTyped == PutTypes /\ QueueTypes /\ HwTypes /\ CallsInv /\ BootInv /\ FifoInv

LEMMA PlacesTypesAre ==
  ASSUME PlacesTyped
  PROVE  /\ txQueue \in Seq(Chars) /\ thrFifo \in Seq(Chars) /\ line \in Seq(Chars) /\ queued \in Seq(Chars)
         /\ shift \in Chars \cup {NoChar} /\ hand \in [Putters -> Chars \cup {NoChar}] /\ NoChar \notin Chars
         /\ puts \in [Putters -> Nat] /\ UartTasks \subseteq Putters
BY NoCharIsNone DEF PlacesTyped, PutTypes, QueueTypes, HwTypes, Putters

(* A character goes from one place to the next: it is in no other.         *)
LEMMA FromQueue ==
  ASSUME PlacesInv, NEW M \in SUBSET Elems(txQueue)
  PROVE  /\ Hands \ M = Hands /\ Elems(thrFifo) \ M = Elems(thrFifo) /\ Shifting \ M = Shifting
         /\ Elems(line) \ M = Elems(line) /\ overrun \ M = overrun
         /\ (InAPlace(Holding) \ M) \cup M = InAPlace(Holding)
<1>1. \A c \in M :
        c \notin Hands /\ c \notin Elems(thrFifo) /\ c \notin Shifting /\ c \notin Elems(line) /\ c \notin overrun
  BY PlacesParts, PlacesApart
<1>2. M \subseteq InAPlace(Holding)
  BY HeldIs
<1> QED
  BY ONLY <1>1, <1>2

LEMMA PutsKept ==
  ASSUME PlacesInv, puts' = puts, NEW K, K \subseteq InAPlace(Holding)
  PROVE  \A c \in K : c[2] <= puts'[c[1]]
BY PlacesParts DEF WerePut

LEMMA ConcatThree ==
  ASSUME NEW S, NEW q, NEW s, NEW r, q \in Seq(S), s \in Seq(S), r \in Seq(S)
  PROVE  (q \o s) \o r = q \o (s \o r)
BY ConcatAssociative

LEMMA LoadPlaces ==
  ASSUME PlacesTyped, PlacesInv, Load, UNCHANGED <<hand, puts, txQueue, queued>>
  PROVE  PlacesInv'
<1>1. /\ shift = NoChar /\ thrFifo # <<>> /\ shift' = Head(thrFifo) /\ thrFifo' = Tail(thrFifo)
      /\ UNCHANGED <<line, overrun>>
  BY DEF Load
<1>2. PICK h : h = Head(thrFifo)
  OBVIOUS
<1>3. /\ h \in Chars /\ h \in Elems(thrFifo)
      /\ Distinct(Tail(thrFifo)) /\ Elems(Tail(thrFifo)) = Elems(thrFifo) \ {h}
  <2>1. thrFifo \in Seq(Chars) /\ Distinct(thrFifo)
    BY PlacesTypesAre, PlacesParts
  <2> HIDE DEF Chars
  <2> QED
    BY ONLY <1>1, <1>2, <2>1, TailElems
<1>4. h \notin Elems(txQueue) /\ h \notin Hands /\ h \notin Elems(line) /\ h \notin overrun
  BY <1>3, PlacesParts, PlacesApart
<1>5. /\ Elems(txQueue)' = Elems(txQueue) /\ Hands' = Hands /\ Elems(line)' = Elems(line) /\ overrun' = overrun
      /\ Elems(thrFifo)' = Elems(thrFifo) \ {h} /\ Elems(queued)' = Elems(queued)
  BY <1>1, <1>3 DEF Elems, Hands
<1>6. Shifting = {} /\ Shifting' = {h}
  BY <1>1, <1>2, <1>3, NoCharIsNone DEF Shifting
<1>7. Moves({h}, {h}, 4)
  BY ONLY <1>4, <1>5, <1>6 DEF Moves
<1>8. (InAPlace(Holding) \ {h}) \cup {h} = InAPlace(Holding)
  BY <1>3, HeldIs
<1>9. Distinct(txQueue)' /\ Distinct(thrFifo)' /\ Distinct(line)' /\ Distinct(queued)' /\ HandsDiffer' /\ AfterRest'
  BY <1>1, <1>3, PlacesParts DEF HandsDiffer, AfterRest, Distinct
<1>10. Elems(queued)' \subseteq InAPlace(Holding)
  BY <1>5, PlacesParts
<1>11. \A c \in InAPlace(Holding) : c[2] <= puts'[c[1]]
  BY PutsKept
<1> QED
  BY <1>7, <1>8, <1>9, <1>10, <1>11, PlacesMove

LEMMA ShiftOutPlaces ==
  ASSUME PlacesTyped, PlacesInv, ShiftOut, UNCHANGED <<hand, puts, txQueue, queued>>
  PROVE  PlacesInv'
<1>1. shift # NoChar /\ line' = Append(line, shift) /\ shift' = NoChar /\ UNCHANGED <<thrFifo, overrun>>
  BY DEF ShiftOut
<1>2. PICK h : h = shift
  OBVIOUS
<1>3. h \in Chars /\ Shifting = {h} /\ Shifting' = {}
  BY <1>1, <1>2, PlacesTypesAre DEF Shifting
<1>4. h \notin Elems(txQueue) /\ h \notin Hands /\ h \notin Elems(thrFifo) /\ h \notin Elems(line) /\ h \notin overrun
  BY <1>3, PlacesParts, PlacesApart
<1>5. Elems(Append(line, h)) = Elems(line) \cup {h} /\ Distinct(Append(line, h))
  <2>1. line \in Seq(Chars) /\ Distinct(line)
    BY PlacesTypesAre, PlacesParts
  <2> HIDE DEF Chars
  <2> QED
    BY ONLY <1>3, <1>4, <2>1, AppendElems
<1>6. /\ Elems(txQueue)' = Elems(txQueue) /\ Hands' = Hands /\ Elems(thrFifo)' = Elems(thrFifo) /\ overrun' = overrun
      /\ Elems(line)' = Elems(line) \cup {h} /\ Elems(queued)' = Elems(queued)
  BY <1>1, <1>2, <1>5 DEF Elems, Hands
<1>7. Moves({h}, {h}, 5)
  BY ONLY <1>3, <1>4, <1>6 DEF Moves
<1>8. (InAPlace(Holding) \ {h}) \cup {h} = InAPlace(Holding)
  BY <1>3, HeldIs
<1>9. Distinct(txQueue)' /\ Distinct(thrFifo)' /\ Distinct(line)' /\ Distinct(queued)' /\ HandsDiffer' /\ AfterRest'
  BY <1>1, <1>2, <1>5, PlacesParts DEF HandsDiffer, AfterRest, Distinct
<1>10. Elems(queued)' \subseteq InAPlace(Holding)
  BY <1>6, PlacesParts
<1>11. \A c \in InAPlace(Holding) : c[2] <= puts'[c[1]]
  BY PutsKept
<1> QED
  BY <1>7, <1>8, <1>9, <1>10, <1>11, PlacesMove

LEMMA InterruptPlaces ==
  ASSUME PlacesTyped, PlacesInv, TransmitInterrupt
  PROVE  PlacesInv'
<1>1. PICK n : n = IF Len(txQueue) < HwFifoSize THEN Len(txQueue) ELSE HwFifoSize
  OBVIOUS
<1>2. PICK s, r : s = SubSeq(txQueue, 1, n) /\ r = SubSeq(txQueue, n + 1, Len(txQueue))
  OBVIOUS
<1>3. s \in Seq(Chars) /\ r \in Seq(Chars) /\ Len(s) <= HwFifoSize /\ s \o r = txQueue
  BY <1>1, <1>2, MovedFacts DEF PlacesTyped
<1>4. /\ WriteThr(s) /\ txQueue' = r /\ threIrq
      /\ UNCHANGED <<queued, hand, puts>>
  BY <1>1, <1>2 DEF TransmitInterrupt, putVars
<1>5. thrFifo = <<>> /\ thrFifo' = s
  BY <1>3, <1>4, WriteThrFits DEF FifoInv, PlacesTyped
<1>6. overrun' = overrun /\ UNCHANGED <<shift, line>>
  <2>1. HwFifoSize - Len(thrFifo) = HwFifoSize /\ HwFifoSize \in Nat /\ Len(s) \in Nat
    BY <1>3, <1>5, UartConstants
  <2>2. (HwFifoSize - Len(thrFifo) + 1) .. Len(s) = {}
    BY <1>3, <2>1
  <2> QED
    BY <1>4, <2>2 DEF WriteThr
<1>7. Distinct(s) /\ Distinct(r) /\ Elems(s) \subseteq Elems(txQueue) /\ Elems(r) = Elems(txQueue) \ Elems(s)
  <2>1. Distinct(s \o r)
    BY <1>3, PlacesParts
  <2> HIDE DEF Chars
  <2>2. /\ Distinct(s) /\ Distinct(r) /\ Elems(s) \subseteq Elems(s \o r)
        /\ Elems(r) = Elems(s \o r) \ Elems(s)
    BY ONLY <1>3, <2>1, ConcatElems
  <2> QED
    BY ONLY <1>3, <2>2
<1>8. Elems(thrFifo) = {}
  BY <1>5 DEF Elems
<1>9. /\ Elems(txQueue)' = Elems(txQueue) \ Elems(s) /\ Hands' = Hands /\ Elems(thrFifo)' = Elems(s)
      /\ Shifting' = Shifting /\ Elems(line)' = Elems(line) /\ Elems(queued)' = Elems(queued)
  BY <1>4, <1>5, <1>6, <1>7 DEF Elems, Hands, Shifting
<1>10. /\ Hands \ Elems(s) = Hands /\ Shifting \ Elems(s) = Shifting /\ Elems(line) \ Elems(s) = Elems(line)
       /\ overrun \ Elems(s) = overrun /\ (InAPlace(Holding) \ Elems(s)) \cup Elems(s) = InAPlace(Holding)
  BY <1>7, FromQueue
<1>11. Moves(Elems(s), Elems(s), 3)
  BY ONLY <1>6, <1>8, <1>9, <1>10 DEF Moves
<1>12. AfterRest'
  <2>1. PICK q \in Seq(Chars) : queued = q \o txQueue
    BY PlacesParts DEF AfterRest
  <2>2. q \o s \in Seq(Chars)
    BY <1>3, ConcatProperties
  <2>4. (q \o s) \o r = q \o (s \o r)
    <3>1. q \in Seq(Chars)
      OBVIOUS
    <3>2. s \in Seq(Chars)
      BY <1>3
    <3>3. r \in Seq(Chars)
      BY <1>3
    <3> QED
      BY ONLY <3>1, <3>2, <3>3, ConcatThree
  <2>3. queued' = (q \o s) \o txQueue'
    BY <1>3, <1>4, <2>1, <2>4
  <2> QED
    BY <2>2, <2>3 DEF AfterRest
<1>13. Distinct(txQueue)' /\ Distinct(thrFifo)' /\ Distinct(line)' /\ Distinct(queued)' /\ HandsDiffer'
  BY <1>4, <1>5, <1>6, <1>7, PlacesParts DEF HandsDiffer, Distinct
<1>14. Elems(queued)' \subseteq InAPlace(Holding)
  BY <1>9, PlacesParts
<1>15. \A c \in InAPlace(Holding) : c[2] <= puts'[c[1]]
  BY <1>4, PutsKept
<1> QED
  BY <1>10, <1>11, <1>12, <1>13, <1>14, <1>15, PlacesMove

(* What one more character needs: a number that was not given yet.         *)
LEMMA NewChar ==
  ASSUME PlacesTyped, PlacesInv, NEW p \in Putters, NEW c, c = <<p, puts[p] + 1>>, c \in Chars
  PROVE  /\ c \notin Elems(txQueue) /\ c \notin Hands /\ c \notin Elems(thrFifo) /\ c \notin Shifting
         /\ c \notin Elems(line) /\ c \notin overrun /\ c \notin Elems(queued)
         /\ puts' = [puts EXCEPT ![p] = @ + 1] => \A e \in InAPlace(Holding) \cup {c} : e[2] <= puts'[e[1]]
<1>1. puts \in [Putters -> Nat] /\ c[1] = p /\ c[2] = puts[p] + 1
  BY PlacesTypesAre
<1>2. ~ (c[2] <= puts[c[1]])
  BY <1>1
<1>3. c \notin InAPlace(Holding)
  BY <1>2, PlacesParts DEF WerePut
<1>4. c \notin Elems(queued)
  BY <1>3, PlacesParts
<1>5. ASSUME puts' = [puts EXCEPT ![p] = @ + 1], NEW e \in InAPlace(Holding) \cup {c} PROVE e[2] <= puts'[e[1]]
  <2>1. CASE e = c
    BY <1>1, <1>5, <2>1
  <2>2. CASE e \in InAPlace(Holding) /\ e[1] # p
    <3>1. e[2] <= puts[e[1]] /\ puts'[e[1]] = puts[e[1]]
      BY <1>1, <1>5, <2>2, PlacesParts DEF WerePut
    <3> QED
      BY <3>1
  <2>3. CASE e \in InAPlace(Holding) /\ e[1] = p
    <3>1. e[2] <= puts[p] /\ puts'[p] = puts[p] + 1
      BY <1>1, <1>5, <2>3, PlacesParts DEF WerePut
    <3>2. e[2] \in Int
      <4>1. InAPlace(Holding) \subseteq Chars
        <5>1. Elems(txQueue) \subseteq Chars /\ Elems(thrFifo) \subseteq Chars /\ Elems(line) \subseteq Chars
          <6>1. \A S : \A q \in Seq(S) : Elems(q) \subseteq S
            BY DEF Elems
          <6> QED
            BY <6>1, PlacesTypesAre
        <5>2. Hands \subseteq Chars /\ Shifting \subseteq Chars /\ overrun \subseteq Chars
          BY PlacesTypesAre DEF Hands, Shifting, PlacesTyped, HwTypes
        <5> QED
          BY <5>1, <5>2, HeldIs
      <4>2. PICK o \in Putters : e \in {o} \X (1 .. MaxChars[o])
        BY <2>3, <4>1 DEF Chars
      <4> QED
        BY <4>2, UartConstants
    <3>3. PICK a, b, d : a = e[2] /\ b = puts[p] /\ d = puts'[p]
      OBVIOUS
    <3>4. a \in Int /\ b \in Nat /\ a <= b /\ d = b + 1
      BY <1>1, <3>1, <3>2, <3>3
    <3>5. a <= d
      BY ONLY <3>4
    <3> QED
      BY <2>3, <3>3, <3>5
  <2> QED
    BY <2>1, <2>2, <2>3
<1> QED
  BY <1>3, <1>4, <1>5, HeldIs

LEMMA BootPutPlaces ==
  ASSUME PlacesTyped, PlacesInv, BootPut
  PROVE  PlacesInv'
<1>1. PICK c : c = <<UartBoot, puts[UartBoot] + 1>>
  OBVIOUS
<1>2. c \in Chars /\ <<c>> \in Seq(Chars) /\ Len(<<c>>) <= HwFifoSize /\ Len(<<c>>) = 1
  BY <1>1, BootPutType, OneChar, UartConstants DEF PlacesTyped
<1>3. /\ WriteThr(<<c>>) /\ queued' = Append(queued, c) /\ UNCHANGED <<txQueue, hand>>
      /\ puts' = [puts EXCEPT ![UartBoot] = @ + 1]
  BY <1>1 DEF BootPut
<1>4. txQueue = <<>> /\ thrFifo = <<>>
  BY DEF BootPut, PlacesTyped, BootInv, TxIdle
<1>5. thrFifo' = <<c>> /\ UNCHANGED <<shift, line>>
  BY <1>2, <1>3, <1>4, WriteThrFits DEF WriteThr
<1>6. overrun' = overrun
  <2>1. HwFifoSize - Len(thrFifo) = HwFifoSize /\ HwFifoSize \in Nat /\ HwFifoSize >= 1
    BY <1>4, UartConstants
  <2>2. (HwFifoSize - Len(thrFifo) + 1) .. Len(<<c>>) = {}
    BY <1>2, <2>1
  <2> QED
    BY <1>3, <2>2 DEF WriteThr
<1>7. /\ c \notin Elems(txQueue) /\ c \notin Hands /\ c \notin Elems(thrFifo) /\ c \notin Shifting
      /\ c \notin Elems(line) /\ c \notin overrun /\ c \notin Elems(queued)
      /\ \A e \in InAPlace(Holding) \cup {c} : e[2] <= puts'[e[1]]
  BY <1>1, <1>2, <1>3, NewChar, UartConstants
<1>8. Elems(Append(queued, c)) = Elems(queued) \cup {c} /\ Distinct(Append(queued, c))
  <2>1. queued \in Seq(Chars) /\ Distinct(queued)
    BY PlacesTypesAre, PlacesParts
  <2> HIDE DEF Chars
  <2> QED
    BY ONLY <1>2, <1>7, <2>1, AppendElems
<1>9. Elems(thrFifo) = {} /\ Elems(thrFifo)' = {c} /\ Distinct(thrFifo)'
  BY <1>4, <1>5 DEF Elems, Distinct
<1>10. /\ Elems(txQueue)' = Elems(txQueue) /\ Hands' = Hands /\ Shifting' = Shifting /\ Elems(line)' = Elems(line)
       /\ Elems(queued)' = Elems(queued) \cup {c}
  BY <1>3, <1>5, <1>8 DEF Elems, Hands, Shifting
<1>11. Moves({c}, {c}, 3)
  BY ONLY <1>6, <1>7, <1>9, <1>10 DEF Moves
<1>12. (InAPlace(Holding) \ {c}) \cup {c} = InAPlace(Holding) \cup {c}
  OBVIOUS
<1>13. AfterRest'
  <2>1. queued' \in Seq(Chars)
    BY <1>2, <1>3, PlacesTypesAre, AppendProperties
  <2>2. queued' = queued' \o txQueue'
    BY <1>3, <1>4, <2>1, ConcatEmptySeq
  <2> QED
    BY <2>1, <2>2 DEF AfterRest
<1>14. Distinct(txQueue)' /\ Distinct(line)' /\ Distinct(queued)' /\ HandsDiffer'
  BY <1>3, <1>5, <1>8, PlacesParts DEF HandsDiffer, Distinct
<1>15. Elems(queued)' \subseteq InAPlace(Holding) \cup {c}
  BY <1>10, PlacesParts
<1> QED
  BY <1>7, <1>9, <1>11, <1>12, <1>13, <1>14, <1>15, PlacesMove

LEMMA SendPlaces ==
  ASSUME PlacesTyped, PlacesInv, NEW t \in UartTasks, SendChar(t)
  PROVE  PlacesInv'
<1>1. PICK c : c = <<t, puts[t] + 1>>
  OBVIOUS
<1>2. c \in Chars /\ <<c>> \in Seq(Chars) /\ t \in Putters
  BY <1>1, SendCharType, OneChar, PlacesTypesAre DEF PlacesTyped
<1>3. /\ queued' = Append(queued, c) /\ txQueue' = Append(txQueue, c) /\ puts' = [puts EXCEPT ![t] = @ + 1]
      /\ UNCHANGED <<hand, thrFifo, shift, line, overrun>>
  BY <1>1 DEF SendChar, txHwVars
<1>4. /\ c \notin Elems(txQueue) /\ c \notin Hands /\ c \notin Elems(thrFifo) /\ c \notin Shifting
      /\ c \notin Elems(line) /\ c \notin overrun /\ c \notin Elems(queued)
      /\ \A e \in InAPlace(Holding) \cup {c} : e[2] <= puts'[e[1]]
  BY <1>1, <1>2, <1>3, NewChar
<1>5. /\ Elems(Append(queued, c)) = Elems(queued) \cup {c} /\ Distinct(Append(queued, c))
      /\ Elems(Append(txQueue, c)) = Elems(txQueue) \cup {c} /\ Distinct(Append(txQueue, c))
  <2>1. queued \in Seq(Chars) /\ Distinct(queued) /\ txQueue \in Seq(Chars) /\ Distinct(txQueue)
    BY PlacesTypesAre, PlacesParts
  <2> HIDE DEF Chars
  <2> QED
    BY ONLY <1>2, <1>4, <2>1, AppendElems
<1>6. /\ Elems(thrFifo)' = Elems(thrFifo) /\ Hands' = Hands /\ Shifting' = Shifting /\ Elems(line)' = Elems(line)
      /\ Elems(queued)' = Elems(queued) \cup {c} /\ Elems(txQueue)' = Elems(txQueue) \cup {c} /\ overrun' = overrun
  BY <1>3, <1>5 DEF Elems, Hands, Shifting
<1>7. Moves({c}, {c}, 1)
  BY ONLY <1>4, <1>6 DEF Moves
<1>8. (InAPlace(Holding) \ {c}) \cup {c} = InAPlace(Holding) \cup {c}
  OBVIOUS
<1>9. AfterRest'
  <2>1. PICK q \in Seq(Chars) : queued = q \o txQueue
    BY PlacesParts DEF AfterRest
  <2>2. txQueue \in Seq(Chars) /\ queued \in Seq(Chars)
    BY PlacesTypesAre
  <2>3. queued' = queued \o <<c>> /\ txQueue' = txQueue \o <<c>>
    BY <1>2, <1>3, <2>2, AppendIsConcat
  <2>4. (q \o txQueue) \o <<c>> = q \o (txQueue \o <<c>>)
    BY <1>2, <2>2, ConcatAssociative
  <2> QED
    BY <2>1, <2>3, <2>4 DEF AfterRest
<1>10. Distinct(txQueue)' /\ Distinct(thrFifo)' /\ Distinct(line)' /\ Distinct(queued)' /\ HandsDiffer'
  BY <1>3, <1>5, PlacesParts DEF HandsDiffer, Distinct
<1>11. Elems(queued)' \subseteq InAPlace(Holding) \cup {c}
  BY <1>6, PlacesParts
<1> QED
  BY <1>4, <1>7, <1>8, <1>9, <1>10, <1>11, PlacesMove

LEMMA PopPlaces ==
  ASSUME PlacesTyped, PlacesInv, NEW t \in UartTasks, PopOldest(t), txQueue # <<>>
  PROVE  PlacesInv'
<1>1. PICK h : h = Head(txQueue)
  OBVIOUS
<1>2. /\ hand' = [hand EXCEPT ![t] = h] /\ txQueue' = Tail(txQueue)
      /\ UNCHANGED <<puts, queued, thrFifo, shift, line, overrun>>
  BY <1>1 DEF PopOldest, txHwVars
<1>3. txQueue \in Seq(Chars) /\ Distinct(txQueue) /\ t \in Putters /\ hand \in [Putters -> Chars \cup {NoChar}]
  BY PlacesTypesAre, PlacesParts
<1>4. /\ Tail(txQueue) \in Seq(Chars) /\ h \in Chars /\ h \in Elems(txQueue)
      /\ Distinct(Tail(txQueue)) /\ Elems(Tail(txQueue)) = Elems(txQueue) \ {h}
  <2> HIDE DEF Chars
  <2> QED
    BY ONLY <1>1, <1>3, txQueue # <<>>, TailElems
<1>5. hand[t] = NoChar
  BY <1>3 DEF PopOldest, PlacesTyped, CallsInv
<1>6. /\ h \notin Hands /\ h \notin Elems(thrFifo) /\ h \notin Shifting
      /\ h \notin Elems(line) /\ h \notin overrun
  BY <1>4, PlacesParts, PlacesApart
<1>7. h # NoChar
  BY <1>4, NoCharIsNone
<1>8. hand'[t] = h /\ \A u \in UartTasks : u # t => hand'[u] = hand[u]
  BY <1>2, <1>3, UartConstants
<1>9. Hands' = Hands \cup {h}
  <2>1. Hands' = {hand'[u] : u \in UartTasks} \ {NoChar}
    BY DEF Hands
  <2>2. ASSUME NEW e \in Hands' PROVE e \in Hands \cup {h}
    <3>1. PICK u \in UartTasks : e = hand'[u] /\ e # NoChar
      BY <2>1, <2>2
    <3> QED
      BY <1>8, <3>1 DEF Hands
  <2>3. ASSUME NEW e \in Hands PROVE e \in Hands'
    <3>1. PICK u \in UartTasks : e = hand[u] /\ e # NoChar
      BY <2>3 DEF Hands
    <3>2. u # t
      BY <1>5, <3>1
    <3> QED
      BY <1>8, <2>1, <3>1, <3>2
  <2>4. h \in Hands'
    BY <1>7, <1>8, <2>1
  <2> QED
    BY <2>2, <2>3, <2>4
<1>10. HandsDiffer'
  <2>1. \A u \in UartTasks : hand[u] # h
    BY <1>6, <1>7 DEF Hands
  <2> QED
    BY <1>8, <2>1, PlacesParts DEF HandsDiffer
<1>11. /\ Elems(txQueue)' = Elems(txQueue) \ {h} /\ Elems(thrFifo)' = Elems(thrFifo) /\ Shifting' = Shifting
       /\ Elems(line)' = Elems(line) /\ overrun' = overrun /\ Elems(queued)' = Elems(queued)
  BY <1>2, <1>4 DEF Elems, Shifting
<1>12. Moves({h}, {h}, 2)
  BY ONLY <1>6, <1>9, <1>11 DEF Moves
<1>13. (InAPlace(Holding) \ {h}) \cup {h} = InAPlace(Holding)
  BY <1>4, HeldIs
<1>14. AfterRest'
  <2>1. PICK q \in Seq(Chars) : queued = q \o txQueue
    BY PlacesParts DEF AfterRest
  <2>2. <<h>> \in Seq(Chars)
    BY <1>4, OneChar
  <2>3. PICK r : r = Tail(txQueue)
    OBVIOUS
  <2>4. r \in Seq(Chars)
    BY <1>4, <2>3
  <2>5. <<h>> \o r = txQueue
    BY <1>1, <1>3, <2>3, HeadAndTail
  <2>6. q \in Seq(Chars)
    OBVIOUS
  <2>7. (q \o <<h>>) \o r = q \o (<<h>> \o r)
    BY ONLY <2>2, <2>4, <2>6, ConcatThree
  <2>8. q \o <<h>> \in Seq(Chars)
    BY <2>2, <2>6, ConcatProperties
  <2> QED
    BY <1>2, <2>1, <2>3, <2>5, <2>7, <2>8 DEF AfterRest
<1>15. Distinct(txQueue)' /\ Distinct(thrFifo)' /\ Distinct(line)' /\ Distinct(queued)'
  BY <1>2, <1>4, PlacesParts DEF Distinct
<1>16. Elems(queued)' \subseteq InAPlace(Holding)
  BY <1>11, PlacesParts
<1>17. \A c \in InAPlace(Holding) : c[2] <= puts'[c[1]]
  BY <1>2, PutsKept
<1> QED
  BY <1>10, <1>12, <1>13, <1>14, <1>15, <1>16, <1>17, PlacesMove

(* A character written to THR is in the FIFO, or among those it lost.      *)
LEMMA OneWritten ==
  ASSUME HwTypes, NEW h \in Chars, WriteThr(<<h>>)
  PROVE  /\ UNCHANGED <<shift, line>>
         /\ \/ thrFifo' = Append(thrFifo, h) /\ overrun' = overrun
            \/ thrFifo' = thrFifo /\ overrun' = overrun \cup {h}
<1>1. PICK s : s = <<h>>
  OBVIOUS
<1>2. s \in Seq(Chars) /\ Len(s) = 1 /\ s[1] = h
  BY <1>1, OneChar
<1>3. PICK room : room = HwFifoSize - Len(thrFifo)
  OBVIOUS
<1>4. /\ thrFifo' = thrFifo \o SubSeq(s, 1, IF Len(s) < room THEN Len(s) ELSE room)
      /\ overrun' = overrun \cup {s[i] : i \in (room + 1) .. Len(s)}
      /\ UNCHANGED <<shift, line>>
  BY <1>1, <1>3 DEF WriteThr
<1>5. thrFifo \in Seq(Chars) /\ room \in Nat
  BY <1>3, UartConstants, LenProperties DEF HwTypes
<1>6. CASE room = 0
  <2>1. SubSeq(s, 1, 0) = <<>>
    <3>1. 1 \in Int /\ 0 \in Int /\ 0 < 1
      OBVIOUS
    <3> QED
      BY <3>1, SubSeqEmpty
  <2>2. (IF Len(s) < room THEN Len(s) ELSE room) = 0 /\ (room + 1) .. Len(s) = {1}
    BY <1>2, <1>6
  <2>3. thrFifo' = thrFifo
    BY <1>4, <1>5, <2>1, <2>2, ConcatEmptySeq
  <2>4. overrun' = overrun \cup {h}
    BY <1>2, <1>4, <2>2
  <2> QED
    BY <1>4, <2>3, <2>4
<1>7. CASE room # 0
  <2>1. (IF Len(s) < room THEN Len(s) ELSE room) = Len(s) /\ (room + 1) .. Len(s) = {}
    BY <1>2, <1>5, <1>7
  <2>2. thrFifo' = thrFifo \o s
    BY <1>2, <1>4, <2>1, SubSeqFull
  <2>3. thrFifo' = Append(thrFifo, h)
    BY <1>1, <1>5, <2>2, AppendIsConcat
  <2> QED
    BY <1>4, <2>1, <2>3
<1> QED
  BY <1>6, <1>7

LEMMA WritePlaces ==
  ASSUME PlacesTyped, PlacesInv, NEW t \in UartTasks, WriteOldest(t)
  PROVE  PlacesInv'
<1>1. PICK h : h = hand[t]
  OBVIOUS
<1>2. hand \in [Putters -> Chars \cup {NoChar}] /\ t \in Putters /\ HwTypes
  BY PlacesTypesAre, UartConstants DEF PlacesTyped
<1>3. h \in Chars /\ h # NoChar /\ h \in Hands
  <2>1. h # NoChar
    BY <1>1, <1>2 DEF WriteOldest, PlacesTyped, CallsInv
  <2> QED
    BY <1>1, <1>2, <2>1 DEF Hands
<1>4. /\ WriteThr(<<h>>) /\ hand' = [hand EXCEPT ![t] = NoChar]
      /\ UNCHANGED <<puts, queued, txQueue>>
  BY <1>1 DEF WriteOldest
<1>5. hand'[t] = NoChar /\ \A u \in UartTasks : u # t => hand'[u] = hand[u]
  BY <1>2, <1>4, UartConstants
<1>6. /\ h \notin Elems(txQueue) /\ h \notin Elems(thrFifo) /\ h \notin Shifting
      /\ h \notin Elems(line) /\ h \notin overrun
  BY <1>3, PlacesParts, PlacesApart
<1>7. Hands' = Hands \ {h}
  <2>1. Hands' = {hand'[u] : u \in UartTasks} \ {NoChar}
    BY DEF Hands
  <2>2. ASSUME NEW e \in Hands' PROVE e \in Hands /\ e # h
    <3>1. PICK u \in UartTasks : e = hand'[u] /\ e # NoChar
      BY <2>1, <2>2
    <3>2. u # t
      BY <1>5, <3>1
    <3>3. e = hand[u]
      BY <1>5, <3>1, <3>2
    <3>4. hand[u] # hand[t]
      BY <3>1, <3>2, <3>3, PlacesParts DEF HandsDiffer
    <3> QED
      BY <1>1, <3>1, <3>3, <3>4 DEF Hands
  <2>3. ASSUME NEW e \in Hands, e # h PROVE e \in Hands'
    <3>1. PICK u \in UartTasks : e = hand[u] /\ e # NoChar
      BY <2>3 DEF Hands
    <3>2. u # t
      BY <1>1, <2>3, <3>1
    <3> QED
      BY <1>5, <2>1, <3>1, <3>2
  <2> QED
    BY <2>2, <2>3
<1>8. HandsDiffer'
  BY <1>5, PlacesParts DEF HandsDiffer
<1>9. /\ UNCHANGED <<shift, line>>
      /\ \/ thrFifo' = Append(thrFifo, h) /\ overrun' = overrun
         \/ thrFifo' = thrFifo /\ overrun' = overrun \cup {h}
  BY <1>2, <1>3, <1>4, OneWritten
<1>10. /\ Elems(txQueue)' = Elems(txQueue) /\ Shifting' = Shifting
       /\ Elems(line)' = Elems(line) /\ Elems(queued)' = Elems(queued)
  BY <1>4, <1>9 DEF Elems, Shifting
<1>11. (InAPlace(Holding) \ {h}) \cup {h} = InAPlace(Holding)
  BY <1>3, HeldIs
<1>12. Distinct(txQueue)' /\ Distinct(line)' /\ Distinct(queued)' /\ AfterRest'
  BY <1>4, <1>9, PlacesParts DEF Distinct, AfterRest
<1>13. Elems(queued)' \subseteq InAPlace(Holding)
  BY <1>10, PlacesParts
<1>14. \A c \in InAPlace(Holding) : c[2] <= puts'[c[1]]
  BY <1>4, PutsKept
<1>15. CASE thrFifo' = Append(thrFifo, h) /\ overrun' = overrun
  <2>1. Elems(Append(thrFifo, h)) = Elems(thrFifo) \cup {h} /\ Distinct(Append(thrFifo, h))
    <3>1. thrFifo \in Seq(Chars) /\ Distinct(thrFifo)
      BY PlacesTypesAre, PlacesParts
    <3> HIDE DEF Chars
    <3> QED
      BY ONLY <1>3, <1>6, <3>1, AppendElems
  <2>2. Elems(thrFifo)' = Elems(thrFifo) \cup {h} /\ Distinct(thrFifo)'
    BY <1>15, <2>1 DEF Elems, Distinct
  <2>3. Moves({h}, {h}, 3)
    BY ONLY <1>6, <1>7, <1>10, <1>15, <2>2 DEF Moves
  <2> QED
    BY <1>8, <1>11, <1>12, <1>13, <1>14, <2>2, <2>3, PlacesMove
<1>16. CASE thrFifo' = thrFifo /\ overrun' = overrun \cup {h}
  <2>1. Elems(thrFifo)' = Elems(thrFifo) /\ Distinct(thrFifo)'
    BY <1>16, PlacesParts DEF Elems, Distinct
  <2>2. Moves({h}, {h}, 6)
    BY ONLY <1>6, <1>7, <1>10, <1>16, <2>1 DEF Moves
  <2> QED
    BY <1>8, <1>11, <1>12, <1>13, <1>14, <2>1, <2>2, PlacesMove
<1> QED
  BY <1>9, <1>15, <1>16

LEMMA ClearPlaces ==
  ASSUME PlacesTyped, PlacesInv, clearTx
  PROVE  PlacesInv'
<1>1. PICK M : M = Elems(txQueue)
  OBVIOUS
<1>2. /\ txQueue' = <<>> /\ queued' = SubSeq(queued, 1, Len(queued) - Len(txQueue))
      /\ UNCHANGED <<puts, hand, thrFifo, shift, line, overrun>>
  BY DEF clearTx, putVars, txHwVars
<1>3. txQueue \in Seq(Chars) /\ Distinct(queued)
  BY PlacesTypesAre, PlacesParts
<1>4. PICK q \in Seq(Chars) : queued = q \o txQueue
  BY PlacesParts DEF AfterRest
<1>5. queued' = q
  BY <1>2, <1>3, <1>4, BeforeLast
<1>6. /\ Distinct(q) /\ Elems(q) \subseteq Elems(queued) /\ M = Elems(queued) \ Elems(q)
  <2>1. q \in Seq(Chars)
    OBVIOUS
  <2> HIDE DEF Chars
  <2>2. Distinct(q \o txQueue)
    BY <1>3, <1>4
  <2>3. /\ Distinct(q) /\ Elems(q) \subseteq Elems(q \o txQueue)
        /\ Elems(txQueue) = Elems(q \o txQueue) \ Elems(q)
    BY ONLY <1>3, <2>1, <2>2, ConcatElems
  <2> QED
    BY ONLY <1>1, <1>4, <2>3
<1>7. /\ Elems(txQueue)' = {} /\ Distinct(txQueue)' /\ Elems(queued)' = Elems(q) /\ Distinct(queued)'
      /\ Hands' = Hands /\ Elems(thrFifo)' = Elems(thrFifo) /\ Shifting' = Shifting /\ Elems(line)' = Elems(line)
  <2>1. Elems(<<>>) = {} /\ Distinct(<<>>)
    BY DEF Elems, Distinct
  <2>2. Elems(txQueue)' = Elems(<<>>) /\ (Distinct(txQueue)' <=> Distinct(<<>>))
    BY <1>2 DEF Elems, Distinct
  <2>3. Elems(queued)' = Elems(q) /\ (Distinct(queued)' <=> Distinct(q))
    BY <1>5 DEF Elems, Distinct
  <2>4. Hands' = Hands /\ Elems(thrFifo)' = Elems(thrFifo) /\ Shifting' = Shifting /\ Elems(line)' = Elems(line)
    BY <1>2 DEF Elems, Hands, Shifting
  <2> QED
    BY <1>6, <2>1, <2>2, <2>3, <2>4
<1>8. Hands \ M = Hands /\ Elems(thrFifo) \ M = Elems(thrFifo) /\ Shifting \ M = Shifting
      /\ Elems(line) \ M = Elems(line) /\ overrun \ M = overrun
  BY <1>1, FromQueue
<1>9. Moves(M, {}, 1)
  BY ONLY <1>1, <1>2, <1>7, <1>8 DEF Moves
<1>10. Distinct(thrFifo)' /\ Distinct(line)' /\ HandsDiffer'
  BY <1>2, PlacesParts DEF HandsDiffer, Distinct
<1>11. AfterRest'
  <2>1. q = q \o <<>>
    BY ConcatEmptySeq
  <2> QED
    BY <1>2, <1>5, <2>1 DEF AfterRest
<1>12. Elems(queued)' \subseteq (InAPlace(Holding) \ M) \cup {}
  BY <1>6, <1>7, PlacesParts
<1>13. \A c \in (InAPlace(Holding) \ M) \cup {} : c[2] <= puts'[c[1]]
  BY <1>2, PutsKept
<1> QED
  BY <1>7, <1>9, <1>10, <1>11, <1>12, <1>13, PlacesMove

LEMMA PlacesStep ==
  ASSUME UartInv, PlacesInv, [UartNext]_uartVars
  PROVE  PlacesInv'
<1>1. PlacesTyped
  BY DEF UartInv, PlacesTyped
<1>2. CASE UNCHANGED <<txQueue, hand, thrFifo, shift, line, overrun, queued, puts>>
  BY <1>2, PlacesStay
<1>3. CASE Transmitter
  <2>1. UNCHANGED <<hand, puts, txQueue, queued>> /\ (Load \/ RaiseThre \/ ShiftOut)
    BY <1>3 DEF Transmitter, putVars
  <2> QED
    BY <1>1, <1>2, <2>1, LoadPlaces, ShiftOutPlaces DEF RaiseThre
<1>4. CASE TransmitInterrupt \/ BootPut \/ clearTx
  BY <1>1, <1>4, InterruptPlaces, BootPutPlaces, ClearPlaces
<1>5. ASSUME NEW t \in UartTasks, SendChar(t) \/ PopOldest(t) \/ WriteOldest(t)
      PROVE  PlacesInv'
  <2>1. CASE PopOldest(t) /\ txQueue = <<>>
    BY <1>2, <2>1 DEF PopOldest, txHwVars
  <2> QED
    BY <1>1, <1>5, <2>1, SendPlaces, PopPlaces, WritePlaces
<1> QED
  BY <1>2, <1>3, <1>4, <1>5
  DEF UartNext, uartVars, putVars, txHwVars, Receiver, uartInterrupt, ReceiveInterrupt, getChar, clearRx,
      UartStartScheduler, BootPolled, CallPut, CallFlush, putStep, TakeSem, SendTimeout,
      CheckIdle, FlushDone

LEMMA OneIndex ==
  ASSUME NEW s, Distinct(s), NEW c
  PROVE  /\ c \in Elems(s) => \E x \in {i \in DOMAIN s : s[i] = c} : {i \in DOMAIN s : s[i] = c} = {x}
         /\ c \notin Elems(s) => {i \in DOMAIN s : s[i] = c} = {}
<1>1. ASSUME c \in Elems(s) PROVE \E x \in {i \in DOMAIN s : s[i] = c} : {i \in DOMAIN s : s[i] = c} = {x}
  <2>1. PICK x \in DOMAIN s : s[x] = c
    BY <1>1 DEF Elems
  <2>2. {i \in DOMAIN s : s[i] = c} = {x}
    BY <2>1 DEF Distinct
  <2> QED
    BY <2>2
<1>2. c \notin Elems(s) => {i \in DOMAIN s : s[i] = c} = {}
  BY DEF Elems
<1> QED
  BY <1>1, <1>2

(* A character is at one of a place's positions if the place holds it, and *)
(* at none if it does not.                                                 *)
LEMMA PlacesHold ==
  ASSUME PlacesInv, NEW c \in Chars, NEW k \in 1 .. 6
  PROVE  /\ c \in Holding[k] => \E x \in Places(c)[k] : Places(c)[k] = {x}
         /\ c \notin Holding[k] => Places(c)[k] = {}
<1>1. c # NoChar
  BY NoCharIsNone
<1>2. PICK P : P = Places(c)
  OBVIOUS
<1>3. /\ P[1] = {i \in DOMAIN txQueue : txQueue[i] = c} /\ P[2] = {t \in UartTasks : hand[t] = c}
      /\ P[3] = {i \in DOMAIN thrFifo : thrFifo[i] = c} /\ P[4] = {i \in {0} : shift = c}
      /\ P[5] = {i \in DOMAIN line : line[i] = c} /\ P[6] = {i \in {0} : c \in overrun}
  BY <1>2 DEF Places
<1>4. CASE k = 1
  BY <1>2, <1>3, <1>4, HoldingIs, PlacesParts, OneIndex
<1>5. CASE k = 2
  <2>1. ASSUME c \in Hands PROVE \E x \in P[2] : P[2] = {x}
    <3>1. PICK t \in UartTasks : hand[t] = c
      BY <2>1 DEF Hands
    <3>2. P[2] = {t}
      BY <1>1, <1>3, <3>1, PlacesParts DEF HandsDiffer
    <3> QED
      BY <3>2
  <2>2. c \notin Hands => P[2] = {}
    BY <1>1, <1>3 DEF Hands
  <2> QED
    BY <1>2, <1>5, <2>1, <2>2, HoldingIs DEF Hands
<1>6. CASE k = 3
  BY <1>2, <1>3, <1>6, HoldingIs, PlacesParts, OneIndex
<1>7. CASE k = 4
  BY <1>1, <1>2, <1>3, <1>7, HoldingIs
<1>8. CASE k = 5
  BY <1>2, <1>3, <1>8, HoldingIs, PlacesParts, OneIndex
<1>9. CASE k = 6
  BY <1>2, <1>3, <1>9, HoldingIs
<1> QED
  BY <1>4, <1>5, <1>6, <1>7, <1>8, <1>9, SixPlaces

LEMMA PlacesOne == QueueTypes /\ PlacesInv => CharInOnePlace
<1> SUFFICES ASSUME QueueTypes, PlacesInv, NEW c \in Range(queued)
             PROVE  \E i \in 1 .. 6 :
                      /\ \E x \in Places(c)[i] : Places(c)[i] = {x}
                      /\ \A j \in (1 .. 6) \ {i} : Places(c)[j] = {}
  BY DEF CharInOnePlace
<1>1. PICK n \in DOMAIN queued : c = queued[n]
  BY DEF Range
<1>2. c \in Chars
  BY <1>1, ElementOfSeq DEF QueueTypes
<1>3. c \in InAPlace(Holding)
  BY <1>1, PlacesParts DEF Elems
<1>4. PICK i \in 1 .. 6 : c \in Holding[i]
  BY <1>3 DEF InAPlace
<1>5. \A j \in (1 .. 6) \ {i} : c \notin Holding[j]
  BY <1>4, PlacesParts DEF Apart
<1>6. \E x \in Places(c)[i] : Places(c)[i] = {x}
  BY <1>2, <1>4, PlacesHold
<1>7. \A j \in (1 .. 6) \ {i} : Places(c)[j] = {}
  BY <1>2, <1>5, PlacesHold
<1> QED
  BY <1>6, <1>7

(* Every character queued and not cleared is in one place exactly: none is *)
(* lost or sent twice, whichever of the interrupt and the callers moves it *)
(* on, and those that a full FIFO lost are the only ones that do not leave.*)
THEOREM EveryCharOnce == UartSpec => []CharInOnePlace
<1>1. UartInit => UartInv /\ PlacesInv
  BY UartInitInv, PlacesInit
<1>2. (UartInv /\ PlacesInv) /\ [UartNext]_uartVars => (UartInv /\ PlacesInv)'
  BY UartStep, PlacesStep
<1>3. UartInv /\ PlacesInv => CharInOnePlace
  BY PlacesOne DEF UartInv
<1> QED
  BY <1>1, <1>2, <1>3, PTL DEF UartSpec

-----------------------------------------------------------------------------
(* The kernel and its devices together, as module MCKernel composes them.  *)
KernelInv ==
  /\ KqIInv /\ KtIInv /\ KtLists /\ MiInv /\ UartInv /\ PlacesInv
  /\ TimerIInv /\ TimerRest /\ RtcInv /\ EgInv

LEMMA KernelInit == Init => KernelInv
<1> SUFFICES ASSUME Init PROVE KernelInv
  OBVIOUS
<1>1. KqInit /\ KtInit /\ MiInit /\ UartInit /\ SysTimerInit /\ RtcInit /\ EgInit
  BY DEF Init
<1>2. KtLists
  BY <1>1, ListsInit
<1> QED
  BY <1>1, <1>2, KqInitInv, KtInitInv, MiInitInv, UartInitInv, PlacesInit, TimerInitInv, TimerRestInit,
     RtcInitInv, EgInitInv DEF KernelInv

(* A step of the whole is a step of one part, and none of the others.      *)
LEMMA KernelParts ==
  [Next]_vars =>
    /\ [KqNext]_kqVars /\ [KtNext]_ktVars /\ [MiNext]_miVars /\ [UartNext]_uartVars
    /\ [SysTimerNext]_sysVars /\ [RtcNext]_rtcVars /\ [EgNext]_egVars
BY DEF Next, vars

LEMMA KernelStep == KernelInv /\ [Next]_vars => KernelInv'
<1> SUFFICES ASSUME KernelInv, [Next]_vars PROVE KernelInv'
  OBVIOUS
<1>1. KqIInv' /\ KtIInv' /\ KtLists'
  BY KernelParts, KqStepInv, NextInv, ListsNext DEF KernelInv
<1>2. MiInv' /\ EgInv'
  BY KernelParts, MiStepInv, EgNextKeeps DEF KernelInv
<1>3. UartInv' /\ PlacesInv'
  BY KernelParts, UartStep, PlacesStep DEF KernelInv
<1>4. TimerIInv' /\ TimerRest' /\ RtcInv'
  BY KernelParts, TimerStepInv, TimerRestStep, RtcStep DEF KernelInv
<1> QED BY <1>1, <1>2, <1>3, <1>4 DEF KernelInv

(* Every variable of the kernel and of the devices keeps its type; every   *)
(* task is in one list of the kernel's time, and every character that was  *)
(* queued for the UART and not cleared is in one place.                    *)
THEOREM KernelTyped == Spec => []KernelTypeOK
<1>1. KernelInv => KernelTypeOK
  <2> SUFFICES ASSUME KernelInv PROVE KernelTypeOK
    OBVIOUS
  <2>1. KqTypeOK /\ KtTypeOK /\ OneList
    BY InvOneList DEF KernelInv, KqIInv, KtIInv
  <2>2. MiTypeOK /\ EgTypeOK /\ RtcTypeOK
    BY DEF KernelInv, MiInv, EgInv, RtcInv
  <2>3. UartTypeOK /\ CharInOnePlace
    BY UartTypesAre, PlacesOne DEF KernelInv, UartInv
  <2>4. SysTimerTypeOK
    BY TimerTyped DEF KernelInv
  <2> QED BY <2>1, <2>2, <2>3, <2>4 DEF KernelTypeOK
<1> QED BY <1>1, KernelInit, KernelStep, PTL DEF Spec
=============================================================================
