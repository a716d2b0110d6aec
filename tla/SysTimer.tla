------------------------------ MODULE SysTimer ------------------------------
(***************************************************************************)
(* The system timer, L0_LowLevel/source/lpc_sys.cpp: one hardware counter  *)
(* gives the uptime, which an interrupt extends beyond the counter's       *)
(* width, and by its match registers feeds the watchdog, runs the          *)
(* background work before the scheduler starts and ends infra-red frames.  *)
(***************************************************************************)
EXTENDS Integers, FiniteSets

CONSTANTS
  TimerRange,   \* the counter counts modulo TimerRange (2^32)
  BackPeriod,   \* LPC_SYS_TIME_FOR_BCKGND_TASK_US
  FeedPeriod,   \* LPC_SYS_WATCHDOG_RESET_TIME_US
  WatchPeriod,  \* the timeout of the watchdog
  IrGap,        \* microseconds without an edge that end an infra-red frame
  MaxEdges,     \* MAX_FALLING_EDGES_PER_IR_FRAME
  MaxLatency,   \* microseconds an interrupt may wait
  MaxTime       \* bound on the time, in microseconds

ASSUME SysTimerAssumption ==
  /\ {TimerRange, BackPeriod, FeedPeriod, WatchPeriod, IrGap, MaxEdges} \subseteq Nat \ {0}
  /\ {BackPeriod, FeedPeriod, IrGap} \subseteq 1 .. (TimerRange - 1)
  /\ MaxLatency \in Nat /\ MaxTime \in Nat
  /\ MaxLatency < TimerRange - 1 /\ FeedPeriod + MaxLatency < WatchPeriod

VARIABLES
  realTime,   \* history: the true time in microseconds
  tc,         \* TC
  rollovers,  \* g_timer_rollover_count
  matchBack,  \* MR1
  backOn,     \* whether its match raises an interrupt
  matchIr,    \* MR2
  matchFeed,  \* MR3
  ir,         \* IR: the pending interrupts
  irSince,    \* how long an interrupt has been pending
  cpuBusy,    \* an interrupt has been served since the last microsecond began
  sysOs,      \* whether the scheduler runs
  edges,      \* g_signal_count
  watchdog,   \* microseconds until the watchdog resets the processor
  readPc,     \* where sys_get_uptime_us() is
  before, rolls, after,  \* its variables
  calledAt    \* history: when it was called

readVars == <<readPc, before, rolls, after, calledAt>>
sysVars == <<realTime, tc, rollovers, matchBack, backOn, matchIr, matchFeed, ir, irSince,
             cpuBusy, sysOs, edges, watchdog, readVars>>

Reasons == {"rollover", "background", "irTimeout", "feed", "edge"}

SysTimerInit ==
  /\ realTime = 0 /\ tc = 0 /\ rollovers = 0
  /\ matchBack = BackPeriod /\ backOn = TRUE /\ matchIr = 0 /\ matchFeed = FeedPeriod
  /\ ir = {} /\ irSince = 0 /\ cpuBusy = FALSE
  /\ sysOs = FALSE /\ edges = 0
  /\ watchdog = WatchPeriod
  /\ readPc = "idle" /\ before = 0 /\ rolls = 0 /\ after = 0 /\ calledAt = 0

-----------------------------------------------------------------------------
(* A microsecond passes.  A match register raises its interrupt when the   *)
(* counter reaches it; the one for the rollover holds the last value.      *)

Matches(c) ==
  {r \in Reasons :
     \/ r = "rollover" /\ c = TimerRange - 1
     \/ r = "background" /\ c = matchBack /\ backOn
     \/ r = "irTimeout" /\ c = matchIr
     \/ r = "feed" /\ c = matchFeed}

Tick ==
  /\ realTime < MaxTime /\ watchdog > 0
  /\ ir # {} => irSince < MaxLatency
  /\ realTime' = realTime + 1
  /\ tc' = (tc + 1) % TimerRange
  /\ ir' = ir \cup Matches((tc + 1) % TimerRange)
  /\ irSince' = IF ir = {} THEN 0 ELSE irSince + 1
  /\ cpuBusy' = FALSE
  /\ watchdog' = watchdog - 1
  /\ UNCHANGED <<rollovers, matchBack, backOn, matchIr, matchFeed, sysOs, edges, readVars>>

(* A falling edge of the infra-red signal is captured.                     *)
Edge ==
  /\ "edge" \notin ir /\ ir' = ir \cup {"edge"}
  /\ irSince' = IF ir = {} THEN 0 ELSE irSince
  /\ UNCHANGED <<realTime, tc, rollovers, matchBack, backOn, matchIr, matchFeed, cpuBusy, sysOs,
                 edges, watchdog, readVars>>

-----------------------------------------------------------------------------
(* TIMER1_IRQHandler(): the first reason in this order is served, and the  *)
(* interrupt comes again for the next one.                                 *)

Serve(r) ==
  /\ r \in ir /\ ir' = ir \ {r}
  /\ irSince' = IF ir = {r} THEN 0 ELSE irSince
  /\ cpuBusy' = TRUE
  /\ UNCHANGED <<realTime, tc, sysOs, readVars>>

ServeEdge ==
  /\ Serve("edge")
  /\ edges' = IF edges < MaxEdges THEN edges + 1 ELSE edges
  /\ matchIr' = (IrGap + tc) % TimerRange
  /\ UNCHANGED <<rollovers, matchBack, backOn, matchFeed, watchdog>>

ServeIrTimeout ==
  /\ "edge" \notin ir
  /\ Serve("irTimeout")
  /\ edges' = 0
  /\ UNCHANGED <<rollovers, matchBack, backOn, matchIr, matchFeed, watchdog>>

ServeRollover ==
  /\ ir \cap {"edge", "irTimeout"} = {}
  /\ Serve("rollover")
  /\ rollovers' = rollovers + 1
  /\ UNCHANGED <<matchBack, backOn, matchIr, matchFeed, edges, watchdog>>

(* The scheduler's start ends the background work.                         *)
ServeBackground ==
  /\ ir \cap {"edge", "irTimeout", "rollover"} = {}
  /\ Serve("background")
  /\ backOn' = (backOn /\ ~ sysOs)
  /\ matchBack' = (matchBack + tc + BackPeriod) % TimerRange
  /\ UNCHANGED <<rollovers, matchIr, matchFeed, edges, watchdog>>

Mutant_ServeFeed ==
  /\ ir = {"feed"}
  /\ Serve("feed")
  /\ watchdog' = WatchPeriod
  /\ UNCHANGED <<rollovers, matchBack, backOn, matchIr, matchFeed, edges>>

ServeFeed ==
  /\ ir = {"feed"}
  /\ Serve("feed")
  /\ watchdog' = WatchPeriod
  /\ matchFeed' = (tc + FeedPeriod) % TimerRange
  /\ UNCHANGED <<rollovers, matchBack, backOn, matchIr, edges>>

TimerIsr == ServeEdge \/ ServeIrTimeout \/ ServeRollover \/ ServeBackground \/ ServeFeed

-----------------------------------------------------------------------------
(* A task, which runs while no interrupt is pending.  An interrupt takes   *)
(* at least the rest of the microsecond it is served in.                   *)

TaskRuns == ir = {} /\ ~ cpuBusy

SysStartScheduler ==
  /\ TaskRuns /\ ~ sysOs
  /\ sysOs' = TRUE
  /\ UNCHANGED <<realTime, tc, rollovers, matchBack, backOn, matchIr, matchFeed, ir, irSince,
                 cpuBusy, edges, watchdog, readVars>>

hwAndTime == <<realTime, tc, rollovers, matchBack, backOn, matchIr, matchFeed, ir, irSince,
               cpuBusy, sysOs, edges, watchdog>>

(* sys_get_uptime_us() reads the counter before and after the rollovers.   *)
ReadBefore ==
  /\ TaskRuns /\ readPc \in {"idle", "again", "done"}
  /\ before' = tc /\ readPc' = "rollovers"
  /\ calledAt' = IF readPc = "again" THEN calledAt ELSE realTime
  /\ UNCHANGED <<hwAndTime, rolls, after>>

ReadRollovers ==
  /\ TaskRuns /\ readPc = "rollovers"
  /\ rolls' = rollovers /\ readPc' = "after"
  /\ UNCHANGED <<hwAndTime, before, after, calledAt>>

Mutant_ReadAfter ==
  /\ TaskRuns /\ readPc = "after"
  /\ after' = tc
  /\ readPc' = "done"
  /\ UNCHANGED <<hwAndTime, before, rolls, calledAt>>

ReadAfter ==
  /\ TaskRuns /\ readPc = "after"
  /\ after' = tc
  /\ readPc' = IF tc < before THEN "again" ELSE "done"
  /\ UNCHANGED <<hwAndTime, before, rolls, calledAt>>

sys_get_uptime_us == ReadBefore \/ ReadRollovers \/ ReadAfter

SysTimerNext == Tick \/ Edge \/ TimerIsr \/ SysStartScheduler \/ sys_get_uptime_us

SysTimerSpec == SysTimerInit /\ [][SysTimerNext]_sysVars

-----------------------------------------------------------------------------
SysTimerTypeOK ==
  /\ realTime \in 0 .. MaxTime /\ tc \in 0 .. (TimerRange - 1) /\ rollovers \in Nat
  /\ tc = realTime % TimerRange
  /\ {matchBack, matchIr, matchFeed} \subseteq 0 .. (TimerRange - 1)
  /\ ir \subseteq Reasons /\ irSince \in 0 .. MaxLatency
  /\ {backOn, cpuBusy, sysOs} \subseteq BOOLEAN
  /\ edges \in 0 .. MaxEdges /\ watchdog \in 0 .. WatchPeriod
  /\ readPc \in {"idle", "rollovers", "after", "again", "done"}
  /\ {before, after} \subseteq 0 .. (TimerRange - 1) /\ rolls \in Nat /\ calledAt \in 0 .. realTime

(* The uptime returned is a time of the call, whatever wraps and interrupts *)
(* come between its reads.                                                  *)
UptimeIsExact ==
  readPc = "done" => rolls * TimerRange + after \in calledAt .. realTime

(* A running system never lets the watchdog expire.                         *)
WatchdogNeverExpires == watchdog > 0
=============================================================================
