------------------------------ MODULE EventGroup ------------------------------
(***************************************************************************)
(* The kernel's event groups, L1_FreeRTOS/src/event_groups.c: tasks set    *)
(* the bits of a group, wait for some or all of a set of bits, and may ask *)
(* that the bits they waited for are cleared.  What a task waits for, and  *)
(* then what woke it, stands in the item value of its event list item.     *)
(* Interrupts do not touch a group, and a call suspends the scheduler      *)
(* while it does, so a call is one step up to where its task waits.        *)
(***************************************************************************)
EXTENDS Integers, FiniteSets

CONSTANTS
  EgTasks,   \* the tasks
  EgBits,    \* the bits of the group
  Asks,      \* what tasks wait for: sets of bits, with options
  MaxRises   \* bound on how often each bit is set while it is clear

(* eventEVENT_BITS_CONTROL_BYTES: CLEAR_EVENTS_ON_EXIT, WAIT_FOR_ALL,      *)
(* UNBLOCKED_DUE_TO_BIT_SET and taskEVENT_LIST_ITEM_VALUE_IN_USE.          *)
Control == {"clear", "all", "unblocked", "inUse"}
Options == {"clear", "all"}

ASSUME EventGroupAssumption ==
  /\ EgBits \cap Control = {}
  /\ Asks \subseteq [bits : (SUBSET EgBits) \ {{}}, opts : SUBSET Options]
  /\ MaxRises \in Nat

VARIABLES
  eventBits,  \* uxEventBits
  itemValue,  \* itemValue[t] : the bits of the event list item of t; {} is its priority
  egPc,       \* egPc[t] : "run", "waits" in xTasksWaitingForBits, or "resumed"
  waitFor,    \* waitFor[t] : uxBitsToWaitFor of the call of t
  options,    \* options[t] : xClearOnExit and xWaitForAllBits
  rises,      \* history: rises[b] : how often b went from clear to set
  used        \* history: used[t][b] : the successful calls of t that were to clear b

egVars == <<eventBits, itemValue, egPc, waitFor, options, rises, used>>

EgInit ==
  /\ eventBits = {}
  /\ itemValue = [t \in EgTasks |-> {}]
  /\ egPc = [t \in EgTasks |-> "run"]
  /\ waitFor = [t \in EgTasks |-> {}] /\ options = [t \in EgTasks |-> {}]
  /\ rises = [b \in EgBits |-> 0]
  /\ used = [t \in EgTasks |-> [b \in EgBits |-> 0]]

-----------------------------------------------------------------------------
(* prvTestWaitCondition()                                                  *)
Met(bits, wanted, opts) ==
  IF "all" \in opts THEN wanted \subseteq bits ELSE wanted \cap bits # {}

(* The walk through the waiting tasks: each that matches is woken, and the *)
(* bits of those that asked for it are cleared after the walk.             *)
Woken(bits) ==
  {t \in EgTasks : egPc[t] = "waits" /\ Met(bits, itemValue[t] \cap EgBits, itemValue[t])}

Cleared(bits) ==
  UNION {itemValue[t] \cap EgBits : t \in {u \in Woken(bits) : "clear" \in itemValue[u]}}

Values(bits) ==
  [t \in EgTasks |-> IF t \in Woken(bits) THEN bits \cup {"unblocked", "inUse"} ELSE itemValue[t]]

Steps(bits) == [t \in EgTasks |-> IF t \in Woken(bits) THEN "resumed" ELSE egPc[t]]

Raise(set) == rises' = [b \in EgBits |-> IF b \in set \ eventBits THEN rises[b] + 1 ELSE rises[b]]

CanRaise(set) == \A b \in set \ eventBits : rises[b] < MaxRises

(* A call that was to clear returns bits that satisfy its task.            *)
Uses(t, bits, wanted, opts) ==
  used' = [used EXCEPT ![t] =
            [b \in EgBits |-> IF "clear" \in opts /\ Met(bits, wanted, opts) /\ b \in wanted \cap bits
                                THEN used[t][b] + 1 ELSE used[t][b]]]

xEventGroupSetBits(t, set) ==
  /\ egPc[t] = "run" /\ CanRaise(set)
  /\ LET bits == eventBits \cup set
     IN  /\ eventBits' = bits \ Cleared(bits)
         /\ itemValue' = Values(bits)
         /\ egPc' = Steps(bits)
  /\ Raise(set)
  /\ UNCHANGED <<waitFor, options, used>>

xEventGroupClearBits(t, clear) ==
  /\ egPc[t] = "run"
  /\ eventBits' = eventBits \ clear
  /\ UNCHANGED <<itemValue, egPc, waitFor, options, rises, used>>

-----------------------------------------------------------------------------
(* xEventGroupWaitBits() when its condition is met.                        *)
WaitBitsMet(t, wanted, opts) ==
  /\ egPc[t] = "run" /\ Met(eventBits, wanted, opts)
  /\ eventBits' = IF "clear" \in opts THEN eventBits \ wanted ELSE eventBits
  /\ Uses(t, eventBits, wanted, opts)
  /\ UNCHANGED <<itemValue, egPc, waitFor, options, rises>>

(* And when it is not, with a block time: vTaskPlaceOnUnorderedEventList(). *)
WaitBitsBlock(t, wanted, opts) ==
  /\ egPc[t] = "run" /\ ~ Met(eventBits, wanted, opts)
  /\ itemValue' = [itemValue EXCEPT ![t] = wanted \cup opts \cup {"inUse"}]
  /\ egPc' = [egPc EXCEPT ![t] = "waits"]
  /\ waitFor' = [waitFor EXCEPT ![t] = wanted] /\ options' = [options EXCEPT ![t] = opts]
  /\ UNCHANGED <<eventBits, rises, used>>

(* xEventGroupSync() sets its bits as above, waking others, and meets the  *)
(* rendezvous even if they have just been cleared for those.               *)
SyncMet(t, set, wanted) ==
  /\ egPc[t] = "run" /\ CanRaise(set)
  /\ LET bits == eventBits \cup set
     IN  /\ wanted \subseteq bits
         /\ eventBits' = (bits \ Cleared(bits)) \ wanted
         /\ itemValue' = Values(bits)
         /\ egPc' = Steps(bits)
         /\ Uses(t, bits, wanted, Options)
  /\ Raise(set)
  /\ UNCHANGED <<waitFor, options>>

SyncBlock(t, set, wanted) ==
  /\ egPc[t] = "run" /\ CanRaise(set)
  /\ LET bits == eventBits \cup set
     IN  /\ ~ (wanted \subseteq bits)
         /\ eventBits' = bits \ Cleared(bits)
         /\ itemValue' = [Values(bits) EXCEPT ![t] = wanted \cup Options \cup {"inUse"}]
         /\ egPc' = [Steps(bits) EXCEPT ![t] = "waits"]
  /\ waitFor' = [waitFor EXCEPT ![t] = wanted] /\ options' = [options EXCEPT ![t] = Options]
  /\ Raise(set)
  /\ UNCHANGED used

(* The tick takes a task off the list when its block time is over; so does *)
(* another task that suspends it, to resume it later.                      *)
EgTimeout(t) ==
  /\ egPc[t] = "waits"
  /\ egPc' = [egPc EXCEPT ![t] = "resumed"]
  /\ UNCHANGED <<eventBits, itemValue, waitFor, options, rises, used>>

(* The task runs again and resets its item value, uxTaskResetEventItem-    *)
(* Value().  If bits woke it, it returns them; if not, it looks at the     *)
(* group once more and, if its bits have been set meanwhile, clears them.  *)
Return(t) ==
  /\ egPc' = [egPc EXCEPT ![t] = "run"]
  /\ itemValue' = [itemValue EXCEPT ![t] = {}]
  /\ waitFor' = [waitFor EXCEPT ![t] = {}] /\ options' = [options EXCEPT ![t] = {}]
  /\ UNCHANGED rises

ReturnWoken(t) ==
  /\ egPc[t] = "resumed" /\ "unblocked" \in itemValue[t]
  /\ Uses(t, itemValue[t] \cap EgBits, waitFor[t], options[t])
  /\ Return(t)
  /\ UNCHANGED eventBits

Mutant_ReturnTimedOut(t) ==
  /\ egPc[t] = "resumed" /\ "unblocked" \notin itemValue[t]
  /\ UNCHANGED eventBits
  /\ Uses(t, eventBits, waitFor[t], options[t])
  /\ Return(t)

ReturnTimedOut(t) ==
  /\ egPc[t] = "resumed" /\ "unblocked" \notin itemValue[t]
  /\ eventBits' = IF "clear" \in options[t] /\ Met(eventBits, waitFor[t], options[t])
                    THEN eventBits \ waitFor[t] ELSE eventBits
  /\ Uses(t, eventBits, waitFor[t], options[t])
  /\ Return(t)

EgNext ==
  \E t \in EgTasks :
    \/ \E set \in SUBSET EgBits : xEventGroupSetBits(t, set) \/ xEventGroupClearBits(t, set)
    \/ \E ask \in Asks :
         \/ WaitBitsMet(t, ask.bits, ask.opts) \/ WaitBitsBlock(t, ask.bits, ask.opts)
         \/ \E set \in SUBSET EgBits : SyncMet(t, set, ask.bits) \/ SyncBlock(t, set, ask.bits)
    \/ EgTimeout(t) \/ ReturnWoken(t) \/ ReturnTimedOut(t)

EgSpec == EgInit /\ [][EgNext]_egVars

-----------------------------------------------------------------------------
EgTypeOK ==
  /\ eventBits \in SUBSET EgBits
  /\ itemValue \in [EgTasks -> SUBSET (EgBits \cup Control)]
  /\ egPc \in [EgTasks -> {"run", "waits", "resumed"}]
  /\ waitFor \in [EgTasks -> SUBSET EgBits]
  /\ options \in [EgTasks -> SUBSET Options]
  /\ rises \in [EgBits -> Nat]
  /\ used \in [EgTasks -> [EgBits -> Nat]]

(* No task waits for bits that are there: what would satisfy it wakes it.  *)
WaitersUnmet == \A t \in EgTasks : egPc[t] = "waits" => ~ Met(eventBits, waitFor[t], options[t])

(* A task that is told that bits woke it is told bits that satisfy it.     *)
WokenIsMet ==
  \A t \in EgTasks :
    egPc[t] = "resumed" /\ "unblocked" \in itemValue[t]
      => Met(itemValue[t] \cap EgBits, waitFor[t], options[t])

(* Several tasks may use one setting of a bit, but a task that asks for    *)
(* the bit to be cleared uses each setting once: in a rendezvous nobody is *)
(* a round ahead of a task whose bit it waits for.                         *)
UsedOnce == \A t \in EgTasks, b \in EgBits : used[t][b] <= rises[b]

(* Event groups wake a task exactly when its bits are set and count each   *)
(* event once, also for a task whose block time ended meanwhile.           *)
EventsUsedOnce == WaitersUnmet /\ WokenIsMet /\ UsedOnce
=============================================================================
