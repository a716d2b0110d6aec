----------------------------- MODULE CanDriver ------------------------------
(***************************************************************************)
(* The message path of one CAN controller, L2_Drivers/src/can.c.  CAN_tx() *)
(* writes to transmit buffer 1 if it is free and queues the message        *)
(* otherwise; the transmit interrupt sends what is queued.  The receive    *)
(* interrupt queues what CAN_rx() takes.  Counters, watermarks and the     *)
(* acceptance filters are left out.  CAN_tx() on a bus that is off, and a  *)
(* CAN_rx() that times out, return false and change nothing.               *)
(***************************************************************************)
EXTENDS Integers, Sequences

CONSTANTS
  Tasks,       \* the tasks that call CAN_tx()
  None,        \* not a task, not a message
  TxQSize,     \* txq_size of CAN_init()
  RxQSize,     \* rxq_size of CAN_init()
  MaxTx,       \* MaxTx[t] : bound on the messages task t sends
  MaxArrivals, \* bound on the messages that arrive
  MaxResets    \* bound on CAN_reset_bus()

(* A message is known by its sender and its number.                        *)
Messages == UNION {{t} \X (1 .. MaxTx[t]) : t \in Tasks}

ASSUME CanAssumption ==
  /\ None \notin Tasks /\ None \notin Messages
  /\ TxQSize \in Nat \ {0} /\ RxQSize \in Nat \ {0}
  /\ MaxTx \in [Tasks -> Nat] /\ MaxArrivals \in Nat /\ MaxResets \in Nat

VARIABLES
  busOff,    \* the bus off bit of GSR
  hw,        \* transmit buffer 1: the message in transmission, or None
  txIntr,    \* the transmit bit of ICR
  rxHw,      \* the receive buffers of the controller
  txQ, rxQ,  \* the queues of can_struct_t
  mask,      \* the task in a critical section, or None
  isr,       \* where CAN_handle_isr() is
  ibits,     \* its local ibits: whether the transmit bit was set
  pc,        \* pc[t] : where task t is in CAN_tx()
  tx,        \* tx[t] : how many messages t gave to CAN_tx()
  ok,        \* ok[t] : its local of that name
  wire,      \* history: the messages the controller transmitted
  accepted,  \* history: the messages for which CAN_tx() returned true
  refused,   \* history: those for which it returned false
  aborted,   \* history: those that CAN_reset_bus() took from buffer 1
  stalled,   \* history: a reset left messages queued, nothing was sent since
  arrivals,  \* number of messages that arrived
  received,  \* history: the messages CAN_rx() returned
  resets     \* number of resets

hwVars == <<busOff, hw, txIntr, rxHw>>
isrVars == <<isr, ibits>>
taskVars == <<mask, pc, tx, ok>>
txHistory == <<wire, accepted, refused, aborted, stalled>>
rxVars == <<arrivals, received>>
canVars == <<hwVars, txQ, rxQ, isrVars, taskVars, txHistory, rxVars, resets>>

(* The message of t's current call.                                        *)
Own(t) == <<t, tx[t]>>

In(m, q) == \E i \in DOMAIN q : q[i] = m

CanInit ==
  /\ busOff = FALSE /\ hw = None /\ txIntr = FALSE /\ rxHw = <<>>
  /\ txQ = <<>> /\ rxQ = <<>>
  /\ isr = "idle" /\ ibits = FALSE
  /\ mask = None
  /\ pc = [t \in Tasks |-> "idle"]
  /\ tx = [t \in Tasks |-> 0]
  /\ ok = [t \in Tasks |-> FALSE]
  /\ wire = <<>> /\ accepted = {} /\ refused = {} /\ aborted = {} /\ stalled = FALSE
  /\ arrivals = 0 /\ received = <<>> /\ resets = 0

-----------------------------------------------------------------------------
(* The controller.  It raises the receive interrupt while rxHw has a       *)
(* message, and the transmit interrupt when buffer 1 becomes free.         *)

Transmit ==
  /\ ~ busOff /\ hw # None
  /\ wire' = Append(wire, hw)
  /\ hw' = None
  /\ txIntr' = TRUE
  /\ UNCHANGED <<busOff, rxHw, txQ, rxQ, isrVars, taskVars,
                 accepted, refused, aborted, stalled, rxVars, resets>>

(* The receive buffers hold two messages; one more is lost.                *)
Arrive ==
  /\ ~ busOff /\ arrivals < MaxArrivals
  /\ arrivals' = arrivals + 1
  /\ rxHw' = IF Len(rxHw) < 2 THEN Append(rxHw, arrivals + 1) ELSE rxHw
  /\ UNCHANGED <<busOff, hw, txIntr, txQ, rxQ, isrVars, taskVars, txHistory,
                 received, resets>>

(* Nobody acknowledges what is sent.                                       *)
BusOff ==
  /\ ~ busOff /\ hw # None /\ resets < MaxResets
  /\ busOff' = TRUE
  /\ UNCHANGED <<hw, txIntr, rxHw, txQ, rxQ, isrVars, taskVars, txHistory, rxVars, resets>>

Interrupt == txIntr \/ rxHw # <<>>

(* Code of task t runs: no interrupt is served or, unless t masks it, due. *)
Runs(t) == isr = "idle" /\ (mask = t \/ (mask = None /\ ~ Interrupt))

(* CAN_tx_now() writes m and starts its transmission.                      *)
StartTx(m) == hw' = m /\ stalled' = FALSE

-----------------------------------------------------------------------------
(* CAN_tx(), by task t.                                                    *)

Tx(t) ==
  /\ Runs(t) /\ pc[t] = "idle"
  /\ ~ busOff /\ tx[t] < MaxTx[t]
  /\ tx' = [tx EXCEPT ![t] = @ + 1]
  /\ mask' = t
  /\ pc' = [pc EXCEPT ![t] = "try"]
  /\ UNCHANGED <<hwVars, txQ, rxQ, isrVars, ok, txHistory, rxVars, resets>>

Return(t, result) ==
  /\ pc' = [pc EXCEPT ![t] = "idle"]
  /\ accepted' = IF result THEN accepted \cup {Own(t)} ELSE accepted
  /\ refused' = IF result THEN refused ELSE refused \cup {Own(t)}

Mutant_StaysMasked(t) ==
  /\ Runs(t) /\ pc[t] = "try"
  /\ \/ hw = None /\ StartTx(Own(t)) /\ Return(t, TRUE) /\ UNCHANGED mask
     \/ /\ hw # None
        /\ mask' = None
        /\ pc' = [pc EXCEPT ![t] = "queue"]
        /\ UNCHANGED <<hw, accepted, refused, stalled>>
  /\ UNCHANGED <<busOff, txIntr, rxHw, txQ, rxQ, isrVars, tx, ok, wire, aborted, rxVars, resets>>

(* The first critical section: use buffer 1 if it is free.                 *)
TryBuffer(t) ==
  /\ Runs(t) /\ pc[t] = "try"
  /\ mask' = None
  /\ \/ hw = None /\ StartTx(Own(t)) /\ Return(t, TRUE)
     \/ /\ hw # None
        /\ pc' = [pc EXCEPT ![t] = "queue"]
        /\ UNCHANGED <<hw, accepted, refused, stalled>>
  /\ UNCHANGED <<busOff, txIntr, rxHw, txQ, rxQ, isrVars, tx, ok, wire, aborted, rxVars, resets>>

(* xQueueSend() succeeds, or times out on a full queue.                    *)
Queue(t) ==
  /\ Runs(t) /\ pc[t] = "queue"
  /\ \/ Len(txQ) < TxQSize /\ txQ' = Append(txQ, Own(t)) /\ ok' = [ok EXCEPT ![t] = TRUE]
     \/ Len(txQ) = TxQSize /\ UNCHANGED txQ /\ ok' = [ok EXCEPT ![t] = FALSE]
  /\ pc' = [pc EXCEPT ![t] = "queued"]
  /\ UNCHANGED <<hwVars, rxQ, isrVars, mask, tx, txHistory, rxVars, resets>>

EnterKick(t) ==
  /\ Runs(t) /\ pc[t] = "queued"
  /\ mask' = t
  /\ pc' = [pc EXCEPT ![t] = "kick"]
  /\ UNCHANGED <<hwVars, txQ, rxQ, isrVars, tx, ok, txHistory, rxVars, resets>>

Mutant_NoKick(t) ==
  /\ Runs(t) /\ pc[t] = "kick"
  /\ mask' = None
  /\ Return(t, ok[t])
  /\ UNCHANGED <<hwVars, txQ, rxQ, isrVars, tx, ok, wire, aborted, stalled, rxVars, resets>>

Mutant_KickDecides(t) ==
  /\ Runs(t) /\ pc[t] = "kick"
  /\ mask' = None
  /\ \/ hw = None /\ txQ # <<>> /\ StartTx(Head(txQ)) /\ txQ' = Tail(txQ) /\ Return(t, TRUE)
     \/ (hw # None \/ txQ = <<>>) /\ Return(t, FALSE) /\ UNCHANGED <<hw, txQ, stalled>>
  /\ UNCHANGED <<busOff, txIntr, rxHw, rxQ, isrVars, tx, ok, wire, aborted, rxVars, resets>>

(* The second one: the transmit interrupt may have come before our message *)
(* was queued, so send the first message queued if the buffers are free.   *)
Kick(t) ==
  /\ Runs(t) /\ pc[t] = "kick"
  /\ mask' = None
  /\ \/ hw = None /\ txQ # <<>> /\ StartTx(Head(txQ)) /\ txQ' = Tail(txQ) /\ Return(t, TRUE)
     \/ (hw # None \/ txQ = <<>>) /\ Return(t, ok[t]) /\ UNCHANGED <<hw, txQ, stalled>>
  /\ UNCHANGED <<busOff, txIntr, rxHw, rxQ, isrVars, tx, ok, wire, aborted, rxVars, resets>>

(* CAN_reset_bus(), from any task.  Whether the controller raises the      *)
(* transmit interrupt for what it aborts is left open.                     *)
ResetBus ==
  /\ isr = "idle" /\ mask = None /\ ~ Interrupt
  /\ resets < MaxResets
  /\ resets' = resets + 1
  /\ busOff' = FALSE
  /\ hw' = None
  /\ aborted' = IF hw = None THEN aborted ELSE aborted \cup {hw}
  /\ txIntr' \in {FALSE, hw # None}
  /\ stalled' = (stalled \/ (txQ # <<>> /\ ~ txIntr'))
  /\ UNCHANGED <<rxHw, txQ, rxQ, isrVars, taskVars, wire, accepted, refused, rxVars>>

(* CAN_rx(): the first message queued.                                     *)
Rx ==
  /\ isr = "idle" /\ mask = None /\ ~ Interrupt
  /\ rxQ # <<>>
  /\ received' = Append(received, Head(rxQ))
  /\ rxQ' = Tail(rxQ)
  /\ UNCHANGED <<hwVars, txQ, isrVars, taskVars, txHistory, arrivals, resets>>

-----------------------------------------------------------------------------
(* CAN_handle_isr().                                                       *)

(* Reading ICR clears its transmit bit.                                    *)
IsrEnter ==
  /\ isr = "idle" /\ mask = None /\ Interrupt
  /\ ibits' = txIntr
  /\ txIntr' = FALSE
  /\ isr' = "receive"
  /\ UNCHANGED <<busOff, hw, rxHw, txQ, rxQ, taskVars, txHistory, rxVars, resets>>

Mutant_QueuesAtFront ==
  /\ isr = "receive"
  /\ \/ /\ rxHw # <<>>
        /\ rxQ' = IF Len(rxQ) < RxQSize THEN <<Head(rxHw)>> \o rxQ ELSE rxQ
        /\ rxHw' = Tail(rxHw)
     \/ rxHw = <<>> /\ UNCHANGED <<rxQ, rxHw>>
  /\ isr' = "transmit"
  /\ UNCHANGED <<busOff, hw, txIntr, txQ, ibits, taskVars, txHistory, rxVars, resets>>

(* Queue a received message, or drop it, and release the receive buffer.   *)
IsrReceive ==
  /\ isr = "receive"
  /\ \/ /\ rxHw # <<>>
        /\ rxQ' = IF Len(rxQ) < RxQSize THEN Append(rxQ, Head(rxHw)) ELSE rxQ
        /\ rxHw' = Tail(rxHw)
     \/ rxHw = <<>> /\ UNCHANGED <<rxQ, rxHw>>
  /\ isr' = "transmit"
  /\ UNCHANGED <<busOff, hw, txIntr, txQ, ibits, taskVars, txHistory, rxVars, resets>>

Mutant_IgnoresQueue ==
  /\ isr = "transmit"
  /\ isr' = "idle"
  /\ UNCHANGED <<hwVars, txQ, rxQ, ibits, taskVars, txHistory, rxVars, resets>>

(* Take the first message queued and give it to CAN_tx_now(), whose result *)
(* is ignored: the message is gone if buffer 1 was filled meanwhile.       *)
IsrTransmit ==
  /\ isr = "transmit"
  /\ \/ /\ ibits /\ txQ # <<>>
        /\ txQ' = Tail(txQ)
        /\ IF hw = None THEN StartTx(Head(txQ)) ELSE UNCHANGED <<hw, stalled>>
     \/ ~ (ibits /\ txQ # <<>>) /\ UNCHANGED <<txQ, hw, stalled>>
  /\ isr' = "idle"
  /\ UNCHANGED <<busOff, txIntr, rxHw, rxQ, ibits, taskVars,
                 wire, accepted, refused, aborted, rxVars, resets>>

-----------------------------------------------------------------------------
CAN_tx(t) == TryBuffer(t) \/ Queue(t) \/ EnterKick(t) \/ Kick(t)

CAN_handle_isr == IsrEnter \/ IsrReceive \/ IsrTransmit

CanNext ==
  \/ Transmit \/ Arrive \/ BusOff
  \/ \E t \in Tasks : Tx(t) \/ CAN_tx(t)
  \/ ResetBus
  \/ Rx
  \/ CAN_handle_isr

(* A bus that is on transmits; interrupts are served; a task in CAN_tx()   *)
(* is scheduled.  Nothing makes anybody send, receive or reset.             *)
CanFairness ==
  /\ WF_canVars(Transmit)
  /\ WF_canVars(CAN_handle_isr)
  /\ \A t \in Tasks : WF_canVars(CAN_tx(t))

CanSpec == CanInit /\ [][CanNext]_canVars /\ CanFairness

-----------------------------------------------------------------------------
(* Types; interrupts are masked exactly in the two critical sections.      *)
CanTypeOK ==
  /\ busOff \in BOOLEAN /\ txIntr \in BOOLEAN /\ ibits \in BOOLEAN /\ stalled \in BOOLEAN
  /\ hw \in Messages \cup {None}
  /\ txQ \in Seq(Messages) /\ Len(txQ) <= TxQSize
  /\ rxHw \in Seq(Nat) /\ Len(rxHw) <= 2
  /\ rxQ \in Seq(Nat) /\ Len(rxQ) <= RxQSize
  /\ isr \in {"idle", "receive", "transmit"}
  /\ pc \in [Tasks -> {"idle", "try", "queue", "queued", "kick"}]
  /\ mask \in Tasks \cup {None}
  /\ \A t \in Tasks : mask = t <=> pc[t] \in {"try", "kick"}
  /\ isr # "idle" => mask = None
  /\ \A t \in Tasks : tx[t] \in 0 .. MaxTx[t] /\ (pc[t] # "idle" => tx[t] > 0)
  /\ tx \in [Tasks -> Nat]
  /\ ok \in [Tasks -> BOOLEAN]
  /\ wire \in Seq(Messages)
  /\ accepted \subseteq Messages /\ refused \subseteq Messages /\ aborted \subseteq Messages
  /\ arrivals \in Nat /\ resets \in Nat /\ received \in Seq(Nat)

(* A message is never left in the queue with nobody to send it: buffer 1   *)
(* is busy, its interrupt is due or being served, or a caller is about to  *)
(* check (the race of can.c:439-442).  Only CAN_reset_bus() can strand it. *)
NotStranded ==
  txQ # <<>> /\ ~ stalled =>
    \/ hw # None
    \/ txIntr
    \/ isr # "idle" /\ ibits
    \/ \E t \in Tasks : pc[t] \in {"queued", "kick"}

Once(q) == \A i, j \in DOMAIN q : q[i] = q[j] => i = j

(* A message goes out at most once, whoever sends it.                      *)
SentOnce ==
  /\ Once(txQ) /\ Once(wire)
  /\ \A m \in Messages : ~ (In(m, txQ) /\ In(m, wire))
  /\ hw # None => ~ In(hw, txQ) /\ ~ In(hw, wire)

(* Message m is on its way or was sent.                                    *)
Given(m) == m = hw \/ In(m, txQ) \/ In(m, wire)

(* A message that CAN_tx() refused never goes out: its sender may retry.   *)
RefusedIsNotSent == \A m \in refused : ~ Given(m)

(* What CAN_tx() tells its caller can be relied on: a message goes out     *)
(* once at most, and not at all after a false.                             *)
SentAsTold == SentOnce /\ RefusedIsNotSent

(* The message of a call is new: nothing has a number above its sender's   *)
(* count, and it is not given to anybody before it is queued or written.   *)
OwnIsNew ==
  /\ \A m \in Messages : Given(m) \/ m \in refused => m[2] <= tx[m[1]]
  /\ \A t \in Tasks :
       /\ pc[t] # "idle" => Own(t) \notin refused
       /\ pc[t] \in {"try", "queue"} => ~ Given(Own(t))
       /\ pc[t] \in {"queued", "kick"} /\ ~ ok[t] => ~ Given(Own(t))

Increasing(q) == \A i, j \in DOMAIN q : i < j => q[i] < q[j]

(* CAN_rx() returns messages in the order they arrived, each once.         *)
RxInOrder == Increasing(received)

(* ... because everything returned arrived before what is queued, and that *)
(* before what the controller holds.                                       *)
ArrivalOrder ==
  /\ Increasing(received) /\ Increasing(rxQ) /\ Increasing(rxHw)
  /\ \A a, b \in Nat :
       /\ In(a, received) /\ In(b, rxQ) => a < b
       /\ In(a, received) /\ In(b, rxHw) => a < b
       /\ In(a, rxQ) /\ In(b, rxHw) => a < b
  /\ \A a \in Nat : In(a, received) \/ In(a, rxQ) \/ In(a, rxHw) => a <= arrivals

(* The inductive invariant.                                                *)
CanIInv ==
  /\ CanTypeOK
  /\ NotStranded
  /\ SentOnce
  /\ RefusedIsNotSent
  /\ OwnIsNew
  /\ ArrivalOrder

(* A queued message leaves the queue, unless the bus goes off or a reset   *)
(* strands it.                                                             *)
QueueDrains ==
  \A m \in Messages :
    In(m, txQ) ~> ~ In(m, txQ) \/ stalled \/ busOff

(* can.h:166: if the message was either sent, or queued, true is returned. *)
(* So one for which true was returned is on its way, sent, or was aborted. *)
AcceptedIsKept ==
  \A m \in accepted : m = hw \/ In(m, txQ) \/ In(m, wire) \/ m \in aborted
=============================================================================
