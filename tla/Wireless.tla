------------------------------ MODULE Wireless ------------------------------
(***************************************************************************)
(* The wireless service, L4_IO/wireless/src/wireless.c, between the radio, *)
(* the mesh and NordicStream (L2_Drivers/src/nrf_stream.cpp): the service  *)
(* task sleeps on a semaphore, takes packets from the radio and queues     *)
(* them; the stream sends packets and waits for their acknowledgements.    *)
(* The mesh is reduced to its lock and its pending packets (see Mesh).     *)
(***************************************************************************)
EXTENDS Integers, Sequences, Functions

CONSTANTS
  RadioFifoSize,   \* packets the radio can hold
  WlRxQSize,       \* WIRELESS_RX_QUEUE_SIZE
  StreamPayload,   \* MESH_DATA_PAYLOAD_SIZE, in characters
  WlRetries,       \* retries of a packet
  NoPacket,        \* not a packet
  MaxFlushes,      \* bound on the packets the stream sends
  MaxData          \* bound on the data packets that arrive

ASSUME WirelessAssumption ==
  /\ {RadioFifoSize, WlRxQSize, StreamPayload} \subseteq Nat \ {0}
  /\ {WlRetries, MaxFlushes, MaxData} \subseteq Nat

VARIABLES
  radioFifo,  \* packets received by the radio
  rxFlag,     \* its interrupt signal
  svcPc,      \* where the service task is
  svcPkt,     \* the packet it has taken from the radio, or NoPacket
  actSem,     \* g_nrf_activity_sem
  locked,     \* g_locked of the mesh
  pnd,        \* pnd[n] : 0, or 1 + the retries left of the pending packet n
  rxQ, ackQ,  \* g_rx_queue, g_ack_queue
  strPc,      \* where the stream's task is
  dataPtr,    \* characters in mTxBuffer
  flushed,    \* number of packets sent
  flushOk,    \* what the last flush() returned
  expired,    \* history: some flush() timed out
  acked,      \* history: the packets whose acknowledgement arrived
  reacked,    \* history: those of which more than one arrived
  arrivals,   \* number of data packets that arrived
  taken       \* history: data packets taken from g_rx_queue

svcVars == <<svcPc, svcPkt, actSem>>
strVars == <<strPc, dataPtr, flushed, flushOk, expired>>
airVars == <<acked, reacked, arrivals>>
wlVars == <<radioFifo, rxFlag, svcVars, locked, pnd, rxQ, ackQ, strVars, airVars, taken>>

Sends == 1 .. MaxFlushes
WlPackets == ({"data"} \X (1 .. MaxData)) \cup ({"ack"} \X Sends)

WlPending == {n \in Sends : pnd[n] > 0}

WirelessInit ==
  /\ radioFifo = <<>> /\ rxFlag = FALSE
  /\ svcPc = "test" /\ svcPkt = NoPacket /\ actSem = FALSE
  /\ locked = FALSE
  /\ pnd = [n \in Sends |-> 0]
  /\ rxQ = <<>> /\ ackQ = <<>>
  /\ strPc = "idle" /\ dataPtr = 0 /\ flushed = 0 /\ flushOk = FALSE
  /\ expired = FALSE /\ acked = {} /\ reacked = {} /\ arrivals = 0 /\ taken = <<>>

-----------------------------------------------------------------------------
(* The radio receives a data packet, or the acknowledgement of a packet;   *)
(* one that finds the FIFO full is lost.                                   *)

Hear(p) ==
  /\ radioFifo' = IF Len(radioFifo) < RadioFifoSize THEN Append(radioFifo, p) ELSE radioFifo
  /\ rxFlag' = TRUE
  /\ UNCHANGED <<svcVars, locked, pnd, rxQ, ackQ, strVars, taken>>

HearData ==
  /\ arrivals < MaxData
  /\ arrivals' = arrivals + 1
  /\ Hear(<<"data", arrivals + 1>>)
  /\ UNCHANGED <<acked, reacked>>

(* The destination answers a packet that was sent each time it comes: with *)
(* a retry of this node, or of one that repeats it, and once more when its *)
(* retries start over on a new route.  Those nodes are not modelled, so an *)
(* answer may come at any time after the packet.                           *)
HearAck ==
  \E n \in 1 .. flushed :
    /\ n = flushed => strPc # "send"
    /\ acked' = acked \cup {n} /\ reacked' = reacked \cup (acked \cap {n})
    /\ Hear(<<"ack", n>>)
    /\ UNCHANGED arrivals

-----------------------------------------------------------------------------
(* wireless_service() and mesh_service().                                  *)

(* The block time: none, one tick, or for ever.                            *)
TestSignal ==
  /\ svcPc = "test"
  /\ svcPc' = IF rxFlag THEN "serve" ELSE IF WlPending # {} THEN "nap" ELSE "sleep"
  /\ UNCHANGED <<radioFifo, rxFlag, svcPkt, actSem, locked, pnd, rxQ, ackQ, strVars, airVars, taken>>

TakeActivitySem ==
  /\ svcPc \in {"nap", "sleep"} /\ actSem
  /\ actSem' = FALSE
  /\ svcPc' = "serve"
  /\ UNCHANGED <<radioFifo, rxFlag, svcPkt, locked, pnd, rxQ, ackQ, strVars, airVars, taken>>

NapEnds ==
  /\ svcPc = "nap" /\ ~ actSem
  /\ svcPc' = "serve"
  /\ UNCHANGED <<radioFifo, rxFlag, svcPkt, actSem, locked, pnd, rxQ, ackQ, strVars, airVars, taken>>

(* nrf_driver_receive() reads a packet, looks for another one, and clears  *)
(* the signal if there is none.                                            *)
ServiceLocked ==
  /\ svcPc = "serve" /\ locked
  /\ svcPc' = "test"
  /\ UNCHANGED <<radioFifo, rxFlag, svcPkt, actSem, locked, pnd, rxQ, ackQ, strVars, airVars, taken>>

ReadRadio ==
  /\ svcPc = "serve" /\ ~ locked
  /\ IF radioFifo = <<>>
       THEN svcPc' = "pending" /\ UNCHANGED <<radioFifo, svcPkt>>
       ELSE /\ svcPc' = "look"
            /\ svcPkt' = Head(radioFifo) /\ radioFifo' = Tail(radioFifo)
  /\ UNCHANGED <<rxFlag, actSem, locked, pnd, rxQ, ackQ, strVars, airVars, taken>>

LookAgain ==
  /\ svcPc = "look"
  /\ svcPc' = IF radioFifo = <<>> THEN "clear" ELSE "deliver"
  /\ UNCHANGED <<radioFifo, rxFlag, svcPkt, actSem, locked, pnd, rxQ, ackQ, strVars, airVars, taken>>

ClearSignalFlag ==
  /\ svcPc = "clear"
  /\ rxFlag' = FALSE
  /\ svcPc' = "deliver"
  /\ UNCHANGED <<radioFifo, svcPkt, actSem, locked, pnd, rxQ, ackQ, strVars, airVars, taken>>

(* nrf_driver_app_recv(): a full queue loses its oldest packet.            *)
IsAck == svcPkt[1] = "ack"
QueueHasRoom == IF IsAck THEN ackQ = <<>> ELSE Len(rxQ) < WlRxQSize

Push ==
  IF IsAck THEN ackQ' = Append(ackQ, svcPkt) /\ UNCHANGED rxQ
           ELSE rxQ' = Append(rxQ, svcPkt) /\ UNCHANGED ackQ

AppRecv ==
  /\ svcPc = "deliver"
  /\ IF QueueHasRoom THEN Push /\ svcPc' = "pending"
                     ELSE svcPc' = "discard" /\ UNCHANGED <<rxQ, ackQ>>
  /\ UNCHANGED <<radioFifo, rxFlag, svcPkt, actSem, locked, pnd, strVars, airVars, taken>>

Mutant_Discard ==
  /\ svcPc = "discard"
  /\ svcPc' = "requeue"
  /\ UNCHANGED <<rxQ, ackQ>>
  /\ UNCHANGED <<radioFifo, rxFlag, svcPkt, actSem, locked, pnd, strVars, airVars, taken>>

Discard ==
  /\ svcPc = "discard"
  /\ svcPc' = "requeue"
  /\ IF IsAck THEN ackQ' = <<>> /\ UNCHANGED rxQ
              ELSE rxQ' = (IF rxQ = <<>> THEN <<>> ELSE Tail(rxQ)) /\ UNCHANGED ackQ
  /\ UNCHANGED <<radioFifo, rxFlag, svcPkt, actSem, locked, pnd, strVars, airVars, taken>>

Requeue ==
  /\ svcPc = "requeue"
  /\ svcPc' = "pending"
  /\ IF QueueHasRoom THEN Push ELSE UNCHANGED <<rxQ, ackQ>>
  /\ UNCHANGED <<radioFifo, rxFlag, svcPkt, actSem, locked, pnd, strVars, airVars, taken>>

(* An acknowledgement clears the pending packets to the node it comes      *)
(* from, which is the stream's one destination; a data packet may be       *)
(* answered.  Those in due are sent again, or given up.  Every packet sent *)
(* gives the semaphore.                                                    *)
ServePending(due, answer) ==
  /\ svcPc = "pending"
  /\ LET ackedNow == {n \in Sends : svcPkt # NoPacket /\ IsAck}
         again == {n \in due \ ackedNow : pnd[n] > 1}
     IN  /\ pnd' = [n \in Sends |-> IF n \in ackedNow THEN 0
                                    ELSE IF n \in due THEN pnd[n] - 1 ELSE pnd[n]]
         /\ actSem' = (actSem \/ again # {} \/ (answer /\ svcPkt # NoPacket /\ ~ IsAck))
  /\ svcPkt' = NoPacket
  /\ svcPc' = "test"
  /\ UNCHANGED <<radioFifo, rxFlag, locked, rxQ, ackQ, strVars, airVars, taken>>

serviceStep ==
  \/ TestSignal \/ TakeActivitySem \/ NapEnds \/ ServiceLocked \/ ReadRadio
  \/ LookAgain \/ ClearSignalFlag \/ AppRecv \/ Discard \/ Requeue
  \/ \E due \in SUBSET WlPending, answer \in BOOLEAN : ServePending(due, answer)

-----------------------------------------------------------------------------
(* NordicStream, and mesh_send_formed_pkt() under its flush().             *)

StartFlush ==
  /\ flushed < MaxFlushes
  /\ dataPtr' = 0
  /\ flushed' = flushed + 1
  /\ locked' = TRUE
  /\ strPc' = "send"
  /\ UNCHANGED <<flushOk, expired>>

putChar ==
  /\ strPc = "idle"
  /\ IF dataPtr + 1 < StreamPayload
       THEN dataPtr' = dataPtr + 1 /\ UNCHANGED <<strPc, flushed, flushOk, expired, locked>>
       ELSE StartFlush
  /\ UNCHANGED <<radioFifo, rxFlag, svcVars, pnd, rxQ, ackQ, airVars, taken>>

(* Without data there is nothing to send.                                  *)
flush ==
  /\ strPc = "idle"
  /\ IF dataPtr = 0
       THEN flushOk' = FALSE /\ UNCHANGED <<strPc, dataPtr, flushed, expired, locked>>
       ELSE StartFlush
  /\ UNCHANGED <<radioFifo, rxFlag, svcVars, pnd, rxQ, ackQ, airVars, taken>>

(* nrf_driver_send() gives the semaphore ...                               *)
SendOnAir ==
  /\ strPc = "send"
  /\ actSem' = TRUE
  /\ strPc' = "add"
  /\ UNCHANGED <<radioFifo, rxFlag, svcPc, svcPkt, locked, pnd, rxQ, ackQ,
                 dataPtr, flushed, flushOk, expired, airVars, taken>>

(* ... before the packet is pending and the mesh unlocked.                 *)
AddPending ==
  /\ strPc = "add"
  /\ pnd' = [pnd EXCEPT ![flushed] = WlRetries + 1]
  /\ locked' = FALSE
  /\ strPc' = "wait"
  /\ UNCHANGED <<radioFifo, rxFlag, svcVars, rxQ, ackQ,
                 dataPtr, flushed, flushOk, expired, airVars, taken>>

Mutant_GetAck ==
  /\ strPc = "wait" /\ ackQ # <<>>
  /\ flushOk' = TRUE /\ strPc' = "idle"
  /\ UNCHANGED <<radioFifo, rxFlag, svcVars, locked, pnd, rxQ, ackQ, dataPtr, flushed, expired, airVars, taken>>

GetAck ==
  /\ strPc = "wait" /\ ackQ # <<>>
  /\ ackQ' = Tail(ackQ)
  /\ flushOk' = TRUE /\ strPc' = "idle"
  /\ UNCHANGED <<radioFifo, rxFlag, svcVars, locked, pnd, rxQ, dataPtr, flushed, expired, airVars, taken>>

AckTimeout ==
  /\ strPc = "wait" /\ ackQ = <<>>
  /\ flushOk' = FALSE /\ expired' = TRUE /\ strPc' = "idle"
  /\ UNCHANGED <<radioFifo, rxFlag, svcVars, locked, pnd, rxQ, ackQ, dataPtr, flushed, airVars, taken>>

(* Some task takes a data packet, or discards all that is queued.          *)
wireless_get_rx_pkt ==
  /\ rxQ # <<>>
  /\ taken' = Append(taken, Head(rxQ))
  /\ rxQ' = Tail(rxQ)
  /\ UNCHANGED <<radioFifo, rxFlag, svcVars, locked, pnd, ackQ, strVars, airVars>>

wireless_flush_rx ==
  /\ strPc = "idle"
  /\ \/ rxQ # <<>> /\ rxQ' = Tail(rxQ) /\ UNCHANGED ackQ
     \/ rxQ = <<>> /\ ackQ # <<>> /\ ackQ' = <<>> /\ UNCHANGED rxQ
  /\ UNCHANGED <<radioFifo, rxFlag, svcVars, locked, pnd, strVars, airVars, taken>>

streamStep == SendOnAir \/ AddPending \/ GetAck \/ AckTimeout

WirelessNext ==
  \/ HearData \/ HearAck
  \/ serviceStep
  \/ putChar \/ flush \/ streamStep
  \/ wireless_get_rx_pkt \/ wireless_flush_rx

(* Tasks are scheduled and time passes, so that pending packets become due. *)
WirelessFairness ==
  /\ WF_wlVars(serviceStep)
  /\ SF_wlVars(ServePending(WlPending, FALSE))
  /\ WF_wlVars(streamStep)

WirelessSpec == WirelessInit /\ [][WirelessNext]_wlVars /\ WirelessFairness

-----------------------------------------------------------------------------
WirelessTypeOK ==
  /\ radioFifo \in Seq(WlPackets) /\ Len(radioFifo) <= RadioFifoSize
  /\ rxFlag \in BOOLEAN /\ actSem \in BOOLEAN /\ locked \in BOOLEAN
  /\ svcPc \in {"test", "nap", "sleep", "serve", "look", "clear", "deliver", "discard",
                "requeue", "pending"}
  /\ svcPkt \in WlPackets \cup {NoPacket}
  /\ pnd \in [Sends -> 0 .. (WlRetries + 1)]
  /\ rxQ \in Seq(WlPackets) /\ Len(rxQ) <= WlRxQSize
  /\ ackQ \in Seq(WlPackets) /\ Len(ackQ) <= 1
  /\ strPc \in {"idle", "send", "add", "wait"} /\ dataPtr \in 0 .. (StreamPayload - 1)
  /\ locked <=> strPc \in {"send", "add"}
  /\ flushed \in 0 .. MaxFlushes /\ flushOk \in BOOLEAN /\ expired \in BOOLEAN
  /\ reacked \subseteq acked /\ acked \subseteq 1 .. flushed /\ arrivals \in 0 .. MaxData /\ taken \in Seq(WlPackets)

ReceivedInSequence ==
  LET all == taken \o rxQ
  IN  \A i, j \in DOMAIN all : i < j => all[i][2] < all[j][2]

NewestIsQueued ==
  svcPc # "pending" /\ svcPc' = "pending" /\ svcPkt # NoPacket =>
    svcPkt \in Range(rxQ' \o ackQ')

(* Packets are dropped, but never reordered or repeated, and the service    *)
(* never drops the packet it has just received, even while others take      *)
(* packets between the steps of nrf_driver_app_recv().                      *)
NewestIsKept == []ReceivedInSequence /\ [][NewestIsQueued]_wlVars

(* NordicStream::flush() returns true only if the packet it sent was        *)
(* acknowledged, as long as no flush() has timed out and no earlier packet  *)
(* was acknowledged a second time, after a retry; an acknowledgement that   *)
(* is left over in either way is taken for the next packet's.               *)
FlushTrueMeansAcked ==
  strPc = "idle" /\ flushOk /\ ~ expired /\ reacked \cap (1 .. (flushed - 1)) = {} =>
    flushed \in acked

(* wireless.c:203-207: a send gives the semaphore for the service task to   *)
(* "carry out retry logic": a pending packet is acknowledged, or retried    *)
(* until it is given up.                                                    *)
PendingIsRetried == \A n \in Sends : pnd[n] > 0 ~> pnd[n] = 0
=============================================================================
