----------------------------- MODULE RadioProofs -----------------------------
(***************************************************************************)
(* The wireless service and the mesh, for any sizes, numbers of packets    *)
(* and networks.                                                           *)
(*                                                                         *)
(* The inductive invariant of module Wireless follows the packets on their *)
(* way from the radio to the tasks: data packets keep their order over all *)
(* the places they pass, and, until a flush() has timed out or a packet    *)
(* was acknowledged twice, at most one acknowledgement is on its way, that *)
(* of the packet the stream waits for.                                     *)
(*                                                                         *)
(* In module Mesh all packets of the network come from a set that is       *)
(* closed under what nodes do to packets (Closed).  With all packets for   *)
(* that set this gives the types; with those whose number their source has *)
(* given away (Known) it gives that nobody retries a broadcast, and so     *)
(* that the history of a node stops every second copy it has room for.     *)
(***************************************************************************)
EXTENDS MCRadio, SequenceTheorems, FiniteSetTheorems, WellFoundedInduction, TLAPS

-----------------------------------------------------------------------------
(* The wireless service.                                                   *)

(* The service task holds a packet that it has not queued yet.             *)
Holds == svcPc \in {"look", "clear", "deliver", "discard", "requeue"}

ServiceInv ==
  /\ Holds => svcPkt \in WlPackets
  /\ svcPc \in {"test", "nap", "sleep", "serve"} => svcPkt = NoPacket
  /\ svcPc = "requeue" => QueueHasRoom

(* Each data packet is later than those ahead of it on its way: taken, in  *)
(* g_rx_queue, held by the service task, and in the radio.                 *)
AllData(s) == \A i \in DOMAIN s : s[i][1] = "data"
Rises(s) == \A i, j \in DOMAIN s : i < j => s[i][2] < s[j][2]
Below(s, k) == \A i \in DOMAIN s : s[i][2] < k

TakenInv == AllData(taken) /\ Rises(taken) /\ Below(taken, arrivals + 1)
RxQInv ==
  /\ AllData(rxQ) /\ Rises(rxQ) /\ Below(rxQ, arrivals + 1)
  /\ \A j \in DOMAIN rxQ : Below(taken, rxQ[j][2])
HeldInv ==
  Holds /\ svcPkt[1] = "data" =>
    svcPkt[2] <= arrivals /\ Below(taken, svcPkt[2]) /\ Below(rxQ, svcPkt[2])
FifoInv ==
  /\ \A i, j \in DOMAIN radioFifo :
       i < j /\ radioFifo[i][1] = "data" /\ radioFifo[j][1] = "data" => radioFifo[i][2] < radioFifo[j][2]
  /\ \A j \in DOMAIN radioFifo : radioFifo[j][1] = "data" =>
       /\ radioFifo[j][2] <= arrivals
       /\ Below(taken, radioFifo[j][2]) /\ Below(rxQ, radioFifo[j][2])
       /\ Holds /\ svcPkt[1] = "data" => svcPkt[2] < radioFifo[j][2]

DataInv == TakenInv /\ RxQInv /\ HeldInv /\ FifoInv

(* Until a flush() times out or a packet is acknowledged again, one        *)
(* acknowledgement at most is on its way, that of the packet the stream    *)
(* waits for.                                                              *)
AcksMatch == ~ expired /\ reacked = {}

InFifo == {i \in DOMAIN radioFifo : radioFifo[i][1] = "ack"}
InHand == Holds /\ svcPkt[1] = "ack"
OnItsWay == InFifo # {} \/ InHand \/ ackQ # <<>>

AckInv ==
  AcksMatch =>
    /\ 1 .. (flushed - 1) \subseteq acked
    /\ strPc = "idle" => 1 .. flushed \subseteq acked
    /\ strPc = "send" => flushed \notin acked
    /\ strPc \in {"idle", "send"} => ~ OnItsWay
    /\ strPc # "idle" => flushed > 0
    /\ OnItsWay => flushed \in acked
    /\ \A i, j \in InFifo : i = j
    /\ InFifo # {} => ~ InHand /\ ackQ = <<>>
    /\ InHand => ackQ = <<>>

FlushedInv == flushOk \/ strPc # "idle" => flushed > 0

WlInv == WirelessTypeOK /\ ServiceInv /\ DataInv /\ AckInv /\ FlushedInv

-----------------------------------------------------------------------------
(* What packets are made of.                                               *)
LEMMA PacketParts ==
  ASSUME NEW p \in WlPackets
  PROVE  /\ p[1] \in {"data", "ack"} /\ p[2] \in Nat
         /\ p[1] = "ack" => p[2] \in Sends /\ p = <<"ack", p[2]>>
BY WirelessAssumption DEF WlPackets, Sends

LEMMA PacketsMade ==
  /\ \A n \in 1 .. MaxData : <<"data", n>> \in WlPackets
  /\ \A n \in Sends : <<"ack", n>> \in WlPackets
BY DEF WlPackets

(* What a packet at the end, and the loss of the first one, leave true of  *)
(* a sequence of packets.                                                  *)
LEMMA AppendPacket ==
  ASSUME NEW s \in Seq(WlPackets), NEW p \in WlPackets
  PROVE  /\ Append(s, p) \in Seq(WlPackets) /\ Len(Append(s, p)) = Len(s) + 1
         /\ AllData(s) /\ p[1] = "data" => AllData(Append(s, p))
         /\ Rises(s) /\ Below(s, p[2]) => Rises(Append(s, p))
         /\ \A k \in Nat : Below(s, k) /\ p[2] < k => Below(Append(s, p), k)
<1>1. /\ Append(s, p) \in Seq(WlPackets) /\ Len(Append(s, p)) = Len(s) + 1
      /\ \A i \in 1 .. Len(s) : Append(s, p)[i] = s[i]
      /\ Append(s, p)[Len(s) + 1] = p
      /\ DOMAIN Append(s, p) = 1 .. (Len(s) + 1) /\ DOMAIN s = 1 .. Len(s) /\ Len(s) \in Nat
  OBVIOUS
<1>2. \A i \in DOMAIN Append(s, p) : i \in DOMAIN s \/ i = Len(s) + 1
  BY <1>1
<1>3. ASSUME AllData(s), p[1] = "data" PROVE AllData(Append(s, p))
  BY <1>1, <1>2, <1>3 DEF AllData
<1>4. ASSUME Rises(s), Below(s, p[2]) PROVE Rises(Append(s, p))
  <2> SUFFICES ASSUME NEW i \in DOMAIN Append(s, p), NEW j \in DOMAIN Append(s, p), i < j
               PROVE  Append(s, p)[i][2] < Append(s, p)[j][2]
    BY DEF Rises
  <2>1. i \in DOMAIN s
    BY <1>1, <1>2
  <2>2. CASE j \in DOMAIN s
    BY <1>1, <1>4, <2>1, <2>2 DEF Rises
  <2>3. CASE j = Len(s) + 1
    BY <1>1, <1>4, <2>1, <2>3 DEF Below
  <2> QED BY <1>2, <2>2, <2>3
<1>5. ASSUME NEW k \in Nat, Below(s, k), p[2] < k PROVE Below(Append(s, p), k)
  BY <1>1, <1>2, <1>5 DEF Below
<1> QED BY <1>1, <1>3, <1>4, <1>5

LEMMA TailPackets ==
  ASSUME NEW s \in Seq(WlPackets), s # <<>>
  PROVE  /\ Tail(s) \in Seq(WlPackets) /\ Len(Tail(s)) = Len(s) - 1
         /\ Head(s) \in WlPackets /\ Head(s) = s[1] /\ 1 \in DOMAIN s
         /\ \A i \in DOMAIN Tail(s) : i + 1 \in DOMAIN s /\ Tail(s)[i] = s[i + 1]
         /\ DOMAIN Tail(s) \subseteq Nat \ {0}
         /\ AllData(s) => AllData(Tail(s))
         /\ Rises(s) => Rises(Tail(s))
         /\ \A k \in Nat : Below(s, k) => Below(Tail(s), k)
<1>1. /\ Tail(s) \in Seq(WlPackets) /\ Len(Tail(s)) = Len(s) - 1
      /\ Head(s) = s[1] /\ Len(s) \in Nat /\ Len(s) > 0 /\ DOMAIN s = 1 .. Len(s)
      /\ DOMAIN Tail(s) = 1 .. (Len(s) - 1)
  OBVIOUS
<1>2. Head(s) \in WlPackets /\ 1 \in DOMAIN s
  BY <1>1
<1>3. \A i \in DOMAIN Tail(s) : i + 1 \in DOMAIN s /\ Tail(s)[i] = s[i + 1]
  BY <1>1
<1>4. DOMAIN Tail(s) \subseteq Nat \ {0}
  BY <1>1
<1>5. AllData(s) => AllData(Tail(s))
  BY <1>3 DEF AllData
<1>6. Rises(s) => Rises(Tail(s))
  BY <1>3, <1>4 DEF Rises
<1>7. \A k \in Nat : Below(s, k) => Below(Tail(s), k)
  BY <1>3 DEF Below
<1> QED BY <1>1, <1>2, <1>3, <1>4, <1>5, <1>6, <1>7

LEMMA BelowMore ==
  ASSUME NEW s \in Seq(WlPackets), NEW k \in Nat, NEW m \in Nat, k <= m, Below(s, k)
  PROVE  Below(s, m)
<1> SUFFICES ASSUME NEW i \in DOMAIN s PROVE s[i][2] < m
  BY DEF Below
<1>1. s[i] \in WlPackets
  OBVIOUS
<1>2. s[i][2] \in Nat
  BY <1>1, PacketParts
<1> QED BY <1>2 DEF Below

-----------------------------------------------------------------------------
(* Types.                                                                  *)
LEMMA WlInitType == WirelessInit => WirelessTypeOK
<1> SUFFICES ASSUME WirelessInit PROVE WirelessTypeOK
  OBVIOUS
<1>1. /\ <<>> \in Seq(WlPackets) /\ Len(<<>>) = 0
  OBVIOUS
<1>2. pnd \in [Sends -> 0 .. (WlRetries + 1)]
  BY WirelessAssumption DEF WirelessInit
<1>3. 0 \in 0 .. (StreamPayload - 1) /\ 0 \in 0 .. MaxFlushes /\ 0 \in 0 .. MaxData
      /\ 0 <= RadioFifoSize /\ 0 <= WlRxQSize /\ 0 <= 1
  BY WirelessAssumption
<1> QED BY <1>1, <1>2, <1>3 DEF WirelessInit, WirelessTypeOK

LEMMA WlStepType == WirelessTypeOK /\ ServiceInv /\ [WirelessNext]_wlVars => WirelessTypeOK'
<1> SUFFICES ASSUME WirelessTypeOK, ServiceInv, [WirelessNext]_wlVars PROVE WirelessTypeOK'
  OBVIOUS
<1>a. flushed + 1 \in Nat /\ flushed \in 0 .. MaxFlushes /\ arrivals \in 0 .. MaxData
  BY WirelessAssumption DEF WirelessTypeOK
<1>b. \A p \in WlPackets :
        LET f == IF Len(radioFifo) < RadioFifoSize THEN Append(radioFifo, p) ELSE radioFifo
        IN  f \in Seq(WlPackets) /\ Len(f) <= RadioFifoSize
  BY WirelessAssumption DEF WirelessTypeOK
<1>1. CASE HearData
  <2>1. arrivals + 1 \in 1 .. MaxData
    BY <1>1, <1>a, WirelessAssumption DEF HearData
  <2>2. <<"data", arrivals + 1>> \in WlPackets
    BY <2>1, PacketsMade
  <2>3. radioFifo' \in Seq(WlPackets) /\ Len(radioFifo') <= RadioFifoSize
    BY <1>1, <1>b, <2>2 DEF HearData, Hear
  <2> QED BY <1>1, <2>1, <2>3 DEF HearData, Hear, WirelessTypeOK, svcVars, strVars
<1>2. CASE HearAck
  <2>1. PICK n \in 1 .. flushed : /\ acked' = acked \cup {n} /\ reacked' = reacked \cup (acked \cap {n})
                                  /\ Hear(<<"ack", n>>) /\ UNCHANGED arrivals
    BY <1>2 DEF HearAck
  <2>2. n \in Sends
    BY <2>1, <1>a, WirelessAssumption DEF Sends
  <2>3. <<"ack", n>> \in WlPackets
    BY <2>2, PacketsMade
  <2>4. radioFifo' \in Seq(WlPackets) /\ Len(radioFifo') <= RadioFifoSize
    BY <2>1, <1>b, <2>3 DEF Hear
  <2> QED BY <2>1, <2>2, <2>4 DEF Hear, WirelessTypeOK, svcVars, strVars
<1>3. CASE TestSignal \/ TakeActivitySem \/ NapEnds \/ ServiceLocked \/ LookAgain \/ ClearSignalFlag
  <2>1. UNCHANGED <<radioFifo, svcPkt, locked, pnd, rxQ, ackQ, strVars, airVars, taken>>
    BY <1>3 DEF TestSignal, TakeActivitySem, NapEnds, ServiceLocked, LookAgain, ClearSignalFlag
  <2>2. svcPc' \in {"test", "nap", "sleep", "serve", "clear", "deliver"}
    BY <1>3 DEF TestSignal, TakeActivitySem, NapEnds, ServiceLocked, LookAgain, ClearSignalFlag
  <2>3. rxFlag' \in BOOLEAN /\ actSem' \in BOOLEAN
    BY <1>3 DEF TestSignal, TakeActivitySem, NapEnds, ServiceLocked, LookAgain, ClearSignalFlag,
                WirelessTypeOK
  <2> QED BY <2>1, <2>2, <2>3 DEF WirelessTypeOK, strVars, airVars
<1>4. CASE ReadRadio
  <2>1. CASE radioFifo = <<>>
    BY <1>4, <2>1 DEF ReadRadio, WirelessTypeOK, svcVars, strVars, airVars
  <2>2. CASE radioFifo # <<>>
    <3>1. radioFifo \in Seq(WlPackets)
      BY DEF WirelessTypeOK
    <3>2. /\ Head(radioFifo) \in WlPackets /\ Tail(radioFifo) \in Seq(WlPackets)
          /\ Len(Tail(radioFifo)) = Len(radioFifo) - 1
      BY <2>2, <3>1, TailPackets
    <3>3. Len(radioFifo') <= RadioFifoSize
      BY <1>4, <2>2, <3>1, <3>2, WirelessAssumption DEF ReadRadio, WirelessTypeOK
    <3> QED BY <1>4, <2>2, <3>2, <3>3 DEF ReadRadio, WirelessTypeOK, svcVars, strVars, airVars
  <2> QED BY <2>1, <2>2
<1>c. ASSUME Holds, Push, QueueHasRoom
      PROVE  /\ rxQ' \in Seq(WlPackets) /\ Len(rxQ') <= WlRxQSize
             /\ ackQ' \in Seq(WlPackets) /\ Len(ackQ') <= 1
  <2>1. svcPkt \in WlPackets
    BY <1>c DEF ServiceInv
  <2>2. rxQ \in Seq(WlPackets) /\ Len(rxQ) <= WlRxQSize /\ ackQ \in Seq(WlPackets) /\ Len(ackQ) <= 1
    BY DEF WirelessTypeOK
  <2>3. CASE IsAck
    <3>1. ackQ = <<>> /\ ackQ' = Append(ackQ, svcPkt) /\ rxQ' = rxQ
      BY <1>c, <2>3 DEF Push, QueueHasRoom
    <3>2. Append(ackQ, svcPkt) \in Seq(WlPackets) /\ Len(Append(ackQ, svcPkt)) = Len(ackQ) + 1
      BY <2>1, <2>2, AppendPacket
    <3>3. Len(ackQ) = 0
      BY <3>1
    <3> QED BY <2>2, <3>1, <3>2, <3>3
  <2>4. CASE ~ IsAck
    <3>1. Len(rxQ) < WlRxQSize /\ rxQ' = Append(rxQ, svcPkt) /\ ackQ' = ackQ
      BY <1>c, <2>4 DEF Push, QueueHasRoom
    <3>2. Append(rxQ, svcPkt) \in Seq(WlPackets) /\ Len(Append(rxQ, svcPkt)) = Len(rxQ) + 1
      BY <2>1, <2>2, AppendPacket
    <3> QED BY <2>2, <3>1, <3>2, WirelessAssumption
  <2> QED BY <2>3, <2>4
<1>d. /\ rxQ # <<>> => Tail(rxQ) \in Seq(WlPackets) /\ Len(Tail(rxQ)) <= WlRxQSize
      /\ rxQ \in Seq(WlPackets) /\ Len(rxQ) <= WlRxQSize
  <2>1. rxQ \in Seq(WlPackets) /\ Len(rxQ) <= WlRxQSize /\ Len(rxQ) \in Nat
    BY DEF WirelessTypeOK
  <2>2. ASSUME rxQ # <<>> PROVE Tail(rxQ) \in Seq(WlPackets) /\ Len(Tail(rxQ)) = Len(rxQ) - 1
    BY <2>1, <2>2, TailPackets
  <2> QED BY <2>1, <2>2, WirelessAssumption
<1>e. /\ <<>> \in Seq(WlPackets) /\ Len(<<>>) <= 1 /\ Len(<<>>) <= WlRxQSize
      /\ ackQ \in Seq(WlPackets) /\ Len(ackQ) <= 1
  BY WirelessAssumption DEF WirelessTypeOK
<1>5. CASE AppRecv
  <2>1. Holds
    BY <1>5 DEF AppRecv, Holds
  <2>2. /\ rxQ' \in Seq(WlPackets) /\ Len(rxQ') <= WlRxQSize
        /\ ackQ' \in Seq(WlPackets) /\ Len(ackQ') <= 1
    BY <1>5, <2>1, <1>c DEF AppRecv, WirelessTypeOK
  <2> QED BY <1>5, <2>2 DEF AppRecv, WirelessTypeOK, strVars, airVars
<1>6. CASE Discard
  <2>1. /\ rxQ' \in Seq(WlPackets) /\ Len(rxQ') <= WlRxQSize
        /\ ackQ' \in Seq(WlPackets) /\ Len(ackQ') <= 1
    BY <1>6, <1>d, <1>e DEF Discard
  <2> QED BY <1>6, <2>1 DEF Discard, WirelessTypeOK, strVars, airVars
<1>7. CASE Requeue
  <2>1. Holds
    BY <1>7 DEF Requeue, Holds
  <2>2. /\ rxQ' \in Seq(WlPackets) /\ Len(rxQ') <= WlRxQSize
        /\ ackQ' \in Seq(WlPackets) /\ Len(ackQ') <= 1
    BY <1>7, <2>1, <1>c DEF Requeue, WirelessTypeOK
  <2> QED BY <1>7, <2>2 DEF Requeue, WirelessTypeOK, strVars, airVars
<1>8. CASE \E due \in SUBSET WlPending, answer \in BOOLEAN : ServePending(due, answer)
  <2>1. PICK due \in SUBSET WlPending, answer \in BOOLEAN : ServePending(due, answer)
    BY <1>8
  <2>2. pnd \in [Sends -> 0 .. (WlRetries + 1)] /\ \A n \in due : n \in Sends /\ pnd[n] > 0
    BY DEF WirelessTypeOK, WlPending
  <2>3. pnd' \in [Sends -> 0 .. (WlRetries + 1)]
    <3>1. PICK acks \in SUBSET Sends :
            pnd' = [n \in Sends |-> IF n \in acks THEN 0 ELSE IF n \in due THEN pnd[n] - 1 ELSE pnd[n]]
      BY <2>1 DEF ServePending
    <3>2. ASSUME NEW n \in Sends PROVE pnd'[n] \in 0 .. (WlRetries + 1)
      <4>1. pnd[n] \in 0 .. (WlRetries + 1) /\ (n \in due => pnd[n] > 0)
        BY <2>2
      <4> QED BY <3>1, <4>1, WirelessAssumption
    <3> QED BY <3>1, <3>2
  <2>4. actSem' \in BOOLEAN
    BY <2>1 DEF ServePending, WirelessTypeOK
  <2> QED BY <2>1, <2>3, <2>4 DEF ServePending, WirelessTypeOK, strVars, airVars
<1>9. CASE putChar \/ flush
  <2>1. flushed < MaxFlushes => flushed + 1 \in 0 .. MaxFlushes
    BY <1>a, WirelessAssumption
  <2>2. /\ dataPtr + 1 < StreamPayload => dataPtr + 1 \in 0 .. (StreamPayload - 1)
        /\ 0 \in 0 .. (StreamPayload - 1)
    BY WirelessAssumption DEF WirelessTypeOK
  <2>3. UNCHANGED <<radioFifo, rxFlag, svcVars, pnd, rxQ, ackQ, airVars, taken, expired>>
    BY <1>9 DEF putChar, flush, StartFlush
  <2>4. CASE StartFlush
    BY <2>1, <2>2, <2>3, <2>4 DEF StartFlush, WirelessTypeOK, svcVars, airVars
  <2>5. CASE ~ StartFlush
    <3>1. /\ UNCHANGED <<strPc, flushed, locked>> /\ flushOk' \in {flushOk, FALSE}
          /\ dataPtr' \in 0 .. (StreamPayload - 1)
      BY <1>9, <2>2, <2>5 DEF putChar, flush, WirelessTypeOK
    <3>2. /\ radioFifo' = radioFifo /\ rxFlag' = rxFlag /\ actSem' = actSem /\ svcPc' = svcPc
          /\ svcPkt' = svcPkt /\ pnd' = pnd /\ rxQ' = rxQ /\ ackQ' = ackQ /\ expired' = expired
          /\ acked' = acked /\ reacked' = reacked /\ arrivals' = arrivals /\ taken' = taken
      BY <2>3 DEF svcVars, airVars
    <3>3. flushOk' \in BOOLEAN
      BY <3>1 DEF WirelessTypeOK
    <3> QED BY <3>1, <3>2, <3>3 DEF WirelessTypeOK
  <2> QED BY <2>4, <2>5
<1>10. CASE SendOnAir \/ AckTimeout
  <2>1. CASE SendOnAir
    BY <2>1 DEF SendOnAir, WirelessTypeOK, svcVars, airVars
  <2>2. CASE AckTimeout
    BY <2>2 DEF AckTimeout, WirelessTypeOK, svcVars, airVars
  <2> QED BY <1>10, <2>1, <2>2
<1>11. CASE AddPending
  <2>1. pnd' \in [Sends -> 0 .. (WlRetries + 1)]
    <3>1. WlRetries + 1 \in 0 .. (WlRetries + 1)
      BY WirelessAssumption
    <3>2. pnd \in [Sends -> 0 .. (WlRetries + 1)]
      BY DEF WirelessTypeOK
    <3> QED BY <1>11, <3>1, <3>2 DEF AddPending
  <2> QED BY <1>11, <2>1 DEF AddPending, WirelessTypeOK, svcVars, airVars
<1>12. CASE GetAck
  <2>1. ackQ' \in Seq(WlPackets) /\ Len(ackQ') <= 1
    BY <1>12 DEF GetAck, WirelessTypeOK
  <2> QED BY <1>12, <2>1 DEF GetAck, WirelessTypeOK, svcVars, airVars
<1>13. CASE wireless_get_rx_pkt
  <2>1. rxQ' \in Seq(WlPackets) /\ Len(rxQ') <= WlRxQSize
    BY <1>13, <1>d DEF wireless_get_rx_pkt
  <2>2. taken' \in Seq(WlPackets)
    BY <1>13 DEF wireless_get_rx_pkt, WirelessTypeOK
  <2> QED BY <1>13, <2>1, <2>2 DEF wireless_get_rx_pkt, WirelessTypeOK, svcVars, strVars, airVars
<1>14. CASE wireless_flush_rx
  <2>1. /\ rxQ' \in Seq(WlPackets) /\ Len(rxQ') <= WlRxQSize
        /\ ackQ' \in Seq(WlPackets) /\ Len(ackQ') <= 1
    BY <1>14, <1>d, <1>e DEF wireless_flush_rx
  <2> QED BY <1>14, <2>1 DEF wireless_flush_rx, WirelessTypeOK, svcVars, strVars, airVars
<1>15. CASE UNCHANGED wlVars
  BY <1>15 DEF wlVars, svcVars, strVars, airVars, WirelessTypeOK
<1> QED BY <1>1, <1>2, <1>3, <1>4, <1>5, <1>6, <1>7, <1>8, <1>9, <1>10, <1>11, <1>12, <1>13, <1>14, <1>15
        DEF WirelessNext, serviceStep, streamStep

-----------------------------------------------------------------------------
(* The service task: what it holds, and the room it has made.              *)
LEMMA WlServiceStep == WlInv /\ [WirelessNext]_wlVars => ServiceInv'
<1> SUFFICES ASSUME WlInv, [WirelessNext]_wlVars PROVE ServiceInv'
  OBVIOUS
<1>0. WirelessTypeOK /\ ServiceInv
  BY DEF WlInv
<1>a. ASSUME UNCHANGED <<svcPc, svcPkt>>, QueueHasRoom => QueueHasRoom' PROVE ServiceInv'
  BY <1>a, <1>0 DEF ServiceInv, Holds
<1>b. ASSUME UNCHANGED <<svcPkt, rxQ, ackQ>> PROVE QueueHasRoom <=> QueueHasRoom'
  BY <1>b DEF QueueHasRoom, IsAck
<1>c. ASSUME svcPkt' = svcPkt, svcPc' \in {"nap", "sleep", "serve", "test", "pending"},
             svcPc \in {"test", "nap", "sleep", "serve"} \/ svcPc' = "pending"
      PROVE  ServiceInv'
  BY <1>c, <1>0 DEF ServiceInv, Holds
<1>1. CASE HearData \/ HearAck
  <2>1. UNCHANGED <<svcPc, svcPkt, rxQ, ackQ>>
    BY <1>1 DEF HearData, HearAck, Hear, svcVars
  <2> QED BY <2>1, <1>a, <1>b
<1>2. CASE TestSignal \/ TakeActivitySem \/ NapEnds \/ ServiceLocked
  BY <1>2, <1>c DEF TestSignal, TakeActivitySem, NapEnds, ServiceLocked
<1>3. CASE ReadRadio
  <2>1. CASE radioFifo = <<>>
    BY <1>3, <2>1, <1>c DEF ReadRadio
  <2>2. CASE radioFifo # <<>>
    <3>1. radioFifo \in Seq(WlPackets)
      BY <1>0 DEF WirelessTypeOK
    <3>2. Head(radioFifo) \in WlPackets
      BY <2>2, <3>1, TailPackets
    <3> QED BY <1>3, <2>2, <3>2 DEF ReadRadio, ServiceInv, Holds
  <2> QED BY <2>1, <2>2
<1>4. CASE LookAgain \/ ClearSignalFlag
  BY <1>4, <1>0 DEF LookAgain, ClearSignalFlag, ServiceInv, Holds
<1>5. CASE AppRecv
  BY <1>5, <1>0, <1>c DEF AppRecv, ServiceInv, Holds
<1>6. CASE Discard
  <2>1. svcPkt \in WlPackets /\ svcPkt' = svcPkt /\ svcPc' = "requeue"
    BY <1>6, <1>0 DEF Discard, ServiceInv, Holds
  <2>2. QueueHasRoom'
    <3>1. CASE IsAck
      BY <1>6, <2>1, <3>1 DEF Discard, QueueHasRoom, IsAck
    <3>2. CASE ~ IsAck
      <4>1. rxQ \in Seq(WlPackets) /\ Len(rxQ) <= WlRxQSize
        BY <1>0 DEF WirelessTypeOK
      <4>2. Len(rxQ') < WlRxQSize
        <5>1. CASE rxQ = <<>>
          <6>1. rxQ' = <<>>
            BY <1>6, <3>2, <5>1 DEF Discard
          <6> QED BY <6>1, WirelessAssumption
        <5>2. CASE rxQ # <<>>
          <6>1. rxQ' = Tail(rxQ)
            BY <1>6, <3>2, <5>2 DEF Discard
          <6>2. Len(Tail(rxQ)) = Len(rxQ) - 1 /\ Len(rxQ) \in Nat
            BY <4>1, <5>2, TailPackets
          <6> QED BY <4>1, <6>1, <6>2, WirelessAssumption
        <5> QED BY <5>1, <5>2
      <4> QED BY <2>1, <3>2, <4>2 DEF QueueHasRoom, IsAck
    <3> QED BY <3>1, <3>2
  <2> QED BY <2>1, <2>2 DEF ServiceInv, Holds
<1>7. CASE Requeue
  BY <1>7, <1>c DEF Requeue
<1>8. CASE \E due \in SUBSET WlPending, answer \in BOOLEAN : ServePending(due, answer)
  BY <1>8 DEF ServePending, ServiceInv, Holds
<1>9. CASE putChar \/ flush \/ SendOnAir \/ AddPending \/ AckTimeout
  <2>1. UNCHANGED <<svcPc, svcPkt, rxQ, ackQ>>
    BY <1>9 DEF putChar, flush, SendOnAir, AddPending, AckTimeout, svcVars
  <2> QED BY <2>1, <1>a, <1>b
<1>10. CASE GetAck \/ wireless_get_rx_pkt \/ wireless_flush_rx
  <2>1. UNCHANGED <<svcPc, svcPkt>>
    BY <1>10 DEF GetAck, wireless_get_rx_pkt, wireless_flush_rx, svcVars
  <2>2. /\ rxQ \in Seq(WlPackets) /\ Len(rxQ) \in Nat
        /\ ackQ \in Seq(WlPackets) /\ Len(ackQ) <= 1
    BY <1>0 DEF WirelessTypeOK
  <2>3. rxQ' = rxQ \/ (rxQ # <<>> /\ rxQ' = Tail(rxQ))
    BY <1>10 DEF GetAck, wireless_get_rx_pkt, wireless_flush_rx
  <2>4. ackQ' = ackQ \/ (ackQ # <<>> /\ ackQ' \in {<<>>, Tail(ackQ)})
    BY <1>10 DEF GetAck, wireless_get_rx_pkt, wireless_flush_rx
  <2>5. Len(rxQ') <= Len(rxQ) /\ Len(rxQ') \in Nat
    <3>1. rxQ # <<>> => Len(Tail(rxQ)) = Len(rxQ) - 1 /\ Tail(rxQ) \in Seq(WlPackets)
      BY <2>2, TailPackets
    <3> QED BY <2>2, <2>3, <3>1
  <2>6. ackQ = <<>> => ackQ' = <<>>
    BY <2>4
  <2> QED BY <2>1, <2>2, <2>5, <2>6, <1>a, WirelessAssumption DEF QueueHasRoom, IsAck
<1>11. CASE UNCHANGED wlVars
  <2>1. UNCHANGED <<svcPc, svcPkt, rxQ, ackQ>>
    BY <1>11 DEF wlVars, svcVars
  <2> QED BY <2>1, <1>a, <1>b
<1> QED BY <1>1, <1>2, <1>3, <1>4, <1>5, <1>6, <1>7, <1>8, <1>9, <1>10, <1>11
        DEF WirelessNext, serviceStep, streamStep

-----------------------------------------------------------------------------
(* The order of the data packets.                                          *)
LEMMA DataFrame ==
  ASSUME DataInv, UNCHANGED <<taken, rxQ, radioFifo, arrivals>>,
         Holds' => Holds /\ svcPkt' = svcPkt
  PROVE  DataInv'
<1>1. TakenInv' /\ RxQInv'
  BY DEF DataInv, TakenInv, RxQInv, AllData, Rises, Below
<1>2. HeldInv'
  BY DEF DataInv, HeldInv, Below
<1>3. FifoInv'
  BY DEF DataInv, FifoInv, Below
<1> QED BY <1>1, <1>2, <1>3 DEF DataInv

LEMMA DataHear ==
  ASSUME WlInv, HearData \/ HearAck
  PROVE  DataInv'
<1>0. /\ DataInv /\ WirelessTypeOK /\ ServiceInv
      /\ radioFifo \in Seq(WlPackets) /\ taken \in Seq(WlPackets) /\ rxQ \in Seq(WlPackets)
      /\ arrivals \in Nat
  BY WirelessAssumption DEF WlInv, WirelessTypeOK
<1>1. PICK p \in WlPackets :
        /\ Hear(p) /\ arrivals' \in {arrivals, arrivals + 1}
        /\ p[1] = "data" => arrivals' = arrivals + 1 /\ p[2] = arrivals + 1
  <2>1. CASE HearData
    <3>1. <<"data", arrivals + 1>> \in WlPackets
      BY <2>1, <1>0, PacketsMade, WirelessAssumption DEF HearData
    <3> QED BY <2>1, <3>1 DEF HearData
  <2>2. CASE HearAck
    <3>1. PICK n \in 1 .. flushed : Hear(<<"ack", n>>) /\ arrivals' = arrivals
      BY <2>2 DEF HearAck
    <3>2. n \in Sends
      BY <1>0, <3>1, WirelessAssumption DEF Sends, WirelessTypeOK
    <3>3. <<"ack", n>> \in WlPackets
      BY <3>2, PacketsMade
    <3> QED BY <3>1, <3>3
  <2> QED BY <2>1, <2>2
<1>2. UNCHANGED <<taken, rxQ, svcPc, svcPkt>>
  BY <1>1 DEF Hear, svcVars
<1>3. /\ arrivals' \in Nat /\ arrivals + 1 \in Nat /\ arrivals' + 1 \in Nat
      /\ arrivals <= arrivals' /\ arrivals + 1 <= arrivals' + 1
  <2>1. arrivals \in Nat
    BY <1>0
  <2>2. arrivals' = arrivals \/ arrivals' = arrivals + 1
    BY <1>1
  <2> QED BY <2>1, <2>2
<1>4. Below(taken, arrivals + 1) /\ Below(rxQ, arrivals + 1)
  BY <1>0 DEF DataInv, TakenInv, RxQInv
<1>5. Below(taken, arrivals' + 1) /\ Below(rxQ, arrivals' + 1)
  BY <1>0, <1>3, <1>4, BelowMore
<1>6. TakenInv' /\ RxQInv'
  BY <1>0, <1>2, <1>5 DEF DataInv, TakenInv, RxQInv, AllData, Rises, Below
<1>7. HeldInv'
  <2> SUFFICES ASSUME Holds, svcPkt[1] = "data"
               PROVE  svcPkt[2] <= arrivals' /\ Below(taken, svcPkt[2]) /\ Below(rxQ, svcPkt[2])
    BY <1>2 DEF HeldInv, Holds, Below
  <2>1. svcPkt[2] <= arrivals /\ Below(taken, svcPkt[2]) /\ Below(rxQ, svcPkt[2])
    BY <1>0 DEF DataInv, HeldInv
  <2>2. svcPkt[2] \in Nat
    BY <1>0, PacketParts DEF ServiceInv
  <2> QED BY <2>1, <2>2, <1>0, <1>1
<1>8. FifoInv'
  <2>1. CASE radioFifo' = radioFifo
    <3>1. ASSUME NEW j \in DOMAIN radioFifo PROVE radioFifo[j][2] \in Nat
      <4>1. radioFifo[j] \in WlPackets
        BY <1>0
      <4> QED BY <4>1, PacketParts
    <3>2. \A j \in DOMAIN radioFifo : radioFifo[j][1] = "data" => radioFifo[j][2] <= arrivals'
      BY <1>0, <1>3, <3>1 DEF DataInv, FifoInv
    <3> QED BY <1>0, <1>2, <2>1, <3>2 DEF DataInv, FifoInv, Holds, Below
  <2>2. CASE radioFifo' = Append(radioFifo, p)
    <3>1. /\ \A i \in DOMAIN radioFifo : radioFifo'[i] = radioFifo[i]
          /\ radioFifo'[Len(radioFifo) + 1] = p
          /\ \A i \in DOMAIN radioFifo' : i \in DOMAIN radioFifo \/ i = Len(radioFifo) + 1
          /\ \A i \in DOMAIN radioFifo : i <= Len(radioFifo) /\ i \in Nat
          /\ Len(radioFifo) \in Nat
      BY <1>0, <2>2
    <3>2. ASSUME NEW j \in DOMAIN radioFifo', radioFifo'[j][1] = "data"
          PROVE  /\ radioFifo'[j][2] <= arrivals'
                 /\ Below(taken, radioFifo'[j][2]) /\ Below(rxQ, radioFifo'[j][2])
                 /\ Holds /\ svcPkt[1] = "data" => svcPkt[2] < radioFifo'[j][2]
      <4>1. CASE j \in DOMAIN radioFifo
        <5>1. radioFifo[j] \in WlPackets
          BY <1>0, <4>1
        <5>2. radioFifo[j][2] \in Nat
          BY <5>1, PacketParts
        <5>3. /\ radioFifo[j][2] <= arrivals
              /\ Below(taken, radioFifo[j][2]) /\ Below(rxQ, radioFifo[j][2])
              /\ Holds /\ svcPkt[1] = "data" => svcPkt[2] < radioFifo[j][2]
          BY <1>0, <3>1, <3>2, <4>1 DEF DataInv, FifoInv
        <5> QED BY <1>0, <1>3, <3>1, <4>1, <5>2, <5>3
      <4>2. CASE j = Len(radioFifo) + 1
        <5>1. radioFifo'[j][2] = arrivals + 1 /\ arrivals' = arrivals + 1
          BY <1>1, <3>1, <3>2, <4>2
        <5>2. Holds /\ svcPkt[1] = "data" => svcPkt[2] < arrivals + 1
          <6> SUFFICES ASSUME Holds, svcPkt[1] = "data" PROVE svcPkt[2] < arrivals + 1
            OBVIOUS
          <6>1. svcPkt[2] \in Nat
            BY <1>0, PacketParts DEF ServiceInv
          <6> QED BY <1>0, <6>1 DEF DataInv, HeldInv
        <5> QED BY <1>0, <1>4, <5>1, <5>2
      <4> QED BY <3>1, <4>1, <4>2
    <3>3. ASSUME NEW i \in DOMAIN radioFifo', NEW j \in DOMAIN radioFifo', i < j,
                 radioFifo'[i][1] = "data", radioFifo'[j][1] = "data"
          PROVE  radioFifo'[i][2] < radioFifo'[j][2]
      <4>1. i \in DOMAIN radioFifo
        BY <3>1, <3>3
      <4>2. CASE j \in DOMAIN radioFifo
        BY <1>0, <3>1, <3>3, <4>1, <4>2 DEF DataInv, FifoInv
      <4>3. CASE j = Len(radioFifo) + 1
        <5>1. radioFifo'[j][2] = arrivals + 1
          BY <1>1, <3>1, <3>3, <4>3
        <5>2. radioFifo[i] \in WlPackets
          BY <1>0, <4>1
        <5>3. radioFifo[i][2] \in Nat /\ radioFifo[i][2] <= arrivals
          BY <1>0, <3>1, <3>3, <4>1, <5>2, PacketParts DEF DataInv, FifoInv
        <5> QED BY <1>0, <3>1, <4>1, <5>1, <5>3
      <4> QED BY <3>1, <4>2, <4>3
    <3> QED BY <1>2, <3>2, <3>3 DEF FifoInv, Holds, Below
  <2> QED BY <1>1, <2>1, <2>2 DEF Hear
<1> QED BY <1>6, <1>7, <1>8 DEF DataInv

(* The service task takes the packet at the head of the radio's FIFO.      *)
LEMMA DataRead ==
  ASSUME WlInv, ReadRadio, radioFifo # <<>>
  PROVE  DataInv'
<1>0. /\ DataInv /\ ~ Holds
      /\ radioFifo \in Seq(WlPackets) /\ taken \in Seq(WlPackets) /\ rxQ \in Seq(WlPackets)
  BY DEF WlInv, WirelessTypeOK, ReadRadio, Holds
<1>1. /\ radioFifo' = Tail(radioFifo) /\ svcPkt' = radioFifo[1] /\ 1 \in DOMAIN radioFifo
      /\ UNCHANGED <<taken, rxQ, arrivals>>
      /\ \A i \in DOMAIN radioFifo' :
           i \in Nat \ {0} /\ i + 1 \in DOMAIN radioFifo /\ radioFifo'[i] = radioFifo[i + 1]
  <2>1. /\ Head(radioFifo) = radioFifo[1] /\ 1 \in DOMAIN radioFifo
        /\ DOMAIN Tail(radioFifo) \subseteq Nat \ {0}
        /\ \A i \in DOMAIN Tail(radioFifo) :
             i + 1 \in DOMAIN radioFifo /\ Tail(radioFifo)[i] = radioFifo[i + 1]
    BY <1>0, TailPackets
  <2> QED BY <2>1 DEF ReadRadio, airVars
<1>2. TakenInv' /\ RxQInv'
  BY <1>0, <1>1 DEF DataInv, TakenInv, RxQInv, AllData, Rises, Below
<1>3. HeldInv'
  BY <1>0, <1>1 DEF DataInv, FifoInv, HeldInv, Below
<1>4. FifoInv'
  <2>1. ASSUME NEW i \in DOMAIN radioFifo', NEW j \in DOMAIN radioFifo', i < j,
               radioFifo'[i][1] = "data", radioFifo'[j][1] = "data"
        PROVE  radioFifo'[i][2] < radioFifo'[j][2]
    <3>1. i + 1 \in DOMAIN radioFifo /\ j + 1 \in DOMAIN radioFifo /\ i + 1 < j + 1
      BY <1>1, <2>1
    <3> QED BY <1>0, <1>1, <2>1, <3>1 DEF DataInv, FifoInv
  <2>2. ASSUME NEW j \in DOMAIN radioFifo', radioFifo'[j][1] = "data"
        PROVE  /\ radioFifo'[j][2] <= arrivals'
               /\ Below(taken', radioFifo'[j][2]) /\ Below(rxQ', radioFifo'[j][2])
               /\ svcPkt'[1] = "data" => svcPkt'[2] < radioFifo'[j][2]
    <3>1. j + 1 \in DOMAIN radioFifo /\ 1 < j + 1 /\ radioFifo'[j] = radioFifo[j + 1]
      BY <1>1
    <3> QED BY <1>0, <1>1, <2>2, <3>1 DEF DataInv, FifoInv
  <2> QED BY <1>1, <2>1, <2>2 DEF FifoInv, Below
<1> QED BY <1>2, <1>3, <1>4 DEF DataInv

(* It queues the packet it holds.                                          *)
LEMMA DataPush ==
  ASSUME WlInv, Holds, Push, UNCHANGED <<radioFifo, svcPkt, taken, arrivals>>, ~ Holds'
  PROVE  DataInv'
<1>0. /\ DataInv /\ svcPkt \in WlPackets /\ svcPkt[2] \in Nat /\ arrivals + 1 \in Nat
      /\ radioFifo \in Seq(WlPackets) /\ taken \in Seq(WlPackets) /\ rxQ \in Seq(WlPackets)
  BY PacketParts, WirelessAssumption DEF WlInv, WirelessTypeOK, ServiceInv
<1>1. CASE rxQ' = rxQ
  BY <1>1, DataFrame, <1>0
<1>2. CASE rxQ' # rxQ
  <2>1. rxQ' = Append(rxQ, svcPkt) /\ svcPkt[1] = "data"
    BY <1>0, <1>2, PacketParts DEF Push, IsAck
  <2>2. svcPkt[2] <= arrivals /\ Below(taken, svcPkt[2]) /\ Below(rxQ, svcPkt[2])
    BY <1>0, <2>1 DEF DataInv, HeldInv
  <2>3. AllData(rxQ) /\ Rises(rxQ) /\ Below(rxQ, arrivals + 1)
    BY <1>0 DEF DataInv, RxQInv
  <2>4. svcPkt[2] < arrivals + 1
    BY <1>0, <2>2, WirelessAssumption DEF WlInv, WirelessTypeOK
  <2>5. AllData(rxQ') /\ Rises(rxQ') /\ Below(rxQ', arrivals + 1)
    <3>1. PICK q, k : q = Append(rxQ, svcPkt) /\ k = arrivals + 1
      OBVIOUS
    <3>2. AllData(q) /\ Rises(q) /\ (\A i \in Nat : Below(rxQ, i) /\ svcPkt[2] < i => Below(q, i))
      BY ONLY <1>0, <2>1, <2>2, <2>3, <3>1, AppendPacket
    <3>3. Below(q, k)
      BY ONLY <1>0, <2>3, <2>4, <3>1, <3>2
    <3> QED
      BY ONLY <2>1, <3>1, <3>2, <3>3
  <2>6. \A j \in DOMAIN rxQ' : Below(taken, rxQ'[j][2])
    <3>1. \A j \in DOMAIN rxQ' : rxQ'[j] = svcPkt \/ (j \in DOMAIN rxQ /\ rxQ'[j] = rxQ[j])
      BY <1>0, <2>1
    <3> QED BY <1>0, <2>2, <3>1 DEF DataInv, RxQInv
  <2>7. TakenInv' /\ RxQInv'
    BY <1>0, <2>5, <2>6 DEF DataInv, TakenInv, RxQInv, AllData, Rises, Below
  <2>8. HeldInv'
    BY DEF HeldInv
  <2>9. FifoInv'
    <3>1. ASSUME NEW j \in DOMAIN radioFifo, radioFifo[j][1] = "data"
          PROVE  /\ radioFifo[j][2] <= arrivals
                 /\ Below(taken, radioFifo[j][2]) /\ Below(rxQ', radioFifo[j][2])
      <4>1. /\ radioFifo[j][2] <= arrivals
            /\ Below(taken, radioFifo[j][2]) /\ Below(rxQ, radioFifo[j][2])
            /\ svcPkt[2] < radioFifo[j][2]
        BY <1>0, <2>1, <3>1 DEF DataInv, FifoInv
      <4>2. radioFifo[j] \in WlPackets
        BY <1>0
      <4>3. radioFifo[j][2] \in Nat
        BY <4>2, PacketParts
      <4>4. Below(rxQ', radioFifo[j][2])
        BY <1>0, <2>1, <4>1, <4>3, AppendPacket
      <4> QED BY <4>1, <4>4
    <3> QED BY <1>0, <3>1 DEF DataInv, FifoInv, Below
  <2> QED BY <2>7, <2>8, <2>9 DEF DataInv
<1> QED BY <1>1, <1>2

(* The oldest packet of g_rx_queue leaves it: it is taken, or lost.        *)
LEMMA DataTake ==
  ASSUME WlInv, rxQ # <<>>, rxQ' = Tail(rxQ), taken' = taken \/ taken' = Append(taken, Head(rxQ)),
         UNCHANGED <<radioFifo, svcPkt, arrivals>>, Holds' => Holds
  PROVE  DataInv'
<1>0. /\ DataInv /\ arrivals + 1 \in Nat /\ arrivals \in Nat
      /\ radioFifo \in Seq(WlPackets) /\ taken \in Seq(WlPackets) /\ rxQ \in Seq(WlPackets)
      /\ Holds => svcPkt \in WlPackets
  BY WirelessAssumption DEF WlInv, WirelessTypeOK, ServiceInv
<1>1. /\ Head(rxQ) \in WlPackets /\ Head(rxQ) = rxQ[1] /\ 1 \in DOMAIN rxQ
      /\ \A i \in DOMAIN rxQ' : i \in Nat \ {0} /\ i + 1 \in DOMAIN rxQ /\ rxQ'[i] = rxQ[i + 1]
      /\ AllData(rxQ) => AllData(rxQ')
      /\ Rises(rxQ) => Rises(rxQ')
      /\ \A k \in Nat : Below(rxQ, k) => Below(rxQ', k)
  BY <1>0, TailPackets
<1>2. AllData(rxQ') /\ Rises(rxQ') /\ Below(rxQ', arrivals + 1)
  BY <1>0, <1>1 DEF DataInv, RxQInv
<1>3. /\ AllData(taken) /\ Rises(taken) /\ Below(taken, arrivals + 1) /\ Below(taken, Head(rxQ)[2])
      /\ Head(rxQ)[1] = "data" /\ Head(rxQ)[2] < arrivals + 1
  BY <1>0, <1>1 DEF DataInv, TakenInv, RxQInv, AllData, Below
<1>4. AllData(taken') /\ Rises(taken') /\ Below(taken', arrivals + 1)
  <2>1. CASE taken' = taken
    BY <1>3, <2>1
  <2>2. CASE taken' = Append(taken, Head(rxQ))
    BY <1>0, <1>1, <1>3, <2>2, AppendPacket
  <2> QED BY <2>1, <2>2
<1>5. ASSUME NEW k \in Nat, Below(taken, k), Below(rxQ, k) PROVE Below(taken', k) /\ Below(rxQ', k)
  <2>1. Head(rxQ)[2] < k
    BY <1>1, <1>5 DEF Below
  <2> QED BY <1>0, <1>1, <1>5, <2>1, AppendPacket
<1>6. ASSUME NEW j \in DOMAIN rxQ' PROVE Below(taken', rxQ'[j][2])
  <2>1. /\ j + 1 \in DOMAIN rxQ /\ 1 < j + 1 /\ rxQ'[j] = rxQ[j + 1]
    BY <1>1
  <2>2. Head(rxQ)[2] < rxQ'[j][2] /\ Below(taken, rxQ'[j][2])
    BY <1>0, <1>1, <2>1 DEF DataInv, RxQInv, Rises
  <2>3. rxQ'[j] \in WlPackets
    BY <1>0, <2>1
  <2>4. rxQ'[j][2] \in Nat
    BY <2>3, PacketParts
  <2>5. CASE taken' = taken
    BY <2>2, <2>5
  <2>6. CASE taken' = Append(taken, Head(rxQ))
    BY <1>0, <1>1, <2>2, <2>4, <2>6, AppendPacket
  <2> QED BY <1>0, <2>5, <2>6
<1>7. TakenInv' /\ RxQInv'
  BY <1>0, <1>2, <1>4, <1>6 DEF TakenInv, RxQInv, AllData, Rises, Below
<1>8. HeldInv'
  <2> SUFFICES ASSUME Holds, svcPkt[1] = "data"
               PROVE  svcPkt[2] <= arrivals /\ Below(taken', svcPkt[2]) /\ Below(rxQ', svcPkt[2])
    BY DEF HeldInv, Below
  <2>1. svcPkt[2] \in Nat
    BY <1>0, PacketParts
  <2>2. svcPkt[2] <= arrivals /\ Below(taken, svcPkt[2]) /\ Below(rxQ, svcPkt[2])
    BY <1>0 DEF DataInv, HeldInv
  <2> QED BY <1>5, <2>1, <2>2
<1>9. FifoInv'
  <2>1. ASSUME NEW j \in DOMAIN radioFifo, radioFifo[j][1] = "data"
        PROVE  /\ radioFifo[j][2] <= arrivals
               /\ Below(taken', radioFifo[j][2]) /\ Below(rxQ', radioFifo[j][2])
               /\ Holds /\ svcPkt[1] = "data" => svcPkt[2] < radioFifo[j][2]
    <3>1. /\ radioFifo[j][2] <= arrivals
          /\ Below(taken, radioFifo[j][2]) /\ Below(rxQ, radioFifo[j][2])
          /\ Holds /\ svcPkt[1] = "data" => svcPkt[2] < radioFifo[j][2]
      BY <1>0, <2>1 DEF DataInv, FifoInv
    <3>2. radioFifo[j] \in WlPackets
      BY <1>0
    <3>3. radioFifo[j][2] \in Nat
      BY <3>2, PacketParts
    <3> QED BY <1>5, <3>1, <3>3
  <2> QED BY <1>0, <2>1 DEF DataInv, FifoInv, Below
<1> QED BY <1>7, <1>8, <1>9 DEF DataInv

LEMMA WlDataStep == WlInv /\ [WirelessNext]_wlVars => DataInv'
<1> SUFFICES ASSUME WlInv, [WirelessNext]_wlVars PROVE DataInv'
  OBVIOUS
<1>0. DataInv
  BY DEF WlInv
<1>1. CASE HearData \/ HearAck
  BY <1>1, DataHear
<1>2. CASE TestSignal \/ TakeActivitySem \/ NapEnds \/ ServiceLocked \/ LookAgain \/ ClearSignalFlag
  BY <1>0, <1>2, DataFrame
  DEF TestSignal, TakeActivitySem, NapEnds, ServiceLocked, LookAgain, ClearSignalFlag, Holds, airVars
<1>3. CASE ReadRadio
  <2>1. CASE radioFifo = <<>>
    BY <1>0, <1>3, <2>1, DataFrame DEF ReadRadio, Holds, airVars
  <2> QED BY <1>3, <2>1, DataRead
<1>4. CASE AppRecv
  <2>1. CASE QueueHasRoom
    BY <1>4, <2>1, DataPush DEF AppRecv, Holds, airVars
  <2>2. CASE ~ QueueHasRoom
    BY <1>0, <1>4, <2>2, DataFrame DEF AppRecv, Holds, airVars
  <2> QED BY <2>1, <2>2
<1>5. CASE Discard
  <2>1. CASE rxQ' = rxQ
    BY <1>0, <1>5, <2>1, DataFrame DEF Discard, Holds, airVars
  <2>2. CASE rxQ' # rxQ
    BY <1>5, <2>2, DataTake DEF Discard, Holds, airVars
  <2> QED BY <2>1, <2>2
<1>6. CASE Requeue
  <2>1. CASE QueueHasRoom
    BY <1>6, <2>1, DataPush DEF Requeue, Holds, airVars
  <2>2. CASE ~ QueueHasRoom
    BY <1>0, <1>6, <2>2, DataFrame DEF Requeue, Holds, airVars
  <2> QED BY <2>1, <2>2
<1>7. CASE \E due \in SUBSET WlPending, answer \in BOOLEAN : ServePending(due, answer)
  BY <1>0, <1>7, DataFrame DEF ServePending, Holds, airVars
<1>8. CASE putChar \/ flush \/ SendOnAir \/ AddPending \/ AckTimeout \/ GetAck
  <2>1. UNCHANGED <<taken, rxQ, radioFifo, arrivals, svcPc, svcPkt>>
    BY <1>8 DEF putChar, flush, SendOnAir, AddPending, AckTimeout, GetAck, svcVars, airVars
  <2> QED BY <1>0, <2>1, DataFrame DEF Holds
<1>9. CASE wireless_get_rx_pkt
  BY <1>9, DataTake DEF wireless_get_rx_pkt, Holds, svcVars, airVars
<1>10. CASE wireless_flush_rx
  <2>1. CASE rxQ = <<>>
    BY <1>0, <1>10, <2>1, DataFrame DEF wireless_flush_rx, Holds, svcVars, airVars
  <2>2. CASE rxQ # <<>>
    BY <1>10, <2>2, DataTake DEF wireless_flush_rx, Holds, svcVars, airVars
  <2> QED BY <2>1, <2>2
<1>11. CASE UNCHANGED wlVars
  BY <1>0, <1>11, DataFrame DEF wlVars, svcVars, airVars, Holds
<1> QED BY <1>1, <1>2, <1>3, <1>4, <1>5, <1>6, <1>7, <1>8, <1>9, <1>10, <1>11
        DEF WirelessNext, serviceStep, streamStep

-----------------------------------------------------------------------------
(* The acknowledgement on its way.                                         *)
LEMMA AckFrame ==
  ASSUME AckInv, UNCHANGED <<radioFifo, ackQ, expired, strPc, flushed, acked, reacked>>,
         Holds' => Holds /\ svcPkt' = svcPkt
  PROVE  AckInv'
<1>1. InFifo' = InFifo /\ (InHand' => InHand)
  BY DEF InFifo, InHand
<1>2. OnItsWay' => OnItsWay
  BY <1>1 DEF OnItsWay
<1> QED BY <1>1, <1>2 DEF AckInv, AcksMatch

LEMMA AckHear ==
  ASSUME WlInv, HearData \/ HearAck
  PROVE  AckInv'
<1>0. /\ AckInv /\ radioFifo \in Seq(WlPackets) /\ Len(radioFifo) \in Nat /\ DOMAIN radioFifo = 1 .. Len(radioFifo)
      /\ flushed \in Nat
  BY WirelessAssumption DEF WlInv, WirelessTypeOK
<1>1. CASE HearData
  <2>1. UNCHANGED <<ackQ, expired, strPc, flushed, acked, reacked, svcPc, svcPkt>>
    BY <1>1 DEF HearData, Hear, svcVars, strVars
  <2>2. radioFifo' = radioFifo \/ radioFifo' = Append(radioFifo, <<"data", arrivals + 1>>)
    BY <1>1 DEF HearData, Hear
  <2>3. InFifo' = InFifo
    <3>1. CASE radioFifo' = radioFifo
      BY <3>1 DEF InFifo
    <3>2. CASE radioFifo' = Append(radioFifo, <<"data", arrivals + 1>>)
      <4>1. <<"data", arrivals + 1>>[1] # "ack"
        OBVIOUS
      <4> HIDE <1>1
      <4>2. /\ \A i \in DOMAIN radioFifo : i \in DOMAIN radioFifo' /\ radioFifo'[i] = radioFifo[i]
            /\ \A i \in DOMAIN radioFifo' :
                 i \in DOMAIN radioFifo \/ radioFifo'[i] = <<"data", arrivals + 1>>
        BY <1>0, <3>2
      <4> QED BY <4>1, <4>2 DEF InFifo
    <3> QED BY <2>2, <3>1, <3>2
  <2>4. InHand' = InHand /\ OnItsWay' = OnItsWay
    BY <2>1, <2>3 DEF InHand, OnItsWay, Holds
  <2> QED BY <1>0, <2>1, <2>3, <2>4 DEF AckInv, AcksMatch
<1>2. CASE HearAck
  <2>1. PICK n \in 1 .. flushed :
          /\ n = flushed => strPc # "send"
          /\ acked' = acked \cup {n} /\ reacked' = reacked \cup (acked \cap {n})
          /\ Hear(<<"ack", n>>)
    BY <1>2 DEF HearAck
  <2>2. UNCHANGED <<ackQ, expired, strPc, flushed, svcPc, svcPkt>>
    BY <2>1 DEF Hear, svcVars, strVars
  <2> SUFFICES ASSUME AcksMatch' PROVE AckInv'
    BY <2>2 DEF AckInv, AcksMatch
  <2>a. AcksMatch /\ n \notin acked
    BY <2>1, <2>2 DEF AcksMatch
  <2>3. n = flushed /\ strPc # "idle" /\ strPc # "send"
    BY <1>0, <2>1, <2>a DEF AckInv
  <2>4. ~ OnItsWay
    BY <1>0, <2>a, <2>3 DEF AckInv
  <2>5. InFifo = {} /\ ~ InHand /\ ackQ = <<>>
    BY <2>4 DEF OnItsWay
  <2>6. InFifo' \subseteq {Len(radioFifo) + 1}
    <3>1. radioFifo' = radioFifo \/ radioFifo' = Append(radioFifo, <<"ack", n>>)
      BY <2>1 DEF Hear
    <3>2. \A i \in DOMAIN radioFifo' :
            i = Len(radioFifo) + 1 \/ (i \in DOMAIN radioFifo /\ radioFifo'[i] = radioFifo[i])
      BY <1>0, <3>1
    <3> QED BY <2>5, <3>2 DEF InFifo
  <2>7. ~ InHand' /\ ackQ' = <<>>
    BY <2>2, <2>5 DEF InHand, Holds
  <2>8. 1 .. (flushed - 1) \subseteq acked' /\ flushed \in acked' /\ flushed > 0
    BY <1>0, <2>1, <2>a, <2>3 DEF AckInv
  <2> QED BY <2>2, <2>3, <2>6, <2>7, <2>8 DEF AckInv, AcksMatch
<1> QED BY <1>1, <1>2

LEMMA AckRead ==
  ASSUME WlInv, ReadRadio, radioFifo # <<>>
  PROVE  AckInv'
<1>0. /\ AckInv /\ ~ Holds /\ radioFifo \in Seq(WlPackets)
      /\ UNCHANGED <<ackQ, expired, strPc, flushed, acked, reacked>>
  BY DEF WlInv, WirelessTypeOK, ReadRadio, Holds, strVars, airVars
<1>1. /\ Head(radioFifo) = radioFifo[1] /\ 1 \in DOMAIN radioFifo
      /\ DOMAIN Tail(radioFifo) \subseteq Nat \ {0}
      /\ \A i \in DOMAIN Tail(radioFifo) :
           i + 1 \in DOMAIN radioFifo /\ Tail(radioFifo)[i] = radioFifo[i + 1]
  BY <1>0, TailPackets
<1>2. radioFifo' = Tail(radioFifo) /\ svcPkt' = radioFifo[1]
  BY <1>1 DEF ReadRadio
<1>3. \A i \in InFifo' : i \in Nat \ {0} /\ i + 1 \in InFifo
  BY <1>1, <1>2 DEF InFifo
<1>4. InHand' => 1 \in InFifo
  BY <1>1, <1>2 DEF InHand, InFifo
<1>5. OnItsWay' => OnItsWay
  BY <1>0, <1>3, <1>4 DEF OnItsWay
<1> SUFFICES ASSUME AcksMatch' PROVE AckInv'
  BY <1>0 DEF AckInv, AcksMatch
<1>6. \A i, j \in InFifo : i = j
  BY <1>0 DEF AckInv, AcksMatch
<1>7. \A i, j \in InFifo' : i = j
  BY <1>3, <1>6
<1>8. InFifo' # {} => ~ InHand'
  <2> SUFFICES ASSUME InHand', NEW i \in InFifo' PROVE FALSE
    OBVIOUS
  <2>1. i + 1 = 1
    BY <1>3, <1>4, <1>6
  <2> QED BY <2>1, <1>3
<1>9. InFifo' # {} \/ InHand' => ackQ' = <<>>
  <2>1. InFifo' # {} \/ InHand' => InFifo # {}
    BY <1>3, <1>4
  <2> QED BY <2>1, <1>0 DEF AckInv, AcksMatch
<1> QED BY <1>0, <1>5, <1>7, <1>8, <1>9 DEF AckInv, AcksMatch

LEMMA AckPush ==
  ASSUME WlInv, Holds, Push, QueueHasRoom, ~ Holds',
         UNCHANGED <<radioFifo, expired, strPc, flushed, acked, reacked>>
  PROVE  AckInv'
<1>0. AckInv
  BY DEF WlInv
<1>1. CASE ackQ' = ackQ
  BY <1>0, <1>1, AckFrame
<1>2. CASE ackQ' # ackQ
  <2>1. InHand
    BY <1>2 DEF Push, InHand, IsAck
  <2>2. InFifo' = InFifo /\ ~ InHand'
    BY DEF InFifo, InHand
  <2>3. OnItsWay
    BY <2>1 DEF OnItsWay
  <2> QED BY <1>0, <2>1, <2>2, <2>3 DEF AckInv, AcksMatch
<1> QED BY <1>1, <1>2

(* A packet leaves ackQ.                                                   *)
LEMMA AckLess ==
  ASSUME WlInv, ackQ' = <<>>, Holds' => Holds /\ svcPkt' = svcPkt,
         UNCHANGED <<radioFifo, expired, strPc, flushed, acked, reacked>>
  PROVE  AckInv'
<1>0. AckInv
  BY DEF WlInv
<1>1. InFifo' = InFifo /\ (InHand' => InHand)
  BY DEF InFifo, InHand
<1>2. OnItsWay' => OnItsWay
  BY <1>1 DEF OnItsWay
<1> QED BY <1>0, <1>1, <1>2 DEF AckInv, AcksMatch

LEMMA AckStream ==
  ASSUME WlInv, putChar \/ flush \/ streamStep
  PROVE  AckInv'
<1>0. AckInv /\ flushed \in Nat /\ ackQ \in Seq(WlPackets) /\ Len(ackQ) <= 1 /\ acked \subseteq 1 .. flushed
  BY WirelessAssumption DEF WlInv, WirelessTypeOK
<1>1. UNCHANGED <<radioFifo, svcPc, svcPkt, acked, reacked>>
  BY DEF putChar, flush, streamStep, SendOnAir, AddPending, GetAck, AckTimeout, svcVars, airVars
<1>2. InFifo' = InFifo /\ InHand' = InHand
  BY <1>1 DEF InFifo, InHand, Holds
<1>3. CASE putChar \/ flush
  <2>1. expired' = expired /\ ackQ' = ackQ /\ strPc = "idle"
    BY <1>3 DEF putChar, flush, StartFlush
  <2>2. OnItsWay' = OnItsWay
    BY <1>2, <2>1 DEF OnItsWay
  <2> SUFFICES ASSUME AcksMatch' PROVE AckInv'
    BY <2>1 DEF AckInv, AcksMatch
  <2>3. ~ OnItsWay /\ acked = 1 .. flushed
    BY <1>0, <1>1, <2>1 DEF AckInv, AcksMatch
  <2>4. CASE strPc' = strPc /\ flushed' = flushed
    BY <1>0, <1>1, <1>2, <2>1, <2>2, <2>4 DEF AckInv, AcksMatch
  <2>5. CASE strPc' = "send" /\ flushed' = flushed + 1
    <3>1. 1 .. (flushed' - 1) \subseteq acked' /\ flushed' \notin acked' /\ flushed' > 0
      BY <1>0, <1>1, <2>3, <2>5
    <3>2. InFifo' = {} /\ ~ InHand' /\ ackQ' = <<>>
      BY <1>2, <2>1, <2>3 DEF OnItsWay
    <3> QED BY <2>2, <2>3, <2>5, <3>1, <3>2 DEF AckInv, AcksMatch
  <2> QED BY <1>3, <2>4, <2>5 DEF putChar, flush, StartFlush
<1>4. CASE SendOnAir \/ AddPending
  <2>1. /\ UNCHANGED <<expired, flushed, ackQ>> /\ strPc # "idle" /\ strPc' \notin {"idle", "send"}
    BY <1>4 DEF SendOnAir, AddPending
  <2>2. OnItsWay' = OnItsWay
    BY <1>2, <2>1 DEF OnItsWay
  <2> QED BY <1>0, <1>1, <1>2, <2>1, <2>2 DEF AckInv, AcksMatch
<1>5. CASE GetAck
  <2>1. /\ UNCHANGED <<expired, flushed>> /\ ackQ' = <<>> /\ ackQ # <<>>
        /\ strPc = "wait" /\ strPc' = "idle"
    BY <1>0, <1>5 DEF GetAck
  <2> SUFFICES ASSUME AcksMatch' PROVE AckInv'
    BY <2>1 DEF AckInv, AcksMatch
  <2>2. OnItsWay
    BY <2>1 DEF OnItsWay
  <2>3. InFifo = {} /\ ~ InHand
    BY <1>0, <1>1, <2>1 DEF AckInv, AcksMatch
  <2>4. ~ OnItsWay'
    BY <1>2, <2>1, <2>3 DEF OnItsWay
  <2>5. 1 .. (flushed - 1) \subseteq acked /\ flushed \in acked
    BY <1>0, <1>1, <2>1, <2>2 DEF AckInv, AcksMatch
  <2>6. 1 .. flushed \subseteq acked
    BY <1>0, <2>5
  <2> QED BY <1>1, <1>2, <2>1, <2>3, <2>4, <2>5, <2>6 DEF AckInv, AcksMatch
<1>6. CASE AckTimeout
  BY <1>6 DEF AckTimeout, AckInv, AcksMatch
<1> QED BY <1>3, <1>4, <1>5, <1>6 DEF streamStep

LEMMA WlAckStep == WlInv /\ [WirelessNext]_wlVars => AckInv'
<1> SUFFICES ASSUME WlInv, [WirelessNext]_wlVars PROVE AckInv'
  OBVIOUS
<1>0. AckInv
  BY DEF WlInv
<1>1. CASE HearData \/ HearAck
  BY <1>1, AckHear
<1>2. CASE TestSignal \/ TakeActivitySem \/ NapEnds \/ ServiceLocked \/ LookAgain \/ ClearSignalFlag
  BY <1>0, <1>2, AckFrame
  DEF TestSignal, TakeActivitySem, NapEnds, ServiceLocked, LookAgain, ClearSignalFlag, Holds,
      strVars, airVars
<1>3. CASE ReadRadio
  <2>1. CASE radioFifo = <<>>
    BY <1>0, <1>3, <2>1, AckFrame DEF ReadRadio, Holds, strVars, airVars
  <2> QED BY <1>3, <2>1, AckRead
<1>4. CASE AppRecv \/ Requeue
  <2>1. CASE QueueHasRoom
    BY <1>4, <2>1, AckPush DEF AppRecv, Requeue, Holds, strVars, airVars
  <2>2. CASE ~ QueueHasRoom
    BY <1>0, <1>4, <2>2, AckFrame DEF AppRecv, Requeue, Holds, strVars, airVars
  <2> QED BY <2>1, <2>2
<1>5. CASE Discard
  <2>1. CASE ackQ' = ackQ
    BY <1>0, <1>5, <2>1, AckFrame DEF Discard, Holds, strVars, airVars
  <2>2. CASE ackQ' # ackQ
    BY <1>5, <2>2, AckLess DEF Discard, Holds, strVars, airVars
  <2> QED BY <2>1, <2>2
<1>6. CASE \E due \in SUBSET WlPending, answer \in BOOLEAN : ServePending(due, answer)
  BY <1>0, <1>6, AckFrame DEF ServePending, Holds, strVars, airVars
<1>7. CASE putChar \/ flush \/ streamStep
  BY <1>7, AckStream
<1>8. CASE wireless_get_rx_pkt
  BY <1>0, <1>8, AckFrame DEF wireless_get_rx_pkt, Holds, svcVars, strVars, airVars
<1>9. CASE wireless_flush_rx
  <2>1. CASE ackQ' = ackQ
    BY <1>0, <1>9, <2>1, AckFrame DEF wireless_flush_rx, Holds, svcVars, strVars, airVars
  <2>2. CASE ackQ' # ackQ
    BY <1>9, <2>2, AckLess DEF wireless_flush_rx, Holds, svcVars, strVars, airVars
  <2> QED BY <2>1, <2>2
<1>10. CASE UNCHANGED wlVars
  BY <1>0, <1>10, AckFrame DEF wlVars, svcVars, strVars, airVars, Holds
<1> QED BY <1>1, <1>2, <1>3, <1>4, <1>5, <1>6, <1>7, <1>8, <1>9, <1>10
        DEF WirelessNext, serviceStep

-----------------------------------------------------------------------------
LEMMA WlInitInv == WirelessInit => WlInv
<1> SUFFICES ASSUME WirelessInit PROVE WlInv
  OBVIOUS
<1>1. WirelessTypeOK
  BY WlInitType
<1>2. ServiceInv
  BY DEF WirelessInit, ServiceInv, Holds
<1>3. DOMAIN radioFifo = {} /\ DOMAIN rxQ = {} /\ DOMAIN taken = {}
  BY DEF WirelessInit
<1>4. DataInv
  BY <1>3 DEF WirelessInit, DataInv, TakenInv, RxQInv, HeldInv, FifoInv, Holds, AllData, Rises, Below
<1>5. InFifo = {} /\ ~ InHand /\ ~ OnItsWay
  BY <1>3 DEF InFifo, InHand, OnItsWay, WirelessInit, Holds
<1>6. AckInv
  BY <1>5 DEF WirelessInit, AckInv, AcksMatch
<1>7. FlushedInv
  BY DEF WirelessInit, FlushedInv
<1> QED BY <1>1, <1>2, <1>4, <1>6, <1>7 DEF WlInv

LEMMA WlFlushedStep == WlInv /\ [WirelessNext]_wlVars => FlushedInv'
<1> SUFFICES ASSUME WlInv, [WirelessNext]_wlVars PROVE FlushedInv'
  OBVIOUS
<1>0. FlushedInv /\ flushed \in Nat
  BY WirelessAssumption DEF WlInv, WirelessTypeOK
<1>1. CASE putChar \/ flush \/ streamStep
  BY <1>0, <1>1 DEF putChar, flush, StartFlush, streamStep, SendOnAir, AddPending, GetAck, AckTimeout, FlushedInv
<1>2. CASE UNCHANGED <<flushOk, strPc, flushed>>
  BY <1>0, <1>2 DEF FlushedInv
<1>3. CASE HearData \/ HearAck \/ wireless_get_rx_pkt \/ wireless_flush_rx \/ UNCHANGED wlVars
  BY <1>2, <1>3 DEF HearData, HearAck, Hear, wireless_get_rx_pkt, wireless_flush_rx, strVars, wlVars
<1>4. CASE serviceStep
  BY <1>2, <1>4 DEF serviceStep, TestSignal, TakeActivitySem, NapEnds, ServiceLocked, ReadRadio, LookAgain,
                    ClearSignalFlag, AppRecv, Discard, Requeue, ServePending, strVars
<1> QED BY <1>1, <1>3, <1>4 DEF WirelessNext

LEMMA WlNextInv == WlInv /\ [WirelessNext]_wlVars => WlInv'
BY WlStepType, WlServiceStep, WlDataStep, WlAckStep, WlFlushedStep DEF WlInv

(* Every variable of the wireless service keeps its type, and what follows *)
(* the packets on their way is an invariant, however often the packets of  *)
(* the stream are retried and acknowledged.                                *)
THEOREM ServiceInvariance == WirelessSpec => []WlInv
BY WlInitInv, WlNextInv, PTL DEF WirelessSpec

(* NordicStream::flush() does not return true for a packet that was not    *)
(* acknowledged, as long as no flush() has timed out and no earlier packet *)
(* was acknowledged again after a retry.  If the packet itself was         *)
(* acknowledged more than once there is nothing to show; otherwise the     *)
(* acknowledgement it finds in g_ack_queue is the only one on its way.     *)
THEOREM FlushIsTrue == WirelessSpec => []FlushTrueMeansAcked
<1>1. WlInv => FlushTrueMeansAcked
  <2> SUFFICES ASSUME WlInv, strPc = "idle", flushOk, ~ expired, reacked \cap (1 .. (flushed - 1)) = {}
               PROVE  flushed \in acked
    BY DEF FlushTrueMeansAcked
  <2>1. /\ flushed \in Nat /\ flushed > 0 /\ AckInv
        /\ reacked \subseteq acked /\ acked \subseteq 1 .. flushed
    BY WirelessAssumption DEF WlInv, FlushedInv, WirelessTypeOK
  <2>2. CASE flushed \in reacked
    BY <2>1, <2>2
  <2>3. CASE flushed \notin reacked
    <3>1. reacked = {}
      BY <2>1, <2>3
    <3>2. 1 .. flushed \subseteq acked
      BY <2>1, <3>1 DEF AckInv, AcksMatch
    <3> QED BY <2>1, <3>2
  <2> QED BY <2>2, <2>3
<1> QED BY <1>1, ServiceInvariance, PTL

(* The packets taken from g_rx_queue and those in it are in the order they *)
(* arrived in, and the packet that nrf_driver_app_recv() has just received *)
(* is in its queue when it returns: no task but the service's puts packets *)
(* into the queues, so the room it has made is still there.                *)
THEOREM NewestKept == WirelessSpec => NewestIsKept
<1>1. WlInv => ReceivedInSequence
  <2> SUFFICES ASSUME WlInv, NEW i \in DOMAIN (taken \o rxQ), NEW j \in DOMAIN (taken \o rxQ), i < j
               PROVE  (taken \o rxQ)[i][2] < (taken \o rxQ)[j][2]
    BY DEF ReceivedInSequence
  <2>1. taken \in Seq(WlPackets) /\ rxQ \in Seq(WlPackets)
    BY DEF WlInv, WirelessTypeOK
  <2>2. /\ Rises(taken) /\ Rises(rxQ)
        /\ \A k \in DOMAIN rxQ : Below(taken, rxQ[k][2])
    BY DEF WlInv, DataInv, TakenInv, RxQInv
  <2>3. \A k \in DOMAIN (taken \o rxQ) :
          \/ k \in DOMAIN taken /\ (taken \o rxQ)[k] = taken[k]
          \/ k - Len(taken) \in DOMAIN rxQ /\ (taken \o rxQ)[k] = rxQ[k - Len(taken)]
    BY <2>1
  <2>4. /\ Len(taken) \in Nat /\ DOMAIN taken = 1 .. Len(taken) /\ i \in Nat /\ j \in Nat
        /\ \A k \in DOMAIN rxQ : k > 0
    BY <2>1
  <2>5. CASE i \in DOMAIN taken /\ j \in DOMAIN taken
    BY <2>2, <2>3, <2>4, <2>5 DEF Rises
  <2>6. CASE i \in DOMAIN taken /\ j \notin DOMAIN taken
    BY <2>2, <2>3, <2>4, <2>6 DEF Below
  <2>7. CASE i \notin DOMAIN taken
    <3>1. i - Len(taken) \in DOMAIN rxQ /\ j - Len(taken) \in DOMAIN rxQ
      BY <2>3, <2>4, <2>7
    <3>2. (taken \o rxQ)[i] = rxQ[i - Len(taken)] /\ (taken \o rxQ)[j] = rxQ[j - Len(taken)]
      BY <2>3, <2>4, <2>7
    <3>3. i - Len(taken) < j - Len(taken)
      BY <2>4
    <3> QED BY <2>2, <3>1, <3>2, <3>3 DEF Rises
  <2> QED BY <2>5, <2>6, <2>7
<1>2. ASSUME NEW p \in WlPackets, rxQ' = Append(rxQ, p) \/ ackQ' = Append(ackQ, p),
             rxQ' \in Seq(WlPackets), ackQ' \in Seq(WlPackets), WirelessTypeOK
      PROVE  p \in Range(rxQ' \o ackQ')
  <2>0. rxQ \in Seq(WlPackets) /\ ackQ \in Seq(WlPackets)
    BY <1>2 DEF WirelessTypeOK
  <2>1. \E k \in DOMAIN (rxQ' \o ackQ') : (rxQ' \o ackQ')[k] = p
    <3>1. CASE rxQ' = Append(rxQ, p)
      <4>1. Len(rxQ) + 1 \in DOMAIN (rxQ' \o ackQ') /\ (rxQ' \o ackQ')[Len(rxQ) + 1] = p
        BY <1>2, <2>0, <3>1
      <4> QED BY <4>1
    <3>2. CASE ackQ' = Append(ackQ, p)
      <4>1. /\ Len(rxQ') + Len(ackQ') \in DOMAIN (rxQ' \o ackQ')
            /\ (rxQ' \o ackQ')[Len(rxQ') + Len(ackQ')] = p
        BY <1>2, <2>0, <3>2
      <4> QED BY <4>1
    <3> QED BY <1>2, <3>1, <3>2
  <2> QED BY <2>1 DEF Range
<1>3. WlInv /\ WlInv' /\ [WirelessNext]_wlVars => [NewestIsQueued]_wlVars
  <2> SUFFICES ASSUME WlInv, WlInv', WirelessNext, svcPc # "pending", svcPc' = "pending", svcPkt # NoPacket
               PROVE  svcPkt \in Range(rxQ' \o ackQ')
    BY DEF NewestIsQueued
  <2>0. /\ WirelessTypeOK /\ ServiceInv
        /\ rxQ' \in Seq(WlPackets) /\ ackQ' \in Seq(WlPackets)
    BY DEF WlInv, WirelessTypeOK
  <2>1. ASSUME Holds, Push PROVE svcPkt \in Range(rxQ' \o ackQ')
    <3>1. svcPkt \in WlPackets
      BY <2>0, <2>1 DEF ServiceInv
    <3> QED BY <1>2, <2>0, <2>1, <3>1 DEF Push
  <2>2. CASE AppRecv
    BY <2>1, <2>2 DEF AppRecv, Holds
  <2>3. CASE Requeue
    BY <2>0, <2>1, <2>3 DEF Requeue, Holds, ServiceInv
  <2>4. CASE ReadRadio
    BY <2>0, <2>4 DEF ReadRadio, ServiceInv
  <2>5. CASE TestSignal \/ TakeActivitySem \/ NapEnds \/ ServiceLocked \/ LookAgain \/ ClearSignalFlag \/ Discard
    BY <2>5 DEF TestSignal, TakeActivitySem, NapEnds, ServiceLocked, LookAgain, ClearSignalFlag, Discard
  <2>6. CASE \E due \in SUBSET WlPending, answer \in BOOLEAN : ServePending(due, answer)
    BY <2>6 DEF ServePending
  <2>7. CASE \/ HearData \/ HearAck
             \/ putChar \/ flush \/ streamStep
             \/ wireless_get_rx_pkt \/ wireless_flush_rx
    <3>1. svcPc' = svcPc
      BY <2>7 DEF HearData, HearAck, Hear, putChar, flush, streamStep, SendOnAir, AddPending, GetAck,
                  AckTimeout, wireless_get_rx_pkt, wireless_flush_rx, svcVars
    <3> QED BY <3>1
  <2> QED BY <2>2, <2>3, <2>4, <2>5, <2>6, <2>7 DEF WirelessNext, serviceStep
<1>4. WirelessSpec => []ReceivedInSequence
  BY <1>1, ServiceInvariance, PTL
<1>5. WirelessSpec => [][NewestIsQueued]_wlVars
  BY <1>3, ServiceInvariance, PTL DEF WirelessSpec
<1> QED BY <1>4, <1>5 DEF NewestIsKept

-----------------------------------------------------------------------------
(* The mesh: what a node keeps when all packets come from a set P.         *)

(* What a node keeps when every packet it has to do with is in P.          *)
Routes == [next : Nodes, hops : 0 .. 15] \cup {None}
HistEntries == [src : Nodes, id : 0 .. 255, retries : 0 .. 7]
Pending(P) == [pkt : {p \in P : p.dst # Broadcast}, disc : BOOLEAN]
Slot(P) == Pending(P) \cup {None}
NodeStates(P) ==
  [routes : [Nodes -> Routes], hist : Seq(HistEntries),
   others : [1 .. MaxNodes -> Slot(P)], ours : [1 .. MaxPendPkts -> Slot(P)],
   seq : 0 .. 255, out : Seq(P), up : SUBSET P]

(* P has, with a packet, what becomes of it on its way: it keeps source,   *)
(* destination, number and type, and, as a broadcast, its retries.         *)
Closed(P) ==
  /\ P \subseteq Packets
  /\ \A p \in P, q \in Packets :
       q.src = p.src /\ q.dst = p.dst /\ q.id = p.id /\ q.type = p.type /\ q.full = p.full
         /\ (p.dst = Broadcast => q.retries = p.retries) => q \in P

(* P has the packets that n forms in state s.                              *)
Forms(P, n, s) ==
  \A p \in Packets : p.src = n /\ p.dst # Broadcast /\ p.id = (s.seq + 1) % 256 => p \in P

LEMMA MeshConstants ==
  /\ MaxNodes \in Nat /\ MaxNodes > 1 /\ MaxPendPkts \in Nat /\ MaxPendPkts > 1
  /\ RetryCount \in 0 .. 7 /\ DiscoveryHops \in 0 .. 15
  /\ Zero \notin Nodes /\ Broadcast \notin Nodes /\ None \notin Nodes
  /\ FifoSize \in Nat /\ FifoSize > 0 /\ MaxLosses \in Nat /\ MaxEarly \in Nat
  /\ \A n \in Nodes : Neighbours[n] \subseteq Nodes
BY MeshAssumption

LEMMA LeastNatural ==
  ASSUME NEW S \in SUBSET Nat, S # {}
  PROVE  \E x \in S : \A y \in S : x <= y
<1> DEFINE R == OpToRel(<, Nat)
<1>1. IsWellFoundedOn(R, Nat)
  BY NatLessThanWellFounded
<1>2. \E x \in S : \A y \in S : ~ (<<y, x>> \in R)
  <2> HIDE DEF R
  <2> QED BY <1>1, WFMin
<1>3. PICK x \in S : \A y \in S : ~ (<<y, x>> \in R)
  BY <1>2
<1>4. ASSUME NEW y \in S PROVE x <= y
  <2>1. ~ (<<y, x>> \in R)
    BY <1>3
  <2>2. x \in Nat /\ y \in Nat
    OBVIOUS
  <2>3. ~ (y < x)
    BY <2>1, <2>2 DEF OpToRel
  <2> HIDE DEF R
  <2> QED BY <2>2, <2>3
<1> HIDE DEF R
<1> QED BY <1>3, <1>4

(* A change of one field, and of several.                                  *)
LEMMA MaxChanges ==
  ASSUME NEW P, Closed(P), NEW p \in P, NEW x \in 0 .. 15
  PROVE  [p EXCEPT !.max = x] \in P /\ [p EXCEPT !.max = x].dst = p.dst
<1>1. p \in Packets
  BY DEF Closed
<1>2. [p EXCEPT !.max = x] \in Packets
  BY ONLY <1>1, x \in 0 .. 15 DEF Packets
<1>3. [p EXCEPT !.max = x] \in P
  BY ONLY <1>1, <1>2, Closed(P), p \in P DEF Closed, Packets
<1>4. [p EXCEPT !.max = x].dst = p.dst
  BY ONLY <1>1 DEF Packets
<1> QED
  BY <1>3, <1>4

LEMMA FieldChanges ==
  ASSUME NEW P, Closed(P), NEW p \in P, NEW m \in Nodes, NEW z \in Nodes \cup {Zero}, NEW r \in 0 .. 7
  PROVE  /\ [p EXCEPT !.via = m] \in P
         /\ p.hops < 15 => [p EXCEPT !.hops = p.hops + 1] \in P
         /\ [p EXCEPT !.mac = z] \in P /\ [p EXCEPT !.mac = z].dst = p.dst
         /\ p.dst # Broadcast => [p EXCEPT !.retries = r] \in P
<1>1. p \in Packets
  BY DEF Closed
<1>2. [p EXCEPT !.via = m] \in P
  <2>1. [p EXCEPT !.via = m] \in Packets
    BY ONLY <1>1, m \in Nodes DEF Packets
  <2> QED
    BY ONLY <1>1, <2>1, Closed(P), p \in P DEF Closed, Packets
<1>3. p.hops < 15 => [p EXCEPT !.hops = p.hops + 1] \in P
  <2>1. p.hops < 15 => [p EXCEPT !.hops = p.hops + 1] \in Packets
    BY ONLY <1>1 DEF Packets
  <2> QED
    BY ONLY <1>1, <2>1, Closed(P), p \in P DEF Closed, Packets
<1>4. [p EXCEPT !.mac = z] \in P
  <2>1. [p EXCEPT !.mac = z] \in Packets
    BY ONLY <1>1, z \in Nodes \cup {Zero} DEF Packets
  <2> QED
    BY ONLY <1>1, <2>1, Closed(P), p \in P DEF Closed, Packets
<1>5. p.dst # Broadcast => [p EXCEPT !.retries = r] \in P
  <2>1. [p EXCEPT !.retries = r] \in Packets
    BY ONLY <1>1, r \in 0 .. 7 DEF Packets
  <2> QED
    BY ONLY <1>1, <2>1, Closed(P), p \in P DEF Closed, Packets
<1>6. [p EXCEPT !.mac = z].dst = p.dst
  BY ONLY <1>1 DEF Packets
<1> QED
  BY <1>2, <1>3, <1>4, <1>5, <1>6

LEMMA PacketChanges ==
  ASSUME NEW P, Closed(P), NEW p \in P, NEW m \in Nodes, NEW z \in Nodes \cup {Zero}, NEW r \in 0 .. 7, NEW x \in 0 .. 15
  PROVE  /\ [p EXCEPT !.via = m] \in P
         /\ p.hops < 15 => [p EXCEPT !.hops = p.hops + 1] \in P
         /\ [p EXCEPT !.mac = z] \in P
         /\ [p EXCEPT !.mac = z, !.via = m] \in P
         /\ [p EXCEPT !.mac = z, !.max = x] \in P
         /\ p.dst # Broadcast => [p EXCEPT !.retries = r] \in P
         /\ p.dst # Broadcast => [p EXCEPT !.mac = z, !.max = x, !.retries = r, !.via = m] \in P
<1>1. PICK q \in P : q = [p EXCEPT !.mac = z] /\ q.dst = p.dst
  <2>1. [p EXCEPT !.mac = z] \in P /\ [p EXCEPT !.mac = z].dst = p.dst
    BY FieldChanges
  <2> QED
    BY ONLY <2>1
<1>2. PICK q2 \in P : q2 = [q EXCEPT !.max = x] /\ q2.dst = p.dst
  <2>1. [q EXCEPT !.max = x] \in P /\ [q EXCEPT !.max = x].dst = q.dst
    BY MaxChanges
  <2>2. PICK w : w = [q EXCEPT !.max = x]
    OBVIOUS
  <2>3. w \in P /\ w.dst = q.dst
    BY ONLY <2>1, <2>2
  <2>4. q.dst = p.dst
    BY <1>1
  <2> QED
    BY ONLY <2>2, <2>3, <2>4
<1>3. [p EXCEPT !.mac = z, !.via = m] \in P
  <2>1. [q EXCEPT !.via = m] \in P
    BY FieldChanges
  <2> QED
    BY ONLY <1>1, <2>1
<1>4. [p EXCEPT !.mac = z, !.max = x] \in P
  BY ONLY <1>1, <1>2, q2 \in P
<1>5. p.dst # Broadcast => [p EXCEPT !.mac = z, !.max = x, !.retries = r, !.via = m] \in P
  <2> SUFFICES ASSUME p.dst # Broadcast PROVE [p EXCEPT !.mac = z, !.max = x, !.retries = r, !.via = m] \in P
    OBVIOUS
  <2>1. PICK q3 \in P : q3 = [q2 EXCEPT !.retries = r]
    BY <1>2, FieldChanges
  <2>2. [q3 EXCEPT !.via = m] \in P
    BY FieldChanges
  <2> QED
    BY ONLY <1>1, <1>2, <2>1, <2>2
<1> QED
  BY <1>3, <1>4, <1>5, FieldChanges

LEMMA FromUsKeeps ==
  ASSUME NEW P, Closed(P), NEW n \in Nodes, NEW q \in Seq(P)
  PROVE  FromUs(n, q) \in Seq(P) /\ Len(FromUs(n, q)) = Len(q)
<1>1. \A i \in 1 .. Len(q) : [q[i] EXCEPT !.via = n] \in P
  <2>1. ASSUME NEW i \in 1 .. Len(q) PROVE [q[i] EXCEPT !.via = n] \in P
    <3>1. q[i] \in P
      OBVIOUS
    <3>2. Zero \in Nodes \cup {Zero} /\ 0 \in 0 .. 7 /\ 0 \in 0 .. 15
      OBVIOUS
    <3> QED
      BY <3>1, <3>2, PacketChanges
  <2> QED
    BY <2>1
<1>2. FromUs(n, q) = [i \in 1 .. Len(q) |-> [q[i] EXCEPT !.via = n]]
  BY DEF FromUs
<1> QED
  BY <1>1, <1>2

(* Flattening sequences of packets gives packets.                          *)
LEMMA FlattenKeeps ==
  ASSUME NEW P, NEW q \in Seq(Seq(P))
  PROVE  FlattenSeq(q) \in Seq(P)
<1> DEFINE Rec(f, n) == f = [i \in 1 .. n |-> IF i = 1 THEN q[i] ELSE f[i - 1] \o q[i]]
           Bad == {n \in Nat : n <= Len(q) /\ ~ \E f : Rec(f, n) /\ f \in [1 .. n -> Seq(P)]}
<1>1. Bad = {}
  <2> SUFFICES ASSUME Bad # {} PROVE FALSE
    OBVIOUS
  <2>1. PICK n \in Bad : \A y \in Bad : n <= y
    <3>1. Bad \in SUBSET Nat
      OBVIOUS
    <3> QED
      BY <3>1, LeastNatural
  <2>2. CASE n = 0
    <3>1. PICK f : f = [i \in 1 .. 0 |-> IF i = 1 THEN q[i] ELSE f[i - 1] \o q[i]]
      <4>1. \A g : [i \in 1 .. 0 |-> IF i = 1 THEN q[i] ELSE g[i - 1] \o q[i]] = [i \in 1 .. 0 |-> 0]
        OBVIOUS
      <4> QED
        BY <4>1
    <3>2. f \in [1 .. 0 -> Seq(P)]
      BY <3>1
    <3> QED
      BY <2>1, <2>2, <3>1, <3>2
  <2>3. CASE n # 0
    <3>1. n \in Nat /\ n <= Len(q) /\ n - 1 \in Nat /\ n - 1 <= Len(q)
      BY <2>1, <2>3
    <3>9. n - 1 \notin Bad
      <4> HIDE DEF Bad
      <4> QED
        BY <2>1, <3>1
    <3>2. PICK g : Rec(g, n - 1) /\ g \in [1 .. (n - 1) -> Seq(P)]
      BY <3>1, <3>9
    <3> DEFINE f == [i \in 1 .. n |-> IF i <= n - 1 THEN g[i] ELSE IF n = 1 THEN q[1] ELSE g[n - 1] \o q[n]]
    <3>3. f \in [1 .. n -> Seq(P)]
      <4>1. ASSUME NEW i \in 1 .. n PROVE f[i] \in Seq(P)
        <5>1. CASE i <= n - 1
          BY <5>1, <3>2, <3>1
        <5>2. CASE i = n
          <6>1. q[n] \in Seq(P) /\ q[1] \in Seq(P)
            BY <3>1, <2>3
          <6>2. n # 1 => g[n - 1] \in Seq(P)
            BY <3>1, <3>2
          <6> QED
            BY <5>2, <6>1, <6>2, <3>1
        <5> QED
          BY <5>1, <5>2, <3>1
      <4> QED
        BY <4>1
    <3>4. \A i \in 1 .. n : f[i] = IF i = 1 THEN q[i] ELSE f[i - 1] \o q[i]
      <4>1. ASSUME NEW i \in 1 .. n PROVE f[i] = IF i = 1 THEN q[i] ELSE f[i - 1] \o q[i]
        <5>1. CASE i <= n - 1
          <6>1. g[i] = IF i = 1 THEN q[i] ELSE g[i - 1] \o q[i]
            <7>1. g = [j \in 1 .. n - 1 |-> IF j = 1 THEN q[j] ELSE g[j - 1] \o q[j]]
              BY <3>2
            <7>2. i \in 1 .. n - 1
              BY <3>1, <5>1
            <7> HIDE DEF Rec, Bad, f
            <7> QED
              BY <7>1, <7>2
          <6> QED
            BY <6>1, <5>1, <3>1
        <5>2. CASE i = n
          BY <5>2, <3>1
        <5> QED
          BY <5>1, <5>2, <3>1
      <4> QED
        BY <4>1
    <3>5. Rec(f, n)
      BY <3>4
    <3> QED
      BY <3>3, <3>5, <2>1
  <2> QED
    BY <2>2, <2>3
<1>2. CASE Len(q) = 0
  <2>1. q = <<>> /\ FlattenSeq(q) = q
    BY <1>2 DEF FlattenSeq
  <2>2. <<>> \in Seq(P)
    OBVIOUS
  <2> HIDE DEF Bad, Rec
  <2> QED
    BY <2>1, <2>2, Zenon
<1>3. CASE Len(q) # 0
  <2>1. Len(q) \in Nat
    OBVIOUS
  <2> DEFINE h == CHOOSE f : Rec(f, Len(q))
  <2>2. PICK f : Rec(f, Len(q)) /\ f \in [1 .. Len(q) -> Seq(P)]
    <3>1. Len(q) \notin Bad
      <4> HIDE DEF Bad
      <4> QED
        BY <1>1
    <3> HIDE DEF Rec
    <3> QED
      BY <3>1, <2>1
  <2>3. Rec(h, Len(q))
    BY <2>2
  <2>4. FlattenSeq(q) = h[Len(q)]
    BY <1>3 DEF FlattenSeq
  <2> HIDE DEF h
  <2>5. \A i \in 1 .. Len(q) : h[i] \in Seq(P)
    <3> DEFINE Worse == {i \in Nat : i \in 1 .. Len(q) /\ h[i] \notin Seq(P)}
    <3> SUFFICES ASSUME Worse # {} PROVE FALSE
      OBVIOUS
    <3>1. PICK i \in Worse : \A y \in Worse : i <= y
      <4>1. Worse \in SUBSET Nat
        OBVIOUS
      <4> QED
        BY <4>1, LeastNatural
    <3>2. h[i] = IF i = 1 THEN q[i] ELSE h[i - 1] \o q[i]
      BY <2>3, <3>1
    <3>3. q[i] \in Seq(P) /\ i \in 1 .. Len(q)
      BY <3>1
    <3>4. i # 1 => i - 1 \in 1 .. Len(q) /\ i - 1 \in Nat /\ i - 1 < i
      BY <3>3
    <3>5. i # 1 => h[i - 1] \in Seq(P)
      BY <3>4, <3>1
    <3>6. h[i] \in Seq(P)
      BY <3>2, <3>3, <3>5
    <3> QED
      BY <3>6, <3>1
  <2>6. Len(q) \in 1 .. Len(q)
    BY <2>1, <1>3
  <2> HIDE DEF Bad, Rec
  <2> QED
    BY <2>4, <2>5, <2>6
<1> QED
  BY <1>2, <1>3

-----------------------------------------------------------------------------
(* Sending.                                                                *)

Uses == [ours : 1 .. MaxPendPkts, others : 1 .. MaxNodes]

(* Neither what it heard nor its number nor what its application gets.     *)
SameMemory(s, t) == t.hist = s.hist /\ t.seq = s.seq /\ t.up = s.up

LEMMA SendPacketKeeps ==
  ASSUME NEW P, Closed(P), NEW n \in Nodes, NEW s \in NodeStates(P), NEW p \in P
  PROVE  SendPacket(n, s, p) \in NodeStates(P) /\ SameMemory(s, SendPacket(n, s, p))
<1>1. <<p>> \in Seq(P)
  OBVIOUS
<1>2. FromUs(n, <<p>>) \in Seq(P)
  BY <1>1, FromUsKeeps
<1> DEFINE q == FromUs(n, <<p>>)
<1>3. q \in Seq(P)
  BY <1>2
<1>4. SendPacket(n, s, p) = [s EXCEPT !.out = s.out \o q]
  BY DEF SendPacket
<1> HIDE DEF q
<1>5. s.out \o q \in Seq(P)
  BY <1>3 DEF NodeStates
<1> DEFINE o == s.out \o q
<1>6. o \in Seq(P) /\ SendPacket(n, s, p) = [s EXCEPT !.out = o]
  BY <1>4, <1>5
<1> HIDE DEF o
<1> QED
  BY <1>6 DEF NodeStates, SameMemory

LEMMA PendingAddKeeps ==
  ASSUME NEW P, Closed(P), NEW n \in Nodes, NEW s \in NodeStates(P), NEW p \in P, p.dst # Broadcast, NEW use \in Uses
  PROVE  PendingAdd(n, s, p, use) \in NodeStates(P) /\ SameMemory(s, PendingAdd(n, s, p, use))
<1>1. [p EXCEPT !.retries = RetryCount] \in P /\ [p EXCEPT !.retries = RetryCount].dst # Broadcast
  <2>1. RetryCount \in 0 .. 7 /\ Zero \in Nodes \cup {Zero} /\ 0 \in 0 .. 15 /\ p \in Packets
    BY MeshConstants DEF Closed
  <2>2. [p EXCEPT !.retries = RetryCount] \in P
    BY <2>1, PacketChanges
  <2>3. [p EXCEPT !.retries = RetryCount].dst = p.dst
    BY <2>1 DEF Packets
  <2> QED
    BY <2>2, <2>3
<1> DEFINE q == [p EXCEPT !.retries = RetryCount]
           d == p.src # n /\ p.mac = Zero
<1>2. q \in P /\ q.dst # Broadcast /\ d \in BOOLEAN
  BY <1>1
<1>3. CASE p.src = n
  <2> DEFINE old == s.ours[use.ours]
             e == [pkt |-> q, disc |-> d \/ (old # None /\ old.disc)]
  <2>1. PendingAdd(n, s, p, use) = [s EXCEPT !.ours = [s.ours EXCEPT ![use.ours] = e]]
    BY <1>3 DEF PendingAdd, NodeStates
  <2>2. old \in Slot(P)
    BY DEF NodeStates, Uses
  <2>3. e \in Slot(P)
    <3>1. (d \/ (old # None /\ old.disc)) \in BOOLEAN
      OBVIOUS
    <3> HIDE DEF d, q, old
    <3> QED
      BY <1>2, <3>1 DEF Slot, Pending
  <2> HIDE DEF e
  <2>4. [s.ours EXCEPT ![use.ours] = e] \in [1 .. MaxPendPkts -> Slot(P)]
    BY <2>3 DEF NodeStates
  <2> DEFINE o == [s.ours EXCEPT ![use.ours] = e]
  <2>5. o \in [1 .. MaxPendPkts -> Slot(P)] /\ PendingAdd(n, s, p, use) = [s EXCEPT !.ours = o]
    BY <2>1, <2>4
  <2> HIDE DEF o
  <2> QED
    BY <2>5 DEF NodeStates, SameMemory
<1>4. CASE p.src # n
  <2> DEFINE old == s.others[use.others]
             e == [pkt |-> q, disc |-> d \/ (old # None /\ old.disc)]
  <2>1. PendingAdd(n, s, p, use) = [s EXCEPT !.others = [s.others EXCEPT ![use.others] = e]]
    BY <1>4 DEF PendingAdd, NodeStates
  <2>2. old \in Slot(P)
    BY DEF NodeStates, Uses
  <2>3. e \in Slot(P)
    <3>1. (d \/ (old # None /\ old.disc)) \in BOOLEAN
      OBVIOUS
    <3> HIDE DEF d, q, old
    <3> QED
      BY <1>2, <3>1 DEF Slot, Pending
  <2> HIDE DEF e
  <2>4. [s.others EXCEPT ![use.others] = e] \in [1 .. MaxNodes -> Slot(P)]
    BY <2>3 DEF NodeStates
  <2> DEFINE o == [s.others EXCEPT ![use.others] = e]
  <2>5. o \in [1 .. MaxNodes -> Slot(P)] /\ PendingAdd(n, s, p, use) = [s EXCEPT !.others = o]
    BY <2>1, <2>4
  <2> HIDE DEF o
  <2> QED
    BY <2>5 DEF NodeStates, SameMemory
<1> QED
  BY <1>3, <1>4

LEMMA FormedPacket ==
  ASSUME NEW P, NEW n \in Nodes, NEW s \in NodeStates(P),
         NEW dst \in Nodes \cup {Broadcast}, NEW type \in PktTypes, NEW max \in 0 .. 15, NEW full \in BOOLEAN
  PROVE  LET p == FormPkt(n, s, dst, type, max, full)
         IN  /\ p \in Packets /\ p.src = n /\ p.dst = dst /\ p.id = (s.seq + 1) % 256 /\ p.retries = RetryCount
             /\ dst = Broadcast => p.type = "nack"
<1> DEFINE r == IF dst = Broadcast THEN None ELSE s.routes[dst]
           z == IF r = None THEN Zero ELSE r.next
           x == IF r = None THEN max ELSE r.hops
           t == IF dst = Broadcast THEN "nack" ELSE type
           d == (s.seq + 1) % 256
<1>1. r \in Routes
  BY DEF NodeStates, Routes
<1>2. z \in Nodes \cup {Zero} /\ x \in 0 .. 15
  <2> HIDE DEF r
  <2> QED
    BY <1>1 DEF Routes
<1>3. t \in PktTypes
  BY DEF PktTypes
<1>4. d \in 0 .. 255
  <2>1. s.seq \in 0 .. 255
    BY DEF NodeStates
  <2> QED
    BY <2>1, SMT
<1>5. FormPkt(n, s, dst, type, max, full) =
        [src |-> n, dst |-> dst, via |-> n, id |-> d, mac |-> z, max |-> x, type |-> t,
         retries |-> RetryCount, hops |-> 0, full |-> full]
  BY DEF FormPkt
<1>6. dst = Broadcast => t = "nack"
  OBVIOUS
<1>7. RetryCount \in 0 .. 7 /\ d = (s.seq + 1) % 256
  BY MeshConstants
<1> HIDE DEF r, z, x, t, d
<1> QED
  BY <1>2, <1>3, <1>4, <1>5, <1>6, <1>7 DEF Packets

LEMMA MeshSendKeeps ==
  ASSUME NEW P, Closed(P), NEW n \in Nodes, NEW s \in NodeStates(P),
         NEW dst \in Nodes \cup {Broadcast}, NEW type \in PktTypes, NEW max \in 0 .. 15, NEW full \in BOOLEAN,
         FormPkt(n, s, dst, type, max, full) \in P, NEW use \in Uses
  PROVE  LET t == MeshSend(n, s, dst, type, max, full, use)
         IN  t \in NodeStates(P) /\ t.hist = s.hist /\ t.up = s.up /\ t.seq = (s.seq + 1) % 256
<1> DEFINE p == FormPkt(n, s, dst, type, max, full)
           s0 == [s EXCEPT !.seq = p.id]
           s1 == SendPacket(n, s0, p)
<1>1. /\ p \in P /\ p \in Packets /\ p.dst = dst /\ p.id = (s.seq + 1) % 256
      /\ dst = Broadcast => p.type = "nack"
  <2>1. PICK f : f = FormPkt(n, s, dst, type, max, full)
    OBVIOUS
  <2>2. f \in Packets /\ f.dst = dst /\ f.id = (s.seq + 1) % 256 /\ (dst = Broadcast => f.type = "nack")
    <3> HIDE DEF p, s0, s1
    <3> QED
      BY <2>1, FormedPacket, SMTT(30)
  <2> QED
    BY <2>1, <2>2
<1>2. MeshSend(n, s, dst, type, max, full, use) = IF EnsuresDelivery(p) THEN PendingAdd(n, s1, p, use) ELSE s1
  BY DEF MeshSend
<1> HIDE DEF p
<1>3. s0 \in NodeStates(P) /\ s0.hist = s.hist /\ s0.up = s.up /\ s0.seq = (s.seq + 1) % 256
  <2>1. PICK i : i = p.id
    OBVIOUS
  <2>2. i \in 0 .. 255 /\ i = (s.seq + 1) % 256
    BY ONLY <1>1, <2>1 DEF Packets
  <2>3. [s EXCEPT !.seq = i] \in NodeStates(P)
    <3>1. i \in 0 .. 255
      BY <2>2
    <3> QED
      BY ONLY <3>1, s \in NodeStates(P) DEF NodeStates
  <2>4. [s EXCEPT !.seq = i].hist = s.hist /\ [s EXCEPT !.seq = i].up = s.up /\ [s EXCEPT !.seq = i].seq = i
    BY DEF NodeStates
  <2> QED
    BY <2>1, <2>2, <2>3, <2>4
<1> HIDE DEF s0
<1>4. s1 \in NodeStates(P) /\ SameMemory(s0, s1)
  BY <1>1, <1>3, SendPacketKeeps
<1> HIDE DEF s1
<1>5. EnsuresDelivery(p) => p.dst # Broadcast
  BY <1>1 DEF EnsuresDelivery, AckTypes
<1>6. EnsuresDelivery(p) => PendingAdd(n, s1, p, use) \in NodeStates(P) /\ SameMemory(s1, PendingAdd(n, s1, p, use))
  BY <1>1, <1>4, <1>5, PendingAddKeeps
<1> QED
  BY <1>2, <1>3, <1>4, <1>6 DEF SameMemory

LEMMA SendAckKeeps ==
  ASSUME NEW P, Closed(P), NEW n \in Nodes, NEW s \in NodeStates(P), NEW p \in P, NEW full \in BOOLEAN,
         Forms(P, n, s), NEW use \in Uses
  PROVE  LET t == SendAck(n, s, p, full, use)
         IN  t \in NodeStates(P) /\ t.hist = s.hist /\ t.up = s.up /\ t.seq = (s.seq + 1) % 256
<1>1. p \in Packets
  BY DEF Closed
<1>2. p.src \in Nodes /\ p.src \in Nodes \cup {Broadcast} /\ p.max \in 0 .. 15 /\ "ack_rsp" \in PktTypes /\ p.src # Broadcast
  BY <1>1, MeshConstants DEF Packets, PktTypes
<1> DEFINE q == FormPkt(n, s, p.src, "ack_rsp", p.max, full)
<1>3. q \in Packets /\ q.src = n /\ q.dst = p.src /\ q.id = (s.seq + 1) % 256
  <2>1. PICK d, t, x : d = p.src /\ t = "ack_rsp" /\ x = p.max
    OBVIOUS
  <2>2. d \in Nodes \cup {Broadcast} /\ t \in PktTypes /\ x \in 0 .. 15 /\ q = FormPkt(n, s, d, t, x, full)
    BY <1>2, <2>1
  <2>3. PICK f : f = FormPkt(n, s, d, t, x, full)
    OBVIOUS
  <2>4. f \in Packets /\ f.src = n /\ f.dst = d /\ f.id = (s.seq + 1) % 256
    <3> HIDE DEF q
    <3> QED
      BY <2>2, <2>3, FormedPacket
  <2> QED
    BY ONLY <2>1, <2>2, <2>3, <2>4
<1>4. q \in P
  BY <1>2, <1>3 DEF Forms
<1> QED
  BY <1>2, <1>4, MeshSendKeeps DEF SendAck

-----------------------------------------------------------------------------
(* The tables and the history.                                             *)

LEMMA LearnRoutesKeeps ==
  ASSUME NEW P, NEW n \in Nodes, NEW s \in NodeStates(P), NEW p \in Packets
  PROVE  LearnRoutes(n, s, p) \in [Nodes -> Routes]
<1>1. /\ p.src \in Nodes /\ p.via \in Nodes /\ p.hops \in 0 .. 15 /\ s.routes \in [Nodes -> Routes]
  BY DEF Packets, NodeStates
<1>2. [next |-> p.via, hops |-> p.hops] \in Routes /\ [next |-> p.via, hops |-> 0] \in Routes
  BY <1>1 DEF Routes
<1> QED
  BY <1>1, <1>2 DEF LearnRoutes

LEMMA RememberKeeps ==
  ASSUME NEW P, NEW s \in NodeStates(P), NEW p \in Packets, Len(s.hist) <= MaxNodes
  PROVE  Remember(s, p) \in Seq(HistEntries) /\ Len(Remember(s, p)) <= MaxNodes
<1> DEFINE e == [src |-> p.src, id |-> p.id, retries |-> p.retries]
           h == s.hist
           room == IF Len(h) = MaxNodes THEN Tail(h) ELSE h
<1>1. e \in HistEntries /\ h \in Seq(HistEntries) /\ Len(h) <= MaxNodes /\ MaxNodes \in Nat /\ MaxNodes > 1
  BY MeshConstants DEF Packets, NodeStates, HistEntries
<1>2. Remember(s, p) = IF InHistory(s, p)
        THEN [i \in DOMAIN h |-> IF h[i].src = e.src /\ h[i].id = e.id THEN e ELSE h[i]]
        ELSE Append(room, e)
  BY DEF Remember
<1> HIDE DEF e, h
<1>3. room \in Seq(HistEntries) /\ Len(room) < MaxNodes
  BY <1>1
<1>4. Append(room, e) \in Seq(HistEntries) /\ Len(Append(room, e)) <= MaxNodes
  BY <1>1, <1>3
<1>5. [i \in 1 .. Len(h) |-> IF h[i].src = e.src /\ h[i].id = e.id THEN e ELSE h[i]] \in Seq(HistEntries)
  BY <1>1
<1>6. DOMAIN h = 1 .. Len(h)
  BY <1>1
<1>7. Len([i \in 1 .. Len(h) |-> IF h[i].src = e.src /\ h[i].id = e.id THEN e ELSE h[i]]) = Len(h)
  BY <1>1
<1> QED
  BY <1>1, <1>2, <1>4, <1>5, <1>6, <1>7

LEMMA UpdateKeeps ==
  ASSUME NEW P, NEW n \in Nodes, NEW s \in NodeStates(P), NEW p \in Packets, Len(s.hist) <= MaxNodes
  PROVE  LET t == UpdateHistoryAndRouting(n, s, p)
         IN  t \in NodeStates(P) /\ t.hist = Remember(s, p) /\ t.seq = s.seq /\ t.up = s.up
<1> DEFINE r == LearnRoutes(n, s, p)
           h == Remember(s, p)
<1>1. r \in [Nodes -> Routes] /\ h \in Seq(HistEntries)
  BY LearnRoutesKeeps, RememberKeeps
<1>2. UpdateHistoryAndRouting(n, s, p) = [s EXCEPT !.hist = h, !.routes = r]
  BY DEF UpdateHistoryAndRouting
<1> HIDE DEF r, h
<1>3. [s EXCEPT !.hist = h, !.routes = r] \in NodeStates(P)
  BY <1>1 DEF NodeStates
<1>4. /\ [s EXCEPT !.hist = h, !.routes = r].hist = h /\ [s EXCEPT !.hist = h, !.routes = r].seq = s.seq
      /\ [s EXCEPT !.hist = h, !.routes = r].up = s.up
  BY DEF NodeStates
<1> QED
  BY <1>2, <1>3, <1>4 DEF h

LEMMA HandleMeshPacketKeeps ==
  ASSUME NEW P, Closed(P), NEW n \in Nodes, NEW s \in NodeStates(P), NEW p \in P,
         p.dst # Broadcast, p.hops < p.max, NEW use \in Uses
  PROVE  LET r == HandleMeshPacket(n, s, p, use)
         IN  r.s \in NodeStates(P) /\ SameMemory(s, r.s)
<1> DEFINE route == s.routes[p.dst]
           q == [p EXCEPT !.hops = p.hops + 1]
           z == IF route = None THEN Zero ELSE route.next
           fwd == [q EXCEPT !.mac = z, !.via = n]
           ensure == p.mac = n /\ EnsuresDelivery(fwd)
           sent == SendPacket(n, s, fwd)
<1>1. p \in Packets /\ p.hops < 15 /\ p.dst \in Nodes /\ p.dst = p.dst
  <2>1. p \in Packets
    BY DEF Closed
  <2>2. p.hops \in 0 .. 15 /\ p.max \in 0 .. 15 /\ p.dst \in Nodes
    BY <2>1 DEF Packets
  <2> QED
    BY <2>1, <2>2
<1>2. route \in Routes
  BY <1>1 DEF NodeStates
<1>3. z \in Nodes \cup {Zero}
  <2> HIDE DEF route
  <2> QED
    BY <1>2 DEF Routes
<1>4. q \in P /\ q.dst = p.dst
  <2>1. 0 \in 0 .. 7 /\ 0 \in 0 .. 15
    OBVIOUS
  <2>2. q \in P
    BY <1>1, <1>3, <2>1, PacketChanges
  <2> QED
    BY <2>2, <1>1 DEF Packets
<1>5. HandleMeshPacket(n, s, p, use).s =
        IF p.mac = n \/ (p.mac = Zero /\ route # None)
        THEN IF ensure THEN PendingAdd(n, sent, fwd, use) ELSE sent
        ELSE IF p.mac = Zero THEN PendingAdd(n, s, q, use) ELSE s
  BY DEF HandleMeshPacket
<1> HIDE DEF q, z, route
<1>6. fwd \in P /\ fwd.dst = p.dst
  <2>1. 0 \in 0 .. 7 /\ 0 \in 0 .. 15
    OBVIOUS
  <2>2. fwd \in P
    BY <1>3, <1>4, <2>1, PacketChanges
  <2>3. q \in Packets
    BY <1>4 DEF Closed
  <2> QED
    BY <2>2, <2>3, <1>4 DEF Packets
<1> HIDE DEF fwd
<1>7. sent \in NodeStates(P) /\ SameMemory(s, sent)
  BY <1>6, SendPacketKeeps
<1> HIDE DEF sent
<1>8. PendingAdd(n, sent, fwd, use) \in NodeStates(P) /\ SameMemory(sent, PendingAdd(n, sent, fwd, use))
  BY <1>6, <1>7, PendingAddKeeps
<1>9. PendingAdd(n, s, q, use) \in NodeStates(P) /\ SameMemory(s, PendingAdd(n, s, q, use))
  BY <1>4, PendingAddKeeps
<1> HIDE DEF ensure
<1> QED
  BY <1>5, <1>7, <1>8, <1>9 DEF SameMemory

LEMMA AllPackets ==
  Closed(Packets) /\ \A n, s : Forms(Packets, n, s)
BY DEF Closed, Forms

LEMMA StatesGrow ==
  ASSUME NEW P, NEW Q, P \subseteq Q
  PROVE  NodeStates(P) \subseteq NodeStates(Q)
<1>1. Slot(P) \subseteq Slot(Q)
  BY DEF Slot, Pending
<1>2. Seq(P) \subseteq Seq(Q) /\ SUBSET P \subseteq SUBSET Q
  OBVIOUS
<1>3. [1 .. MaxNodes -> Slot(P)] \subseteq [1 .. MaxNodes -> Slot(Q)] /\ [1 .. MaxPendPkts -> Slot(P)] \subseteq [1 .. MaxPendPkts -> Slot(Q)]
  BY <1>1
<1> QED
  BY <1>2, <1>3 DEF NodeStates

LEMMA HandleOurPacketKeeps ==
  ASSUME NEW P, Closed(P), NEW n \in Nodes, NEW s \in NodeStates(P), NEW p \in P, NEW new \in BOOLEAN, NEW use \in Uses,
         HandleOurPacket(n, s, p, new, use).seq # s.seq => Forms(P, n, s)
  PROVE  LET t == HandleOurPacket(n, s, p, new, use)
         IN  /\ t \in NodeStates(P) /\ t.hist = s.hist /\ t.seq \in {s.seq, (s.seq + 1) % 256}
             /\ t.up = s.up \/ (new /\ t.up = {p})
<1> DEFINE s1 == IF new /\ p.full THEN [s EXCEPT !.up = {p}] ELSE s
<1>1. /\ s1 \in NodeStates(P) /\ s1.hist = s.hist /\ s1.seq = s.seq /\ (s1.up = s.up \/ (new /\ s1.up = {p}))
      /\ s.seq \in 0 .. 255
  BY DEF NodeStates
<1>2. HandleOurPacket(n, s, p, new, use) =
        IF p.type = "ack" THEN SendAck(n, s1, p, TRUE, use)
        ELSE IF p.mac = Zero THEN SendAck(n, s1, p, FALSE, use) ELSE s1
  BY DEF HandleOurPacket
<1> HIDE DEF s1
<1>3. ASSUME NEW b \in BOOLEAN, HandleOurPacket(n, s, p, new, use) = SendAck(n, s1, p, b, use)
      PROVE  LET t == SendAck(n, s1, p, b, use)
             IN  t \in NodeStates(P) /\ t.hist = s1.hist /\ t.up = s1.up /\ t.seq = (s1.seq + 1) % 256
  <2>1. SendAck(n, s1, p, b, use).seq = (s1.seq + 1) % 256
    <3>1. s1 \in NodeStates(Packets) /\ p \in Packets
      BY <1>1, StatesGrow DEF Closed
    <3>2. Closed(Packets) /\ Forms(Packets, n, s1)
      BY AllPackets
    <3> QED
      BY <3>1, <3>2, SendAckKeeps
  <2>2. (s1.seq + 1) % 256 # s1.seq
    BY <1>1
  <2>3. Forms(P, n, s)
    BY <1>1, <1>3, <2>1, <2>2
  <2>4. Forms(P, n, s1)
    BY <1>1, <2>3 DEF Forms
  <2> QED
    BY <1>1, <2>4, SendAckKeeps
<1> DEFINE t == HandleOurPacket(n, s, p, new, use)
<1>4. CASE p.type = "ack"
  <2>1. t = SendAck(n, s1, p, TRUE, use)
    BY <1>2, <1>4
  <2> QED
    BY <1>1, <1>3, <2>1
<1>5. CASE p.type # "ack" /\ p.mac = Zero
  <2>1. t = SendAck(n, s1, p, FALSE, use)
    BY <1>2, <1>5
  <2> QED
    BY <1>1, <1>3, <2>1
<1>6. CASE p.type # "ack" /\ p.mac # Zero
  <2>1. t = s1
    BY <1>2, <1>6
  <2> QED
    BY <1>1, <2>1
<1> QED
  BY <1>4, <1>5, <1>6

-----------------------------------------------------------------------------
(* The reception of a packet.                                              *)

LEMMA HandleBroadcastKeeps ==
  ASSUME NEW P, Closed(P), NEW n \in Nodes, NEW s \in NodeStates(P), NEW p \in P
  PROVE  LET t == HandleBroadcast(n, s, p)
         IN  t \in NodeStates(P) /\ t.hist = s.hist /\ t.seq = s.seq /\ t.up = {p}
<1> DEFINE s1 == [s EXCEPT !.up = {p}]
           q == [p EXCEPT !.hops = p.hops + 1]
<1>1. s1 \in NodeStates(P) /\ s1.hist = s.hist /\ s1.seq = s.seq /\ s1.up = {p}
  BY DEF NodeStates
<1>2. p.hops < p.max => q \in P
  <2>1. p \in Packets
    BY DEF Closed
  <2>2. p.hops < p.max => p.hops < 15
    BY <2>1 DEF Packets
  <2>3. 0 \in 0 .. 7 /\ 0 \in 0 .. 15 /\ Zero \in Nodes \cup {Zero}
    OBVIOUS
  <2> QED
    BY <2>2, <2>3, PacketChanges
<1>3. HandleBroadcast(n, s, p) = IF p.hops < p.max THEN SendPacket(n, s1, q) ELSE s1
  BY DEF HandleBroadcast
<1> HIDE DEF s1, q
<1>4. p.hops < p.max => SendPacket(n, s1, q) \in NodeStates(P) /\ SameMemory(s1, SendPacket(n, s1, q))
  BY <1>1, <1>2, SendPacketKeeps
<1> QED
  BY <1>1, <1>3, <1>4 DEF SameMemory

(* What the first half of mesh_service() leaves: it passes on a packet that *)
(* is new, or a broadcast that looks like a retry.                         *)
LEMMA ReceiveKeeps ==
  ASSUME NEW P, Closed(P), NEW n \in Nodes, NEW s \in NodeStates(P), NEW p \in P, NEW use \in Uses,
         Len(s.hist) <= MaxNodes,
         Receive(n, s, p, use).s.seq # s.seq => Forms(P, n, s)
  PROVE  LET t == Receive(n, s, p, use).s
         IN  /\ t \in NodeStates(P) /\ t.hist = Remember(s, p) /\ t.seq \in {s.seq, (s.seq + 1) % 256}
             /\ \/ t.up = s.up
                \/ t.up = {p} /\ (~ InHistory(s, p) \/ (p.dst = Broadcast /\ IsRetry(s, p)))
<1> DEFINE s1 == UpdateHistoryAndRouting(n, s, p)
           new == ~ InHistory(s, p)
           r == Receive(n, s, p, use)
<1>1. p \in Packets
  BY DEF Closed
<1>2. s1 \in NodeStates(P) /\ s1.hist = Remember(s, p) /\ s1.seq = s.seq /\ s1.up = s.up
  BY <1>1, UpdateKeeps
<1>3. new \in BOOLEAN
  BY DEF InHistory
<1>4. r = IF ~new /\ ~IsRetry(s, p) THEN [s |-> s1, rx |-> None]
     ELSE IF p.src = n THEN [s |-> s1, rx |-> p]
     ELSE IF p.dst = Broadcast THEN [s |-> HandleBroadcast(n, s1, p), rx |-> None]
     ELSE IF p.dst = n THEN [s |-> HandleOurPacket(n, s1, p, new, use), rx |-> p]
     ELSE IF n \in Repeaters /\ p.hops < p.max THEN HandleMeshPacket(n, s1, p, use)
     ELSE [s |-> s1, rx |-> None]
  BY DEF Receive
<1>5. r.s.seq # s.seq => Forms(P, n, s1)
  BY <1>2 DEF Forms
<1> HIDE DEF r, s1
<1>6. CASE r.s = s1
  BY <1>2, <1>6 DEF r
<1>7. CASE (new \/ IsRetry(s, p)) /\ p.src # n /\ p.dst = Broadcast
  <2>1. r.s = HandleBroadcast(n, s1, p)
    BY <1>4, <1>7
  <2>2. r.s \in NodeStates(P) /\ r.s.hist = s1.hist /\ r.s.seq = s1.seq /\ r.s.up = {p}
    BY <2>1, <1>2, HandleBroadcastKeeps
  <2> QED
    BY <2>2, <1>2, <1>7 DEF r
<1>8. CASE (new \/ IsRetry(s, p)) /\ p.src # n /\ p.dst # Broadcast /\ p.dst = n
  <2>1. r.s = HandleOurPacket(n, s1, p, new, use)
    BY <1>4, <1>8
  <2> HIDE DEF new
  <2>2. /\ r.s \in NodeStates(P) /\ r.s.hist = s1.hist /\ r.s.seq \in {s1.seq, (s1.seq + 1) % 256}
        /\ r.s.up = s1.up \/ (new /\ r.s.up = {p})
    BY <2>1, <1>2, <1>3, <1>5, HandleOurPacketKeeps
  <2> QED
    BY <2>2, <1>2 DEF r, new
<1>9. CASE (new \/ IsRetry(s, p)) /\ p.src # n /\ p.dst # Broadcast /\ p.dst # n /\ n \in Repeaters /\ p.hops < p.max
  <2>1. r.s = HandleMeshPacket(n, s1, p, use).s
    BY <1>4, <1>9
  <2>2. r.s \in NodeStates(P) /\ SameMemory(s1, r.s)
    BY <2>1, <1>2, <1>9, HandleMeshPacketKeeps
  <2> QED
    BY <2>2, <1>2 DEF r, SameMemory
<1> QED
  BY <1>4, <1>6, <1>7, <1>8, <1>9

(* What is sent for a pending packet, and what is left of it.              *)
LEMMA FateKeeps ==
  ASSUME NEW P, Closed(P), NEW n \in Nodes, NEW e \in Slot(P), NEW rx, NEW due
  PROVE  /\ Resent(e, Fate(n, e, rx, due)) \in Seq(P)
         /\ StillPending(n, e, Fate(n, e, rx, due)) \in Slot(P)
<1> DEFINE f == Fate(n, e, rx, due)
<1>0. RetryCount \in 0 .. 7 /\ DiscoveryHops \in 0 .. 15 /\ Zero \in Nodes \cup {Zero} /\ 0 \in 0 .. 7
  BY MeshConstants
<1>1. /\ f \in {"empty", "done", "repeated", "wait", "seek on", "retry", "reroute", "fail"}
      /\ e = None => f = "empty"
  BY DEF Fate
<1> HIDE DEF f
<1>2. CASE f \in {"empty", "done", "fail"}
  <2>1. Resent(e, f) = <<>> /\ StillPending(n, e, f) = None
    BY <1>2 DEF Resent, StillPending
  <2> QED
    BY <2>1 DEF Slot, f
<1>3. CASE f = "wait"
  <2>1. Resent(e, f) = <<>> /\ StillPending(n, e, f) = e
    BY <1>3 DEF Resent, StillPending
  <2> QED
    BY <2>1 DEF f
<1>4. CASE e \in Pending(P)
  <2> DEFINE p == e.pkt
  <2>1. p \in P /\ p.dst # Broadcast /\ e.disc \in BOOLEAN /\ e = [pkt |-> p, disc |-> e.disc] /\ p \in Packets
    BY <1>4 DEF Pending, Closed
  <2> DEFINE rem == (p.retries + 7) % 8
  <2>2. rem \in 0 .. 7 /\ p.mac \in Nodes \cup {Zero} /\ p.max \in 0 .. 15 /\ p.retries \in 0 .. 7
    <3>1. p.retries \in 0 .. 7 /\ p.mac \in Nodes \cup {Zero} /\ p.max \in 0 .. 15
      BY <2>1 DEF Packets
    <3> QED
      BY <3>1
  <2> HIDE DEF rem
  <2>3. \A q \in P : q.dst = p.dst => [pkt |-> q, disc |-> e.disc] \in Slot(P)
    BY <2>1 DEF Slot, Pending
  <2>4. CASE f = "seek on"
    <3>1. Resent(e, f) = <<p>> /\ StillPending(n, e, f) = None
      BY <2>4 DEF Resent, StillPending
    <3>2. <<p>> \in Seq(P)
      BY <2>1
    <3> QED
      BY <3>1, <3>2 DEF Slot, f
  <2>5. CASE f = "repeated"
    <3> DEFINE q == [p EXCEPT !.retries = 0]
    <3>1. Resent(e, f) = <<>> /\ StillPending(n, e, f) = [e EXCEPT !.pkt.retries = 0]
      BY <2>5 DEF Resent, StillPending
    <3>2. [e EXCEPT !.pkt.retries = 0] = [pkt |-> q, disc |-> e.disc]
      BY <2>1
    <3>3. q \in P
      BY <2>1, <2>2, <1>0, PacketChanges
    <3>4. q.dst = p.dst
      BY <2>1 DEF Packets
    <3>5. [pkt |-> q, disc |-> e.disc] \in Slot(P) /\ <<>> \in Seq(P)
      <4> HIDE DEF q
      <4>1. <<>> \in Seq(P)
        OBVIOUS
      <4> QED
        BY <3>3, <3>4, <2>3, <4>1
    <3> HIDE DEF q
    <3> QED
      BY <3>1, <3>2, <3>5 DEF f
  <2>6. CASE f = "retry"
    <3> DEFINE q == [p EXCEPT !.retries = rem]
               v == [q EXCEPT !.via = n]
    <3>1. Resent(e, f) = <<q>> /\ StillPending(n, e, f) = [pkt |-> v, disc |-> e.disc]
      <4>1. RetryPacket(p) = q
        BY DEF RetryPacket, rem
      <4>2. Resent(e, f) = <<RetryPacket(p)>>
        BY <2>6 DEF Resent
      <4>3. StillPending(n, e, f) = [e EXCEPT !.pkt = [RetryPacket(p) EXCEPT !.via = n]]
        BY <2>6, <2>1 DEF StillPending
      <4>4. [e EXCEPT !.pkt = v] = [pkt |-> v, disc |-> e.disc]
        BY <2>1
      <4> QED
        BY <4>1, <4>2, <4>3, <4>4
    <3>2. q \in P
      BY <2>1, <2>2, <1>0, PacketChanges
    <3>3. v \in P
      BY <3>2, <2>2, <1>0, PacketChanges
    <3>4. v.dst = p.dst
      BY <2>1 DEF Packets
    <3>5. <<q>> \in Seq(P)
      BY <3>2
    <3> HIDE DEF q, v
    <3>6. [pkt |-> v, disc |-> e.disc] \in Slot(P)
      BY <3>3, <3>4, <2>3
    <3> QED
      BY <3>1, <3>5, <3>6 DEF f
  <2>7. CASE f = "reroute"
    <3> DEFINE a == [p EXCEPT !.mac = Zero, !.max = DiscoveryHops]
               q == [a EXCEPT !.retries = (a.retries + 7) % 8]
               v == [p EXCEPT !.mac = Zero, !.max = DiscoveryHops, !.retries = RetryCount, !.via = n]
    <3>1. Resent(e, f) = <<q>> /\ StillPending(n, e, f) = [pkt |-> v, disc |-> e.disc]
      <4>1. RetryPacket(a) = q
        BY DEF RetryPacket
      <4>2. Resent(e, f) = <<RetryPacket(a)>>
        BY <2>7 DEF Resent
      <4>3. StillPending(n, e, f) = [e EXCEPT !.pkt = v]
        BY <2>7, <2>1 DEF StillPending
      <4>4. [e EXCEPT !.pkt = v] = [pkt |-> v, disc |-> e.disc]
        BY <2>1
      <4> QED
        BY <4>1, <4>2, <4>3, <4>4
    <3>2. a \in P /\ a.retries = p.retries /\ a.dst = p.dst
      <4>1. a \in P
        BY <2>1, <2>2, <1>0, PacketChanges
      <4> QED
        BY <4>1, <2>1 DEF Packets
    <3>3. q \in P
      <4> HIDE DEF a
      <4>1. q = [a EXCEPT !.retries = rem]
        BY <3>2 DEF rem
      <4> QED
        BY <4>1, <3>2, <2>1, <2>2, <1>0, PacketChanges
    <3>4. v \in P
      BY <2>1, <2>2, <1>0, PacketChanges
    <3>5. v.dst = p.dst
      BY <2>1 DEF Packets
    <3>6. <<q>> \in Seq(P)
      BY <3>3
    <3> HIDE DEF q, v
    <3>7. [pkt |-> v, disc |-> e.disc] \in Slot(P)
      BY <3>4, <3>5, <2>3
    <3> QED
      BY <3>1, <3>6, <3>7 DEF f
  <2> QED
    BY <1>1, <1>2, <1>3, <2>4, <2>5, <2>6, <2>7
<1> QED
  BY <1>1, <1>2, <1>3, <1>4 DEF Slot

-----------------------------------------------------------------------------
(* The handling of pending packets, and the end of a step.                 *)

LEMMA HandlePendingKeeps ==
  ASSUME NEW P, Closed(P), NEW n \in Nodes, NEW s \in NodeStates(P), NEW rx, NEW due
  PROVE  HandlePending(n, s, rx, due) \in NodeStates(P) /\ SameMemory(s, HandlePending(n, s, rx, due))
<1> DEFINE late(a, i) == <<a, i>> \in due /\ s[a][i] = node[n][a][i]
           fate(a) == [i \in DOMAIN s[a] |-> Fate(n, s[a][i], rx, late(a, i))]
           resent(a) == FlattenSeq([i \in DOMAIN s[a] |-> Resent(s[a][i], fate(a)[i])])
           left(a) == [i \in DOMAIN s[a] |-> StillPending(n, s[a][i], fate(a)[i])]
           lostTo == {s[x[1]][x[2]].pkt.dst :
                        x \in {y \in due : fate(y[1])[y[2]] \in {"reroute", "fail"}}}
           routes == [d \in Nodes |-> IF d \in lostTo THEN None ELSE s.routes[d]]
           more == FromUs(n, resent("others") \o resent("ours"))
           t == [s EXCEPT !.others = left("others"), !.ours = left("ours"), !.routes = routes, !.out = s.out \o more]
<1>1. HandlePending(n, s, rx, due) = t
  BY DEF HandlePending
<1>2. /\ s.others \in [1 .. MaxNodes -> Slot(P)] /\ s.ours \in [1 .. MaxPendPkts -> Slot(P)]
      /\ s["others"] = s.others /\ s["ours"] = s.ours /\ s.routes \in [Nodes -> Routes] /\ s.out \in Seq(P)
      /\ MaxNodes \in Nat /\ MaxPendPkts \in Nat
  BY MeshConstants DEF NodeStates
<1>3. ASSUME NEW a, NEW k \in Nat, s[a] \in [1 .. k -> Slot(P)]
      PROVE  left(a) \in [1 .. k -> Slot(P)] /\ resent(a) \in Seq(P)
  <2>1. DOMAIN s[a] = 1 .. k
    BY <1>3
  <2>2. \A i \in 1 .. k : s[a][i] \in Slot(P) /\ fate(a)[i] = Fate(n, s[a][i], rx, late(a, i))
    BY <1>3, <2>1
  <2> HIDE DEF late, fate
  <2>3. \A i \in 1 .. k : Resent(s[a][i], fate(a)[i]) \in Seq(P) /\ StillPending(n, s[a][i], fate(a)[i]) \in Slot(P)
    BY <2>2, FateKeeps
  <2>4. left(a) \in [1 .. k -> Slot(P)]
    BY <2>1, <2>3
  <2>5. [i \in DOMAIN s[a] |-> Resent(s[a][i], fate(a)[i])] \in Seq(Seq(P))
    BY <2>1, <2>3
  <2> QED
    BY <2>4, <2>5, FlattenKeeps
<1> HIDE DEF late, fate, left, resent
<1>4. left("others") \in [1 .. MaxNodes -> Slot(P)] /\ resent("others") \in Seq(P)
  BY <1>2, <1>3
<1>5. left("ours") \in [1 .. MaxPendPkts -> Slot(P)] /\ resent("ours") \in Seq(P)
  BY <1>2, <1>3
<1>6. routes \in [Nodes -> Routes]
  BY <1>2 DEF Routes
<1>7. more \in Seq(P)
  <2>1. resent("others") \o resent("ours") \in Seq(P)
    BY <1>4, <1>5
  <2> QED
    BY <2>1, FromUsKeeps
<1>8. s.out \o more \in Seq(P)
  BY <1>2, <1>7
<1> DEFINE o == s.out \o more
<1>9. o \in Seq(P)
  BY <1>8
<1> HIDE DEF o, more, routes, lostTo
<1>10. t = [s EXCEPT !.others = left("others"), !.ours = left("ours"), !.routes = routes, !.out = o]
  BY DEF o
<1>11. t \in NodeStates(P)
  BY <1>4, <1>5, <1>6, <1>9, <1>10 DEF NodeStates
<1>12. SameMemory(s, t)
  BY DEF SameMemory, NodeStates
<1> QED
  BY <1>1, <1>11, <1>12

(* All packets are in P; between steps nodes hold nothing to send.         *)
NetIn(P) ==
  /\ node \in [Nodes -> NodeStates(P)] /\ air \in [Nodes -> Seq(P)]
  /\ \A n \in Nodes : node[n].out = <<>> /\ node[n].up = {} /\ Len(node[n].hist) <= MaxNodes /\ Len(air[n]) <= FifoSize

(* What the application gets at the end of a step.                         *)
Given(s) == {Key(p) : p \in {q \in s.up : q.type # "ack_rsp"}}

(* n's step ends with its state s.                                         *)
Ended(n, s) ==
  /\ node'[n].hist = s.hist /\ node'[n].seq = s.seq
  /\ \A m \in Nodes : m # n => node'[m] = node[m]
  /\ delivered' = [delivered EXCEPT ![n] = @ (+) SetToBag(Given(s))]

LEMMA FinishKeeps ==
  ASSUME NEW P, NetIn(P), NEW n \in Nodes, NEW stored, NEW s \in NodeStates(P), Len(s.hist) <= MaxNodes,
         NEW rest \in Seq(P), Finish(n, stored, s, rest)
  PROVE  NetIn(P)' /\ Ended(n, s)
<1> DEFINE queue(m) == IF m = n THEN rest ELSE IF m \in Neighbours[n] THEN air[m] \o s.out ELSE air[m]
           t == [s EXCEPT !.out = <<>>, !.up = {}]
<1>1. /\ node' = [node EXCEPT ![n] = t]
      /\ air' = [m \in Nodes |-> SubSeq(queue(m), 1, Min({Len(queue(m)), FifoSize}))]
      /\ delivered' = [delivered EXCEPT ![n] = @ (+) SetToBag({Key(p) : p \in {q \in s.up : q.type # "ack_rsp"}})]
  BY DEF Finish
<1>2. /\ t \in NodeStates(P) /\ t.hist = s.hist /\ t.seq = s.seq /\ t.out = <<>> /\ t.up = {}
  <2>1. <<>> \in Seq(P) /\ {} \in SUBSET P
    OBVIOUS
  <2>2. t \in NodeStates(P)
    BY <2>1 DEF NodeStates
  <2>3. t.hist = s.hist /\ t.seq = s.seq /\ t.out = <<>> /\ t.up = {}
    BY DEF NodeStates
  <2> QED
    BY <2>2, <2>3
<1>3. node' \in [Nodes -> NodeStates(P)] /\ node'[n] = t /\ \A m \in Nodes : m # n => node'[m] = node[m]
  <2> HIDE DEF t
  <2> QED
    BY <1>1, <1>2 DEF NetIn
<1>4. \A m \in Nodes : queue(m) \in Seq(P)
  BY DEF NetIn, NodeStates
<1> HIDE DEF queue, t
<1>5. \A k \in Nat : Min({k, FifoSize}) \in Nat /\ Min({k, FifoSize}) <= k /\ Min({k, FifoSize}) <= FifoSize
  <2>1. ASSUME NEW k \in Nat PROVE Min({k, FifoSize}) \in Nat /\ Min({k, FifoSize}) <= k /\ Min({k, FifoSize}) <= FifoSize
    <3>1. FifoSize \in Nat
      BY MeshConstants
    <3>2. \E x \in {k, FifoSize} : \A y \in {k, FifoSize} : x <= y
      BY <3>1
    <3> QED
      BY <3>1, <3>2 DEF Min
  <2> QED
    BY <2>1
<1>6. \A m \in Nodes : SubSeq(queue(m), 1, Min({Len(queue(m)), FifoSize})) \in Seq(P)
                       /\ Len(SubSeq(queue(m), 1, Min({Len(queue(m)), FifoSize}))) <= FifoSize
  <2>1. ASSUME NEW m \in Nodes
        PROVE  SubSeq(queue(m), 1, Min({Len(queue(m)), FifoSize})) \in Seq(P)
               /\ Len(SubSeq(queue(m), 1, Min({Len(queue(m)), FifoSize}))) <= FifoSize
    <3>1. PICK q : q = queue(m)
      OBVIOUS
    <3>2. q \in Seq(P) /\ Len(q) \in Nat
      BY <3>1, <1>4
    <3>3. PICK k : k = Min({Len(q), FifoSize})
      OBVIOUS
    <3>4. k \in Nat /\ k <= Len(q) /\ k <= FifoSize
      BY <3>2, <3>3, <1>5
    <3>5. SubSeq(q, 1, k) \in Seq(P) /\ Len(SubSeq(q, 1, k)) = k
      <4>1. \A i \in 1 .. k : q[i] \in P
        BY <3>2, <3>4
      <4> QED
        BY <3>2, <3>4, <4>1
    <3> QED
      BY <3>1, <3>3, <3>4, <3>5
  <2> QED
    BY <2>1
<1>7. air' \in [Nodes -> Seq(P)] /\ \A m \in Nodes : Len(air'[m]) <= FifoSize
  BY <1>1, <1>6
<1>8. \A m \in Nodes : node'[m].out = <<>> /\ node'[m].up = {} /\ Len(node'[m].hist) <= MaxNodes
  BY <1>2, <1>3 DEF NetIn
<1> QED
  BY <1>1, <1>2, <1>3, <1>7, <1>8 DEF NetIn, Given, Ended

-----------------------------------------------------------------------------
(* The steps.                                                              *)

LEMMA BagGrows ==
  ASSUME NEW b, NEW K, \A k \in DOMAIN b : b[k] \in Nat
  PROVE  LET c == b (+) SetToBag(K)
         IN  /\ DOMAIN c = DOMAIN b \cup K
             /\ \A k \in DOMAIN c : c[k] = (IF k \in DOMAIN b THEN b[k] ELSE 0) + (IF k \in K THEN 1 ELSE 0)
<1> DEFINE d == SetToBag(K)
<1>1. DOMAIN d = K /\ \A k \in K : d[k] = 1
  BY DEF SetToBag
<1> HIDE DEF d
<1>2. b (+) d = [e \in (DOMAIN b) \cup (DOMAIN d) |->
          (IF e \in DOMAIN b THEN b[e] ELSE 0) + (IF e \in DOMAIN d THEN d[e] ELSE 0)]
  BY DEF (+)
<1> QED
  BY <1>1, <1>2 DEF d

LEMMA ChoicesAreUses ==
  ASSUME NEW P, NetIn(P), NEW n \in Nodes, NEW use \in SlotChoices(n)
  PROVE  use \in Uses
<1>1. /\ DOMAIN node[n].ours = 1 .. MaxPendPkts /\ DOMAIN node[n].others = 1 .. MaxNodes
      /\ MaxPendPkts \in Nat /\ MaxPendPkts > 1 /\ MaxNodes \in Nat /\ MaxNodes > 1
  BY MeshConstants DEF NetIn, NodeStates
<1>2. ASSUME NEW slots, NEW k \in Nat, DOMAIN slots = 1 .. k PROVE SlotsToUse(slots) \subseteq 1 .. k
  <2> DEFINE free == {i \in DOMAIN slots : slots[i] = None}
  <2>1. CASE free # {}
    <3>1. free \in SUBSET Nat /\ free \subseteq 1 .. k
      BY <1>2
    <3> HIDE DEF free
    <3>2. \E x \in free : \A y \in free : x <= y
      BY <2>1, <3>1, LeastNatural
    <3>3. Min(free) \in free
      BY <3>2 DEF Min
    <3>4. SlotsToUse(slots) = {Min(free)}
      BY <2>1 DEF SlotsToUse, free
    <3> QED
      BY <3>1, <3>3, <3>4
  <2>2. CASE free = {}
    BY <2>2, <1>2 DEF SlotsToUse
  <2> QED
    BY <2>1, <2>2
<1>3. use.ours \in SlotsToUse(node[n].ours) /\ use.others \in SlotsToUse(node[n].others)
      /\ use = [ours |-> use.ours, others |-> use.others]
  BY DEF SlotChoices
<1>4. use.ours \in 1 .. MaxPendPkts /\ use.others \in 1 .. MaxNodes
  BY <1>1, <1>2, <1>3
<1> QED
  BY <1>3, <1>4 DEF Uses

CallTypes == called \in [Nodes -> Nat]

(* The call that n makes next.                                             *)
NextCall(n) == Calls[n][called[n] + 1]

LEMMA NextCallIsTyped ==
  ASSUME CallTypes, NEW n \in Nodes, called[n] < Len(Calls[n])
  PROVE  LET c == NextCall(n)
         IN  c.dst \in Nodes \cup {Broadcast} /\ c.type \in PktTypes /\ c.max \in 0 .. 15 /\ c.full \in BOOLEAN
<1> DEFINE C == [dst : (Nodes \ {n}) \cup {Broadcast}, type : PktTypes, max : 0 .. 15, full : BOOLEAN]
<1>1. Calls[n] \in Seq(C)
  BY CallsAreTyped
<1>2. called[n] + 1 \in 1 .. Len(Calls[n])
  BY <1>1 DEF CallTypes
<1> HIDE DEF C
<1>3. NextCall(n) \in C
  BY <1>1, <1>2 DEF NextCall
<1> QED
  BY <1>3 DEF C

FormedBy(n) == LET c == NextCall(n) IN FormPkt(n, node[n], c.dst, c.type, c.max, c.full)

LEMMA SendStep ==
  ASSUME NEW P, NetIn(P), Closed(P), CallTypes, NEW n \in Nodes, Send(n), FormedBy(n) \in P
  PROVE  /\ NetIn(P)' /\ CallTypes'
         /\ node'[n].hist = node[n].hist /\ node'[n].seq = (node[n].seq + 1) % 256
         /\ \A m \in Nodes : m # n => node'[m] = node[m]
         /\ delivered' = [delivered EXCEPT ![n] = @ (+) SetToBag({})]
<1>1. called[n] < Len(Calls[n]) /\ called' = [called EXCEPT ![n] = @ + 1]
  BY DEF Send
<1>2. PICK use \in SlotChoices(n) :
        LET c == NextCall(n)
        IN \E s \in {MeshSend(n, node[n], c.dst, c.type, c.max, c.full, use)} : Finish(n, s, s, air[n])
  BY DEF Send, NextCall
<1> DEFINE c == NextCall(n)
           s == MeshSend(n, node[n], c.dst, c.type, c.max, c.full, use)
<1>3. Finish(n, s, s, air[n])
  BY <1>2
<1>4. node[n] \in NodeStates(P) /\ air[n] \in Seq(P) /\ Len(node[n].hist) <= MaxNodes /\ node[n].up = {}
  BY DEF NetIn
<1>5. s \in NodeStates(P) /\ s.hist = node[n].hist /\ s.up = {} /\ s.seq = (node[n].seq + 1) % 256
  <2>1. c.dst \in Nodes \cup {Broadcast} /\ c.type \in PktTypes /\ c.max \in 0 .. 15 /\ c.full \in BOOLEAN
    BY <1>1, NextCallIsTyped
  <2>2. FormPkt(n, node[n], c.dst, c.type, c.max, c.full) \in P
    BY DEF FormedBy
  <2>3. use \in Uses
    BY ChoicesAreUses
  <2> HIDE DEF c
  <2>4. s \in NodeStates(P) /\ s.hist = node[n].hist /\ s.up = node[n].up /\ s.seq = (node[n].seq + 1) % 256
    <3>1. PICK s0, d, t, m, b : s0 = node[n] /\ d = c.dst /\ t = c.type /\ m = c.max /\ b = c.full
      OBVIOUS
    <3>2. /\ s0 \in NodeStates(P) /\ d \in Nodes \cup {Broadcast} /\ t \in PktTypes /\ m \in 0 .. 15 /\ b \in BOOLEAN
          /\ FormPkt(n, s0, d, t, m, b) \in P
      BY <3>1, <1>4, <2>1, <2>2
    <3>3. LET r == MeshSend(n, s0, d, t, m, b, use)
          IN  r \in NodeStates(P) /\ r.hist = s0.hist /\ r.up = s0.up /\ r.seq = (s0.seq + 1) % 256
      BY <3>2, <2>3, MeshSendKeeps
    <3> QED
      BY <3>1, <3>3
  <2> QED
    BY <2>4, <1>4
<1> HIDE DEF s
<1>6. /\ NetIn(P)' /\ node'[n].hist = s.hist /\ node'[n].seq = s.seq
      /\ \A m \in Nodes : m # n => node'[m] = node[m]
      /\ delivered' = [delivered EXCEPT ![n] = @ (+) SetToBag(Given(s))]
  <2>1. Len(s.hist) <= MaxNodes
    BY <1>4, <1>5
  <2> HIDE DEF c
  <2>2. NetIn(P)' /\ Ended(n, s)
    BY <1>3, <1>4, <1>5, <2>1, FinishKeeps
  <2> QED
    BY <2>2 DEF Ended
<1>7. Given(s) = {}
  BY <1>5 DEF Given
<1>8. CallTypes'
  BY <1>1 DEF CallTypes
<1> QED
  BY <1>5, <1>6, <1>7, <1>8

(* n looks at what is pending without having received anything.            *)
Looked(n) ==
  /\ node'[n].hist = node[n].hist /\ node'[n].seq = node[n].seq
  /\ delivered' = [delivered EXCEPT ![n] = @ (+) SetToBag({})]
  /\ heard' = [heard EXCEPT ![n] = @ \cup {}]

(* n has received p, and perhaps passed it on.                             *)
Took(n, p) ==
  /\ node'[n].hist = Remember(node[n], p) /\ node'[n].seq \in {node[n].seq, (node[n].seq + 1) % 256}
  /\ heard' = [heard EXCEPT ![n] = @ \cup {Key(p)}]
  /\ \E K \in SUBSET {Key(p)} :
       /\ delivered' = [delivered EXCEPT ![n] = @ (+) SetToBag(K)]
       /\ K # {} => ~ InHistory(node[n], p) \/ (p.dst = Broadcast /\ IsRetry(node[n], p))

LEMMA ServiceStep ==
  ASSUME NEW P, NetIn(P), Closed(P), NEW n \in Nodes, Service(n),
         node'[n].seq # node[n].seq => Forms(P, n, node[n])
  PROVE  /\ NetIn(P)' /\ UNCHANGED called
         /\ \A m \in Nodes : m # n => node'[m] = node[m]
         /\ Looked(n) \/ \E p \in P : air[n] # <<>> /\ p = air[n][1] /\ Took(n, p)
<1>1. PICK due \in SUBSET Slots(n), use \in SlotChoices(n) :
        \E got \in {Poll(n, use)} : \E s \in {HandlePending(n, got.s, got.rx, due)} :
          Finish(n, got.s, s, SubSeq(air[n], 2, Len(air[n])))
  BY DEF Service
<1>2. heard' = [heard EXCEPT ![n] = @ \cup {Key(air[n][i]) : i \in {1} \cap DOMAIN air[n]}] /\ UNCHANGED called
  BY DEF Service
<1> DEFINE got == Poll(n, use)
           s == HandlePending(n, got.s, got.rx, due)
           rest == SubSeq(air[n], 2, Len(air[n]))
<1>3. Finish(n, got.s, s, rest)
  BY <1>1
<1>4. /\ node[n] \in NodeStates(P) /\ air[n] \in Seq(P) /\ Len(node[n].hist) <= MaxNodes /\ node[n].up = {}
      /\ use \in Uses
  BY ChoicesAreUses DEF NetIn
<1>5. rest \in Seq(P)
  <2>1. PICK q : q = air[n]
    OBVIOUS
  <2>2. q \in Seq(P)
    BY <2>1, <1>4
  <2>3. SubSeq(q, 2, Len(q)) \in Seq(P)
    BY <2>2
  <2> QED
    BY <2>1, <2>3
<1> HIDE DEF got, s, rest
<1>6. ASSUME NEW Q, NetIn(Q), Closed(Q), got.s \in NodeStates(Q), Len(got.s.hist) <= MaxNodes, rest \in Seq(Q)
      PROVE  /\ NetIn(Q)' /\ node'[n].hist = got.s.hist /\ node'[n].seq = got.s.seq
             /\ \A m \in Nodes : m # n => node'[m] = node[m]
             /\ delivered' = [delivered EXCEPT ![n] =
                                @ (+) SetToBag(Given(got.s))]
  <2>1. s \in NodeStates(Q) /\ SameMemory(got.s, s)
    BY <1>6, HandlePendingKeeps DEF s
  <2>2. s.hist = got.s.hist /\ s.seq = got.s.seq /\ s.up = got.s.up
    BY <2>1 DEF SameMemory
  <2>3. NetIn(Q)' /\ Ended(n, s)
    BY <1>3, <1>6, <2>1, <2>2, FinishKeeps
  <2>4. Given(s) = Given(got.s)
    BY <2>2 DEF Given
  <2> QED
    BY <2>2, <2>3, <2>4 DEF Ended
<1>7. CASE air[n] = <<>>
  <2>1. got.s = node[n]
    BY <1>7 DEF got, Poll
  <2>2. /\ NetIn(P)' /\ node'[n].hist = node[n].hist /\ node'[n].seq = node[n].seq
        /\ \A m \in Nodes : m # n => node'[m] = node[m]
        /\ delivered' = [delivered EXCEPT ![n] =
                           @ (+) SetToBag(Given(got.s))]
    BY <1>4, <1>5, <1>6, <2>1
  <2>3. Given(got.s) = {}
    BY <1>4, <2>1 DEF Given
  <2>4. {Key(air[n][i]) : i \in {1} \cap DOMAIN air[n]} = {}
    BY <1>7
  <2> QED
    BY <1>2, <2>2, <2>3, <2>4 DEF Looked
<1>8. CASE air[n] # <<>>
  <2>1. PICK p \in P : p = air[n][1] /\ p = Head(air[n]) /\ 1 \in DOMAIN air[n]
    BY <1>4, <1>8
  <2>2. got = Receive(n, node[n], p, use)
    BY <1>8, <2>1 DEF got, Poll
  <2>3. Len(Remember(node[n], p)) <= MaxNodes
    BY <1>4, RememberKeeps DEF Closed
  <2>4. node'[n].seq = got.s.seq
    <3>1. Closed(Packets) /\ Forms(Packets, n, node[n]) /\ p \in Packets /\ P \subseteq Packets
      BY AllPackets DEF Closed
    <3>2. node[n] \in NodeStates(Packets) /\ rest \in Seq(Packets) /\ NetIn(Packets)
      <4>1. NodeStates(P) \subseteq NodeStates(Packets)
        BY <3>1, StatesGrow
      <4>2. Seq(P) \subseteq Seq(Packets)
        BY <3>1
      <4> QED
        BY <4>1, <4>2, <1>4, <1>5 DEF NetIn
    <3>3. got.s \in NodeStates(Packets) /\ got.s.hist = Remember(node[n], p)
      BY <2>2, <3>1, <3>2, <1>4, ReceiveKeeps
    <3> QED
      BY <1>6, <2>3, <3>1, <3>2, <3>3
  <2>5. got.s.seq # node[n].seq => Forms(P, n, node[n])
    BY <2>4
  <2>6. /\ got.s \in NodeStates(P) /\ got.s.hist = Remember(node[n], p)
        /\ got.s.seq \in {node[n].seq, (node[n].seq + 1) % 256}
        /\ \/ got.s.up = node[n].up
           \/ got.s.up = {p} /\ (~ InHistory(node[n], p) \/ (p.dst = Broadcast /\ IsRetry(node[n], p)))
    BY <2>2, <2>5, <1>4, ReceiveKeeps
  <2>7. /\ NetIn(P)' /\ node'[n].hist = Remember(node[n], p) /\ node'[n].seq = got.s.seq
        /\ \A m \in Nodes : m # n => node'[m] = node[m]
        /\ delivered' = [delivered EXCEPT ![n] =
                           @ (+) SetToBag(Given(got.s))]
    BY <1>5, <1>6, <2>3, <2>6
  <2>8. PICK K : K = Given(got.s)
    OBVIOUS
  <2>9. /\ K \in SUBSET {Key(p)}
        /\ K # {} => ~ InHistory(node[n], p) \/ (p.dst = Broadcast /\ IsRetry(node[n], p))
    BY <2>6, <2>8, <1>4 DEF Given
  <2>10. {Key(air[n][i]) : i \in {1} \cap DOMAIN air[n]} = {Key(p)}
    BY <2>1
  <2>11. Took(n, p)
    BY <1>2, <2>6, <2>7, <2>8, <2>9, <2>10 DEF Took
  <2> QED
    BY <1>2, <1>8, <2>1, <2>7, <2>11
<1> QED
  BY <1>7, <1>8

-----------------------------------------------------------------------------
(* Losses, and the types.                                                  *)

LEMMA NetGrows ==
  ASSUME NEW P, NEW Q, P \subseteq Q, NetIn(P)
  PROVE  NetIn(Q)
<1>1. NodeStates(P) \subseteq NodeStates(Q)
  BY StatesGrow
<1>2. Seq(P) \subseteq Seq(Q)
  OBVIOUS
<1> QED
  BY <1>1, <1>2 DEF NetIn

LEMMA LoseStep ==
  ASSUME NEW P, NetIn(P), NEW n \in Nodes, Lose(n)
  PROVE  NetIn(P)' /\ UNCHANGED <<node, called, heard, delivered>>
<1>1. /\ air[n] # <<>> /\ air' = [air EXCEPT ![n] = Tail(@)]
      /\ UNCHANGED <<node, called, heard, delivered>>
  BY DEF Lose, history
<1>2. air[n] \in Seq(P) /\ Len(air[n]) <= FifoSize
  BY DEF NetIn
<1>3. Tail(air[n]) \in Seq(P) /\ Len(Tail(air[n])) <= FifoSize
  <2>1. PICK q : q = air[n]
    OBVIOUS
  <2>2. q \in Seq(P) /\ q # <<>> /\ Len(q) <= FifoSize /\ FifoSize \in Nat
    BY <1>1, <1>2, <2>1, MeshConstants
  <2>3. Tail(q) \in Seq(P) /\ Len(Tail(q)) = Len(q) - 1
    BY <2>2
  <2> QED
    BY <2>1, <2>2, <2>3
<1>4. air' \in [Nodes -> Seq(P)] /\ \A m \in Nodes : Len(air'[m]) <= FifoSize
  BY <1>1, <1>3 DEF NetIn
<1> QED
  BY <1>1, <1>4 DEF NetIn

MeshTypes ==
  /\ NetIn(Packets) /\ CallTypes
  /\ lost \in 0 .. MaxLosses /\ early \in 0 .. MaxEarly /\ overrun \in BOOLEAN

LEMMA MeshTypesInit == MeshInit => MeshTypes
<1> SUFFICES ASSUME MeshInit PROVE MeshTypes
  OBVIOUS
<1>1. InitNode \in NodeStates(Packets) /\ InitNode.out = <<>> /\ InitNode.up = {} /\ InitNode.hist = <<>>
  BY DEF InitNode, NodeStates, Slot, Routes
<1>2. NetIn(Packets)
  <2>1. node = [n \in Nodes |-> InitNode] /\ air = [n \in Nodes |-> <<>>]
    BY DEF MeshInit
  <2>2. <<>> \in Seq(Packets) /\ Len(<<>>) = 0 /\ 0 <= FifoSize /\ 0 <= MaxNodes
    BY MeshConstants
  <2> HIDE DEF InitNode
  <2> QED
    BY <1>1, <2>1, <2>2 DEF NetIn
<1>3. CallTypes
  BY DEF MeshInit, CallTypes
<1>4. lost \in 0 .. MaxLosses /\ early \in 0 .. MaxEarly /\ overrun \in BOOLEAN
  <2>1. lost = 0 /\ early = 0 /\ overrun = FALSE
    BY DEF MeshInit
  <2>2. 0 \in 0 .. MaxLosses /\ 0 \in 0 .. MaxEarly
    BY MeshConstants
  <2> QED
    BY <2>1, <2>2, Zenon
<1> QED
  BY <1>2, <1>3, <1>4 DEF MeshTypes

LEMMA MeshTypesStep == MeshTypes /\ [MeshNext]_meshVars => MeshTypes'
<1> SUFFICES ASSUME MeshTypes, [MeshNext]_meshVars PROVE MeshTypes'
  OBVIOUS
<1>0. MaxLosses \in Nat /\ MaxEarly \in Nat /\ NetIn(Packets) /\ CallTypes /\ Closed(Packets)
  BY MeshConstants, AllPackets DEF MeshTypes
<1>1. ASSUME NEW n \in Nodes, Send(n) PROVE MeshTypes'
  <2>1. FormedBy(n) \in Packets
    <3>1. called[n] < Len(Calls[n]) /\ node[n] \in NodeStates(Packets)
      BY <1>0, <1>1 DEF Send, NetIn
    <3>2. LET c == NextCall(n)
          IN  c.dst \in Nodes \cup {Broadcast} /\ c.type \in PktTypes /\ c.max \in 0 .. 15 /\ c.full \in BOOLEAN
      BY <1>0, <3>1, NextCallIsTyped
    <3>3. PICK s, d, t, m, b : LET c == NextCall(n) IN s = node[n] /\ d = c.dst /\ t = c.type /\ m = c.max /\ b = c.full
      OBVIOUS
    <3>4. FormPkt(n, s, d, t, m, b) \in Packets
      BY <3>1, <3>2, <3>3, FormedPacket
    <3> QED
      BY <3>3, <3>4 DEF FormedBy
  <2>2. NetIn(Packets)' /\ CallTypes'
    BY <1>0, <1>1, <2>1, SendStep
  <2>3. UNCHANGED <<lost, early>>
    BY <1>1 DEF Send
  <2>4. overrun' \in BOOLEAN
    BY <1>1 DEF Send, Finish, MeshTypes
  <2> QED
    BY <2>2, <2>3, <2>4 DEF MeshTypes
<1>2. ASSUME NEW n \in Nodes, Service(n) PROVE MeshTypes'
  <2>1. NetIn(Packets)' /\ called' = called
    BY <1>0, <1>2, ServiceStep, AllPackets
  <2>2. lost' = lost
    BY <1>2 DEF Service
  <2>3. early' \in 0 .. MaxEarly
    <3>1. early' \in {early, early + 1} /\ early' <= MaxEarly
      BY <1>2 DEF Service
    <3> QED
      BY <1>0, <3>1 DEF MeshTypes
  <2>4. overrun' \in BOOLEAN
    BY <1>2 DEF Service, Finish, MeshTypes
  <2> QED
    BY <2>1, <2>2, <2>3, <2>4 DEF MeshTypes, CallTypes
<1>3. ASSUME NEW n \in Nodes, Lose(n) PROVE MeshTypes'
  <2>1. NetIn(Packets)' /\ called' = called
    BY <1>0, <1>3, LoseStep
  <2>2. lost' \in 0 .. MaxLosses /\ UNCHANGED <<early, overrun>>
    BY <1>0, <1>3 DEF Lose, history, MeshTypes
  <2> QED
    BY <2>1, <2>2 DEF MeshTypes, CallTypes
<1>4. CASE UNCHANGED meshVars
  BY <1>4 DEF meshVars, history, MeshTypes, NetIn, CallTypes
<1> QED
  BY <1>1, <1>2, <1>3, <1>4 DEF MeshNext

LEMMA MeshTypesHold == MeshTypes => MeshTypeOK
<1> SUFFICES ASSUME MeshTypes PROVE MeshTypeOK
  OBVIOUS
<1>1. ASSUME NEW n \in Nodes
      PROVE  LET s == node[n] IN
       /\ \A d \in Nodes : s.routes[d] \in [next : Nodes, hops : 0 .. 15] \cup {None}
       /\ Len(s.hist) <= MaxNodes
       /\ \A e \in Range(s.others) \cup Range(s.ours) : e \in Entry \cup {None}
       /\ s.seq \in 0 .. 255 /\ s.out = <<>> /\ s.up = {}
  <2>1. node[n] \in NodeStates(Packets) /\ Len(node[n].hist) <= MaxNodes /\ node[n].out = <<>> /\ node[n].up = {}
    BY DEF MeshTypes, NetIn
  <2>2. Slot(Packets) \subseteq Entry \cup {None}
    BY DEF Slot, Pending, Entry
  <2>3. \A e \in Range(node[n].others) \cup Range(node[n].ours) : e \in Slot(Packets)
    <3>1. node[n].others \in [1 .. MaxNodes -> Slot(Packets)] /\ node[n].ours \in [1 .. MaxPendPkts -> Slot(Packets)]
      BY <2>1 DEF NodeStates
    <3>2. ASSUME NEW k, NEW f \in [1 .. k -> Slot(Packets)] PROVE Range(f) \subseteq Slot(Packets)
      BY DEF Range
    <3>3. Range(node[n].others) \subseteq Slot(Packets) /\ Range(node[n].ours) \subseteq Slot(Packets)
      BY <3>1, <3>2
    <3> QED
      BY <3>3
  <2>4. \A d \in Nodes : node[n].routes[d] \in [next : Nodes, hops : 0 .. 15] \cup {None}
    BY <2>1 DEF NodeStates, Routes
  <2>5. node[n].seq \in 0 .. 255
    BY <2>1 DEF NodeStates
  <2> QED
    BY <2>1, <2>2, <2>3, <2>4, <2>5
<1>2. ASSUME NEW n \in Nodes PROVE Len(air[n]) <= FifoSize /\ \A p \in Range(air[n]) : p \in Packets
  BY DEF MeshTypes, NetIn, Range
<1> QED
  BY <1>1, <1>2 DEF MeshTypes, MeshTypeOK

-----------------------------------------------------------------------------
(* The history.                                                            *)

(* The history h of a node that heard the packets with keys H: each packet  *)
(* has one place in it, and as long as all fit into it none is missing.    *)
Memory(h, H) ==
  /\ IsFiniteSet(H)
  /\ \A i, j \in DOMAIN h : h[i].src = h[j].src /\ h[i].id = h[j].id => i = j
  /\ \A i \in DOMAIN h : \E k \in H : k[1] = h[i].src /\ k[3] = h[i].id
  /\ Cardinality(H) <= MaxNodes => \A k \in H : \E i \in DOMAIN h : h[i].src = k[1] /\ h[i].id = k[3]

LEMMA HistIsHeard ==
  ASSUME NEW h \in Seq(HistEntries), NEW H, Memory(h, H)
  PROVE  Len(h) <= Cardinality(H) /\ Cardinality(H) \in Nat
<1> DEFINE f == [i \in 1 .. Len(h) |-> CHOOSE k \in H : k[1] = h[i].src /\ k[3] = h[i].id]
<1>1. DOMAIN h = 1 .. Len(h) /\ Len(h) \in Nat
  OBVIOUS
<1>2. \A i \in 1 .. Len(h) : f[i] \in H /\ f[i][1] = h[i].src /\ f[i][3] = h[i].id
  BY <1>1 DEF Memory
<1> HIDE DEF f
<1>3. f \in [1 .. Len(h) -> H]
  BY <1>2 DEF f
<1>4. \A i, j \in 1 .. Len(h) : f[i] = f[j] => i = j
  BY <1>1, <1>2 DEF Memory
<1>5. f \in Injection(1 .. Len(h), H)
  BY <1>3, <1>4 DEF Injection, IsInjective
<1>6. IsFiniteSet(H)
  BY DEF Memory
<1>7. Cardinality(1 .. Len(h)) <= Cardinality(H)
  BY <1>5, <1>6, FS_Injection
<1>8. Cardinality(1 .. Len(h)) = Len(h)
  <2>1. 1 \in Int /\ Len(h) \in Int
    BY <1>1
  <2>2. Cardinality(1 .. Len(h)) = IF 1 > Len(h) THEN 0 ELSE Len(h) - 1 + 1
    BY <2>1, FS_Interval
  <2> QED
    BY <2>2, <1>1
<1>9. Cardinality(H) \in Nat
  BY <1>6, FS_CardinalityType
<1> QED
  BY <1>7, <1>8, <1>9

LEMMA AppendIs ==
  ASSUME NEW S, NEW q \in Seq(S), NEW e \in S
  PROVE  /\ DOMAIN Append(q, e) = 1 .. Len(q) + 1 /\ Append(q, e)[Len(q) + 1] = e
         /\ \A i \in 1 .. Len(q) : Append(q, e)[i] = q[i]
         /\ \A i \in 1 .. Len(q) + 1 : i \in 1 .. Len(q) \/ i = Len(q) + 1
OBVIOUS

LEMMA TailAppendIs ==
  ASSUME NEW S, NEW q \in Seq(S), NEW e \in S, Len(q) > 0
  PROVE  /\ DOMAIN Append(Tail(q), e) = 1 .. Len(q) /\ Append(Tail(q), e)[Len(q)] = e
         /\ \A i \in 1 .. Len(q) : i # Len(q) => i + 1 \in 1 .. Len(q) /\ Append(Tail(q), e)[i] = q[i + 1]
OBVIOUS

LEMMA RememberRemembers ==
  ASSUME NEW P, NEW s \in NodeStates(P), NEW p \in Packets, Len(s.hist) <= MaxNodes, NEW H, Memory(s.hist, H)
  PROVE  /\ Memory(Remember(s, p), H \cup {Key(p)})
         /\ Cardinality(H \cup {Key(p)}) <= MaxNodes /\ ~ InHistory(s, p) => Key(p) \notin H
         /\ Cardinality(H) <= Cardinality(H \cup {Key(p)})
<1> DEFINE h == s.hist
           e == [src |-> p.src, id |-> p.id, retries |-> p.retries]
           k == Key(p)
           room == IF Len(h) = MaxNodes THEN Tail(h) ELSE h
           r == Remember(s, p)
<1>1. /\ h \in Seq(HistEntries) /\ Len(h) <= MaxNodes /\ MaxNodes \in Nat /\ MaxNodes > 1 /\ Memory(h, H)
      /\ DOMAIN h = 1 .. Len(h) /\ Len(h) \in Nat
      /\ e.src = p.src /\ e.id = p.id /\ k[1] = p.src /\ k[3] = p.id
      /\ e \in HistEntries
  BY MeshConstants DEF NodeStates, Key, HistEntries, Packets
<1>2. r = IF InHistory(s, p)
        THEN [i \in DOMAIN h |-> IF h[i].src = e.src /\ h[i].id = e.id THEN e ELSE h[i]]
        ELSE Append(room, e)
  BY DEF Remember
<1>3. InHistory(s, p) <=> \E i \in DOMAIN h : h[i].src = p.src /\ h[i].id = p.id
  BY DEF InHistory
<1> HIDE DEF h, e, k, r
<1>4. /\ IsFiniteSet(H) /\ Cardinality(H) \in Nat /\ Len(h) <= Cardinality(H)
  BY <1>1, HistIsHeard DEF Memory
<1>5. IsFiniteSet(H \cup {k}) /\ Cardinality(H \cup {k}) = IF k \in H THEN Cardinality(H) ELSE Cardinality(H) + 1
  BY <1>4, FS_AddElement
<1>6. Cardinality(H \cup {k}) <= MaxNodes /\ ~ InHistory(s, p) => k \notin H /\ Len(h) < MaxNodes
  <2> SUFFICES ASSUME Cardinality(H \cup {k}) <= MaxNodes, ~ InHistory(s, p)
               PROVE  k \notin H /\ Len(h) < MaxNodes
    OBVIOUS
  <2>1. Cardinality(H) <= MaxNodes
    BY <1>1, <1>4, <1>5
  <2>2. k \notin H
    BY <2>1, <1>1, <1>3 DEF Memory
  <2> QED
    BY <2>2, <1>1, <1>4, <1>5
<1>7. Cardinality(H \cup {k}) <= MaxNodes => Cardinality(H) <= MaxNodes
  BY <1>1, <1>4, <1>5
<1>8. CASE InHistory(s, p)
  <2>1. r = [i \in 1 .. Len(h) |-> IF h[i].src = e.src /\ h[i].id = e.id THEN e ELSE h[i]]
    BY <1>1, <1>2, <1>8
  <2>2. DOMAIN r = 1 .. Len(h) /\ \A i \in 1 .. Len(h) : r[i].src = h[i].src /\ r[i].id = h[i].id
    BY <2>1
  <2>3. \A i, j \in DOMAIN r : r[i].src = r[j].src /\ r[i].id = r[j].id => i = j
    BY <2>2, <1>1 DEF Memory
  <2>4. \A i \in DOMAIN r : \E l \in H \cup {k} : l[1] = r[i].src /\ l[3] = r[i].id
    BY <2>2, <1>1 DEF Memory
  <2>5. ASSUME Cardinality(H \cup {k}) <= MaxNodes, NEW l \in H \cup {k}
        PROVE  \E i \in DOMAIN r : r[i].src = l[1] /\ r[i].id = l[3]
    <3>1. CASE l \in H
      BY <3>1, <2>2, <2>5, <1>1, <1>7 DEF Memory
    <3>2. CASE l = k
      BY <3>2, <2>2, <1>1, <1>3, <1>8
    <3> QED
      BY <3>1, <3>2
  <2> QED
    BY <2>3, <2>4, <2>5, <1>5, <1>4, <1>6 DEF Memory, r, k
<1>9. CASE ~ InHistory(s, p) /\ Len(h) = MaxNodes
  <2>1. r = Append(Tail(h), e)
    BY <1>2, <1>9
  <2>2. /\ DOMAIN r = 1 .. Len(h) /\ r[Len(h)] = e
        /\ \A i \in 1 .. Len(h) : i # Len(h) => i + 1 \in 1 .. Len(h) /\ r[i] = h[i + 1]
    <3>1. Len(h) > 0
      BY <1>1, <1>9
    <3>2. h \in Seq(HistEntries) /\ e \in HistEntries
      BY <1>1
    <3>3. /\ DOMAIN Append(Tail(h), e) = 1 .. Len(h) /\ Append(Tail(h), e)[Len(h)] = e
          /\ \A i \in 1 .. Len(h) : i # Len(h) => i + 1 \in 1 .. Len(h) /\ Append(Tail(h), e)[i] = h[i + 1]
      BY <3>1, <3>2, TailAppendIs
    <3> QED
      BY <2>1, <3>3
  <2>3. ASSUME NEW i \in DOMAIN r, NEW j \in DOMAIN r, r[i].src = r[j].src, r[i].id = r[j].id PROVE i = j
    <3>1. \A m \in 1 .. Len(h) : ~ (h[m].src = e.src /\ h[m].id = e.id)
      BY <1>1, <1>3, <1>9
    <3>2. CASE i # Len(h) /\ j # Len(h)
      <4>1. i + 1 \in 1 .. Len(h) /\ j + 1 \in 1 .. Len(h) /\ r[i] = h[i + 1] /\ r[j] = h[j + 1]
        BY <2>2, <2>3, <3>2
      <4>2. i + 1 = j + 1
        BY <4>1, <2>3, <1>1 DEF Memory
      <4> QED
        BY <4>2, <2>2
    <3>3. CASE i = Len(h) /\ j # Len(h)
      <4>1. j + 1 \in 1 .. Len(h) /\ r[j] = h[j + 1] /\ r[i] = e
        BY <2>2, <2>3, <3>3
      <4> QED
        BY <4>1, <2>3, <3>1
    <3>4. CASE j = Len(h) /\ i # Len(h)
      <4>1. i + 1 \in 1 .. Len(h) /\ r[i] = h[i + 1] /\ r[j] = e
        BY <2>2, <2>3, <3>4
      <4> QED
        BY <4>1, <2>3, <3>1
    <3> QED
      BY <3>2, <3>3, <3>4
  <2>4. ASSUME NEW i \in DOMAIN r PROVE \E l \in H \cup {k} : l[1] = r[i].src /\ l[3] = r[i].id
    <3>1. CASE i # Len(h)
      <4>1. i + 1 \in 1 .. Len(h) /\ r[i] = h[i + 1]
        BY <2>2, <3>1
      <4> QED
        BY <4>1, <1>1 DEF Memory
    <3>2. CASE i = Len(h)
      BY <3>2, <2>2, <1>1
    <3> QED
      BY <3>1, <3>2
  <2>5. ~ Cardinality(H \cup {k}) <= MaxNodes
    BY <1>6, <1>9, <1>1
  <2> QED
    BY <2>3, <2>4, <2>5, <1>5, <1>4 DEF Memory, r, k
<1>10. CASE ~ InHistory(s, p) /\ Len(h) # MaxNodes
  <2>1. r = Append(h, e)
    BY <1>2, <1>10
  <2>2. /\ DOMAIN r = 1 .. Len(h) + 1 /\ r[Len(h) + 1] = e
        /\ \A i \in 1 .. Len(h) : r[i] = h[i]
    BY <2>1, <1>1, AppendIs
  <2>3. ASSUME NEW i \in DOMAIN r, NEW j \in DOMAIN r, r[i].src = r[j].src, r[i].id = r[j].id PROVE i = j
    <3>1. \A m \in 1 .. Len(h) : ~ (h[m].src = e.src /\ h[m].id = e.id)
      BY <1>1, <1>3, <1>10
    <3>2. CASE i \in 1 .. Len(h) /\ j \in 1 .. Len(h)
      BY <3>2, <2>2, <2>3, <1>1 DEF Memory
    <3>3. i \in 1 .. Len(h) \/ i = Len(h) + 1
      BY <2>2, <1>1
    <3>4. j \in 1 .. Len(h) \/ j = Len(h) + 1
      BY <2>2, <1>1
    <3> QED
      BY <2>2, <2>3, <3>1, <3>2, <3>3, <3>4
  <2>4. ASSUME NEW i \in DOMAIN r PROVE \E l \in H \cup {k} : l[1] = r[i].src /\ l[3] = r[i].id
    <3>1. i \in 1 .. Len(h) \/ i = Len(h) + 1
      BY <2>2, <1>1
    <3>2. CASE i \in 1 .. Len(h)
      BY <3>2, <2>2, <1>1 DEF Memory
    <3>3. CASE i = Len(h) + 1
      BY <3>3, <2>2, <1>1
    <3> QED
      BY <3>1, <3>2, <3>3
  <2>5. ASSUME Cardinality(H \cup {k}) <= MaxNodes, NEW l \in H \cup {k}
        PROVE  \E i \in DOMAIN r : r[i].src = l[1] /\ r[i].id = l[3]
    <3>1. CASE l \in H
      <4>1. PICK i \in 1 .. Len(h) : h[i].src = l[1] /\ h[i].id = l[3]
        BY <3>1, <2>5, <1>1, <1>7 DEF Memory
      <4>2. i \in 1 .. Len(h) + 1 /\ r[i] = h[i]
        BY <2>2, <1>1
      <4> QED
        BY <4>1, <4>2, <2>2
    <3>2. CASE l = k
      <4>1. Len(h) + 1 \in DOMAIN r
        BY <2>2, <1>1
      <4> QED
        BY <3>2, <4>1, <2>2, <1>1
    <3> QED
      BY <3>1, <3>2
  <2> QED
    BY <2>3, <2>4, <2>5, <1>5, <1>4, <1>6 DEF Memory, r, k
<1> QED
  BY <1>8, <1>9, <1>10

-----------------------------------------------------------------------------
(* The packets that are known.                                             *)

(* The packets with numbers given away already; the pairs in B are those   *)
(* of broadcasts, which nobody retries.                                    *)
Known(B, nodes) ==
  {p \in Packets :
     /\ p.id <= nodes[p.src].seq
     /\ p.dst = Broadcast => <<p.src, p.id>> \in B /\ p.retries = RetryCount
     /\ p.dst # Broadcast => <<p.src, p.id>> \notin B}

KnownHist(B, nodes, h) ==
  \A i \in DOMAIN h : h[i].id <= nodes[h[i].src].seq /\ (<<h[i].src, h[i].id>> \in B => h[i].retries = RetryCount)

DeliveredInv(n) ==
  /\ DOMAIN delivered[n] \subseteq heard[n] /\ \A k \in DOMAIN delivered[n] : delivered[n][k] \in Nat
  /\ \A k \in DOMAIN delivered[n] : delivered[n][k] > 1 => Cardinality(heard[n]) > MaxNodes

OnceInv ==
  /\ MeshTypes /\ DOMAIN delivered = Nodes /\ DOMAIN heard = Nodes
  /\ \A n \in Nodes : Memory(node[n].hist, heard[n]) /\ DeliveredInv(n)
  /\ \E B, P :
       /\ P = Known(B, node) /\ NetIn(P)
       /\ \A n \in Nodes : KnownHist(B, node, node[n].hist)
       /\ \A n \in Nodes, i \in 0 .. 255 : <<n, i>> \in B => i <= node[n].seq

(* No sequence number starts over in this step.                            *)
NumbersGrow == \A n \in Nodes : node[n].seq <= node'[n].seq

LEMMA Ordered ==
  ASSUME NEW i \in 0 .. 255, NEW a \in 0 .. 255, NEW b \in 0 .. 255, i <= a, a <= b
  PROVE  i <= b
OBVIOUS

LEMMA EntryTyped ==
  ASSUME NEW S, NEW h \in Seq(S), NEW i \in DOMAIN h
  PROVE  h[i] \in S
OBVIOUS

LEMMA KnownIsClosed ==
  ASSUME NEW B, NEW nodes PROVE Closed(Known(B, nodes))
<1>1. Known(B, nodes) \subseteq Packets
  BY DEF Known
<1>2. ASSUME NEW p \in Known(B, nodes), NEW q \in Packets,
             q.src = p.src, q.dst = p.dst, q.id = p.id, p.dst = Broadcast => q.retries = p.retries
      PROVE  q \in Known(B, nodes)
  BY <1>2 DEF Known
<1> QED
  BY <1>1, <1>2 DEF Closed

(* Numbers that grow make more packets known, if B gets only new ones.     *)
LEMMA KnownGrows ==
  ASSUME NEW B, NEW B2, NEW nodes \in [Nodes -> NodeStates(Packets)], NEW nodes2 \in [Nodes -> NodeStates(Packets)],
         \A n \in Nodes : nodes[n].seq <= nodes2[n].seq,
         \A n \in Nodes, i \in 0 .. 255 : i <= nodes[n].seq => (<<n, i>> \in B2 <=> <<n, i>> \in B)
  PROVE  /\ Known(B, nodes) \subseteq Known(B2, nodes2)
         /\ \A h \in Seq(HistEntries) : KnownHist(B, nodes, h) => KnownHist(B2, nodes2, h)
<1>0. \A n \in Nodes : nodes[n].seq \in 0 .. 255 /\ nodes2[n].seq \in 0 .. 255
  BY DEF NodeStates
<1>1. ASSUME NEW p \in Known(B, nodes) PROVE p \in Known(B2, nodes2)
  <2>1. p \in Packets /\ p.src \in Nodes /\ p.id \in 0 .. 255 /\ p.id <= nodes[p.src].seq
    BY DEF Known, Packets
  <2>2. p.id <= nodes2[p.src].seq /\ (<<p.src, p.id>> \in B2 <=> <<p.src, p.id>> \in B)
    <3>1. PICK m, i : m = p.src /\ i = p.id
      OBVIOUS
    <3>2. m \in Nodes /\ i \in 0 .. 255 /\ i <= nodes[m].seq /\ nodes[m].seq <= nodes2[m].seq
      BY <2>1, <3>1
    <3>3. i <= nodes2[m].seq
      <4>1. nodes[m].seq \in 0 .. 255 /\ nodes2[m].seq \in 0 .. 255
        BY <3>2, <1>0
      <4>2. PICK a, b : a = nodes[m].seq /\ b = nodes2[m].seq
        OBVIOUS
      <4>3. a \in 0 .. 255 /\ b \in 0 .. 255 /\ i <= a /\ a <= b
        BY <3>2, <4>1, <4>2
      <4>4. i <= b
        BY ONLY <3>2, <4>3, Ordered
      <4> QED
        BY <4>2, <4>4
    <3> QED
      BY <3>1, <3>2, <3>3
  <2> QED
    BY <2>1, <2>2 DEF Known
<1>2. ASSUME NEW h \in Seq(HistEntries), KnownHist(B, nodes, h), NEW i \in DOMAIN h
      PROVE  h[i].id <= nodes2[h[i].src].seq /\ (<<h[i].src, h[i].id>> \in B2 => h[i].retries = RetryCount)
  <2>1. h[i] \in HistEntries
    BY EntryTyped
  <2>2. PICK m, d : m = h[i].src /\ d = h[i].id
    OBVIOUS
  <2>3. m \in Nodes /\ d \in 0 .. 255
    BY <2>1, <2>2 DEF HistEntries
  <2>4. d <= nodes[m].seq /\ (<<m, d>> \in B => h[i].retries = RetryCount)
    BY <1>2, <2>2 DEF KnownHist
  <2>5. d <= nodes2[m].seq /\ (<<m, d>> \in B2 <=> <<m, d>> \in B)
    <3>1. nodes[m].seq \in 0 .. 255 /\ nodes2[m].seq \in 0 .. 255 /\ nodes[m].seq <= nodes2[m].seq
      BY <1>0, <2>3
    <3>2. d <= nodes2[m].seq
      <4>2. PICK a, b : a = nodes[m].seq /\ b = nodes2[m].seq
        OBVIOUS
      <4>3. a \in 0 .. 255 /\ b \in 0 .. 255 /\ d <= a /\ a <= b
        BY <2>4, <3>1, <4>2
      <4>4. d <= b
        BY ONLY <2>3, <4>3, Ordered
      <4> QED
        BY <4>2, <4>4
    <3> QED
      BY <2>3, <2>4, <3>2
  <2> QED
    BY <2>2, <2>4, <2>5
<1> QED
  BY <1>1, <1>2 DEF KnownHist

LEMMA OnceInit == MeshInit => OnceInv
<1> SUFFICES ASSUME MeshInit PROVE OnceInv
  OBVIOUS
<1>1. MeshTypes
  BY MeshTypesInit
<1>2. /\ node = [n \in Nodes |-> InitNode] /\ air = [n \in Nodes |-> <<>>]
      /\ heard = [n \in Nodes |-> {}] /\ delivered = [n \in Nodes |-> EmptyBag]
  BY DEF MeshInit
<1>3. DOMAIN EmptyBag = {}
  BY DEF EmptyBag, SetToBag
<1>4. /\ InitNode.hist = <<>> /\ InitNode.out = <<>> /\ InitNode.up = {} /\ InitNode.seq = 0
      /\ \A P : InitNode \in NodeStates(P)
  BY DEF InitNode, NodeStates, Slot, Routes
<1> HIDE DEF InitNode
<1>5. ASSUME NEW n \in Nodes PROVE Memory(node[n].hist, heard[n]) /\ DeliveredInv(n)
  <2>1. node[n].hist = <<>> /\ heard[n] = {} /\ delivered[n] = EmptyBag
    BY <1>2, <1>4
  <2>2. IsFiniteSet({})
    BY FS_EmptySet
  <2> QED
    BY <2>1, <2>2, <1>3 DEF Memory, DeliveredInv
<1>6. PICK B, P : B = {} /\ P = Known(B, node)
  OBVIOUS
<1>7. NetIn(P)
  <2>1. <<>> \in Seq(P) /\ Len(<<>>) = 0 /\ 0 <= FifoSize /\ 0 <= MaxNodes
    BY MeshConstants
  <2> QED
    BY <1>2, <1>4, <2>1 DEF NetIn
<1>8. \A n \in Nodes : KnownHist(B, node, node[n].hist)
  BY <1>2, <1>4 DEF KnownHist
<1>9. DOMAIN delivered = Nodes /\ DOMAIN heard = Nodes
  BY <1>2
<1>10. \A n \in Nodes, i \in 0 .. 255 : <<n, i>> \in B => i <= node[n].seq
  BY <1>6
<1> QED
  BY <1>1, <1>5, <1>6, <1>7, <1>8, <1>9, <1>10, Zenon DEF OnceInv

(* A bag that gets nothing, or one packet more.                            *)
LEMMA NothingGiven ==
  ASSUME NEW n \in Nodes, DeliveredInv(n), DOMAIN delivered = Nodes, DOMAIN heard = Nodes,
         delivered' = [delivered EXCEPT ![n] = @ (+) SetToBag({})], heard'[n] = heard[n]
  PROVE  DeliveredInv(n)'
<1> DEFINE c == delivered[n] (+) SetToBag({})
<1>1. /\ DOMAIN c = DOMAIN delivered[n] \cup {}
      /\ \A k \in DOMAIN c : c[k] = (IF k \in DOMAIN delivered[n] THEN delivered[n][k] ELSE 0) + (IF k \in {} THEN 1 ELSE 0)
  <2>1. PICK b, K : b = delivered[n] /\ K = {}
    OBVIOUS
  <2>2. \A k \in DOMAIN b : b[k] \in Nat
    BY <2>1 DEF DeliveredInv
  <2>3. /\ DOMAIN (b (+) SetToBag(K)) = DOMAIN b \cup K
        /\ \A k \in DOMAIN (b (+) SetToBag(K)) :
             (b (+) SetToBag(K))[k] = (IF k \in DOMAIN b THEN b[k] ELSE 0) + (IF k \in K THEN 1 ELSE 0)
    BY ONLY <2>2, BagGrows, Zenon
  <2> QED
    BY ONLY <2>1, <2>3, Zenon
<1>2. delivered'[n] = c
  OBVIOUS
<1> HIDE DEF c
<1>3. \A k \in DOMAIN delivered[n] : c[k] = delivered[n][k]
  BY <1>1 DEF DeliveredInv
<1> QED
  BY <1>1, <1>2, <1>3 DEF DeliveredInv

-----------------------------------------------------------------------------
(* What an application is given.                                           *)

(* What n's application gets is new to n.                                  *)
LEMMA OneGiven ==
  ASSUME NEW n \in Nodes, DeliveredInv(n), DOMAIN delivered = Nodes, DOMAIN heard = Nodes,
         node[n] \in NodeStates(Packets), Len(node[n].hist) <= MaxNodes, Memory(node[n].hist, heard[n]),
         NEW p \in Packets, Took(n, p), p.dst = Broadcast => ~ IsRetry(node[n], p)
  PROVE  DeliveredInv(n)' /\ Memory(node'[n].hist, heard'[n])
<1>1. PICK K \in SUBSET {Key(p)} :
        /\ delivered' = [delivered EXCEPT ![n] = @ (+) SetToBag(K)]
        /\ K # {} => ~ InHistory(node[n], p)
  BY DEF Took
<1>2. PICK H, H2, b, c, k0 : H = heard[n] /\ H2 = heard'[n] /\ b = delivered[n] /\ c = delivered'[n] /\ k0 = Key(p)
  OBVIOUS
<1>3. H2 = H \cup {k0} /\ node'[n].hist = Remember(node[n], p)
  BY <1>2 DEF Took
<1>4. c = b (+) SetToBag(K)
  BY <1>1, <1>2
<1>5. /\ Memory(node'[n].hist, H2)
      /\ Cardinality(H2) <= MaxNodes /\ ~ InHistory(node[n], p) => k0 \notin H
      /\ Cardinality(H) <= Cardinality(H2)
  <2>1. PICK s : s = node[n]
    OBVIOUS
  <2>2. Memory(s.hist, H)
    BY <1>2, <2>1
  <2>3. /\ Memory(Remember(s, p), H \cup {Key(p)})
        /\ Cardinality(H \cup {Key(p)}) <= MaxNodes /\ ~ InHistory(s, p) => Key(p) \notin H
        /\ Cardinality(H) <= Cardinality(H \cup {Key(p)})
    BY <2>1, <2>2, RememberRemembers, Zenon
  <2> QED
    BY ONLY <1>2, <1>3, <2>1, <2>3, Zenon
<1>6. Cardinality(H) \in Nat /\ Cardinality(H2) \in Nat
  <2>1. IsFiniteSet(H) /\ IsFiniteSet(H2)
    BY <1>2, <1>5 DEF Memory
  <2> QED
    BY <2>1, FS_CardinalityType
<1>7. /\ DOMAIN b \subseteq H /\ \A k \in DOMAIN b : b[k] \in Nat
      /\ \A k \in DOMAIN b : b[k] > 1 => Cardinality(H) > MaxNodes
  BY <1>2 DEF DeliveredInv
<1>8. /\ DOMAIN c = DOMAIN b \cup K
      /\ \A k \in DOMAIN c : c[k] = (IF k \in DOMAIN b THEN b[k] ELSE 0) + (IF k \in K THEN 1 ELSE 0)
  <2>1. \A k \in DOMAIN b : b[k] \in Nat
    BY <1>7
  <2>2. /\ DOMAIN (b (+) SetToBag(K)) = DOMAIN b \cup K
        /\ \A k \in DOMAIN (b (+) SetToBag(K)) :
             (b (+) SetToBag(K))[k] = (IF k \in DOMAIN b THEN b[k] ELSE 0) + (IF k \in K THEN 1 ELSE 0)
    BY ONLY <2>1, BagGrows, Zenon
  <2> QED
    BY ONLY <1>4, <2>2, Zenon
<1>9. DOMAIN c \subseteq H2 /\ \A k \in DOMAIN c : c[k] \in Nat
  BY <1>1, <1>2, <1>3, <1>7, <1>8
<1>10. ASSUME NEW k \in DOMAIN c, c[k] > 1 PROVE Cardinality(H2) > MaxNodes
  <2>1. CASE k \in K
    <3>1. k = k0 /\ ~ InHistory(node[n], p)
      BY <1>1, <1>2, <2>1
    <3>2. k \in DOMAIN b
      BY <1>8, <1>10, <2>1
    <3>3. ~ (Cardinality(H2) <= MaxNodes)
      BY <1>5, <1>7, <3>1, <3>2
    <3> QED
      BY <1>6, <3>3, MeshConstants
  <2>2. CASE k \notin K
    <3>1. k \in DOMAIN b /\ c[k] = b[k]
      BY <1>7, <1>8, <2>2
    <3>2. Cardinality(H) > MaxNodes
      BY <1>7, <1>10, <3>1
    <3> QED
      BY <1>5, <1>6, <3>2, MeshConstants
  <2> QED
    BY <2>1, <2>2
<1>11. DeliveredInv(n)'
  BY ONLY <1>2, <1>9, <1>10 DEF DeliveredInv
<1> QED
  BY <1>2, <1>5, <1>11

(* What a node remembers is what it knew and the packet it got.            *)
LEMMA RememberedAre ==
  ASSUME NEW P, NEW s \in NodeStates(P), NEW p \in Packets, Len(s.hist) <= MaxNodes, NEW i \in DOMAIN Remember(s, p)
  PROVE  \/ Remember(s, p)[i] = [src |-> p.src, id |-> p.id, retries |-> p.retries]
         \/ \E j \in DOMAIN s.hist : Remember(s, p)[i] = s.hist[j]
<1>1. PICK h, e : h = s.hist /\ e = [src |-> p.src, id |-> p.id, retries |-> p.retries]
  OBVIOUS
<1>2. h \in Seq(HistEntries) /\ e \in HistEntries
  BY <1>1 DEF NodeStates, HistEntries, Packets
<1>3. CASE InHistory(s, p)
  <2>1. Remember(s, p) = [j \in DOMAIN h |-> IF h[j].src = e.src /\ h[j].id = e.id THEN e ELSE h[j]]
    BY <1>1, <1>3 DEF Remember
  <2>2. PICK g : g = Remember(s, p)
    OBVIOUS
  <2>3. i \in DOMAIN h /\ g[i] \in {e, h[i]}
    BY <2>1, <2>2
  <2> QED
    BY <1>1, <2>2, <2>3
<1>4. CASE ~ InHistory(s, p) /\ Len(h) = MaxNodes
  <2>1. Remember(s, p) = Append(Tail(h), e)
    BY <1>1, <1>4 DEF Remember
  <2>2. Len(h) > 0 /\ DOMAIN h = 1 .. Len(h)
    BY <1>2, <1>4, MeshConstants
  <2>3. PICK g : g = Remember(s, p)
    OBVIOUS
  <2>4. /\ DOMAIN g = 1 .. Len(h) /\ g[Len(h)] = e
        /\ \A j \in 1 .. Len(h) : j # Len(h) => j + 1 \in 1 .. Len(h) /\ g[j] = h[j + 1]
    BY ONLY <1>2, <2>1, <2>2, <2>3, TailAppendIs
  <2>5. g[i] = e \/ \E j \in DOMAIN h : g[i] = h[j]
    BY <2>2, <2>3, <2>4
  <2> QED
    BY <1>1, <2>3, <2>5
<1>5. CASE ~ InHistory(s, p) /\ Len(h) # MaxNodes
  <2>1. Remember(s, p) = Append(h, e)
    BY <1>1, <1>5 DEF Remember
  <2>2. DOMAIN h = 1 .. Len(h)
    BY <1>2
  <2>3. PICK g : g = Remember(s, p)
    OBVIOUS
  <2>4. /\ DOMAIN g = 1 .. Len(h) + 1 /\ g[Len(h) + 1] = e
        /\ \A j \in 1 .. Len(h) : g[j] = h[j]
        /\ \A j \in 1 .. Len(h) + 1 : j \in 1 .. Len(h) \/ j = Len(h) + 1
    BY ONLY <1>2, <2>1, <2>3, AppendIs
  <2>5. g[i] = e \/ \E j \in DOMAIN h : g[i] = h[j]
    BY <2>2, <2>3, <2>4
  <2> QED
    BY <1>1, <2>3, <2>5
<1> QED
  BY <1>3, <1>4, <1>5

(* What the network knows, with the broadcasts in B.                       *)
OnceNet(B, P) ==
  /\ P = Known(B, node) /\ NetIn(P)
  /\ \A n \in Nodes : KnownHist(B, node, node[n].hist)
  /\ \A n \in Nodes, i \in 0 .. 255 : <<n, i>> \in B => i <= node[n].seq

LEMMA OnceParts ==
  OnceInv <=>
    /\ MeshTypes /\ DOMAIN delivered = Nodes /\ DOMAIN heard = Nodes
    /\ \A n \in Nodes : Memory(node[n].hist, heard[n]) /\ DeliveredInv(n)
    /\ \E B, P : OnceNet(B, P)
BY DEF OnceInv, OnceNet

LEMMA OnceTyped ==
  ASSUME OnceInv
  PROVE  /\ NetIn(Packets) /\ CallTypes /\ node \in [Nodes -> NodeStates(Packets)]
         /\ \A n \in Nodes : node[n].seq \in 0 .. 255 /\ node[n].hist \in Seq(HistEntries) /\ Len(node[n].hist) <= MaxNodes
<1>1. NetIn(Packets) /\ CallTypes
  BY DEF OnceInv, MeshTypes
<1>2. node \in [Nodes -> NodeStates(Packets)] /\ \A n \in Nodes : Len(node[n].hist) <= MaxNodes
  BY <1>1 DEF NetIn
<1> QED
  BY <1>1, <1>2 DEF NodeStates

(* A number that grows grows by one.                                       *)
LEMMA NextNumber ==
  ASSUME NEW a \in 0 .. 255, NEW b, b = (a + 1) % 256, a <= b
  PROVE  b = a + 1 /\ b \in 0 .. 255
OBVIOUS

(* What is known when all numbers are those of the next state.             *)
LEMMA NextKnown ==
  ASSUME OnceInv, NEW B, NEW P, OnceNet(B, P), NetIn(Packets)', NumbersGrow, NEW B2,
         \A n \in Nodes, i \in 0 .. 255 : i <= node[n].seq => (<<n, i>> \in B2 <=> <<n, i>> \in B)
  PROVE  /\ Closed(Known(B2, node')) /\ NetIn(Known(B2, node'))
         /\ \A m \in Nodes : KnownHist(B2, node', node[m].hist)
<1>1. /\ node \in [Nodes -> NodeStates(Packets)] /\ \A n \in Nodes : node[n].hist \in Seq(HistEntries)
  BY OnceTyped
<1>2. node' \in [Nodes -> NodeStates(Packets)]
  BY DEF NetIn
<1>3. PICK nodes, nodes2 : nodes = node /\ nodes2 = node'
  OBVIOUS
<1>4. \A n \in Nodes : nodes[n].seq <= nodes2[n].seq
  BY <1>3 DEF NumbersGrow
<1>5. /\ Known(B, nodes) \subseteq Known(B2, nodes2)
      /\ \A h \in Seq(HistEntries) : KnownHist(B, nodes, h) => KnownHist(B2, nodes2, h)
  <2>1. nodes \in [Nodes -> NodeStates(Packets)] /\ nodes2 \in [Nodes -> NodeStates(Packets)]
    BY <1>1, <1>2, <1>3
  <2>2. \A n \in Nodes, i \in 0 .. 255 : i <= nodes[n].seq => (<<n, i>> \in B2 <=> <<n, i>> \in B)
    BY <1>3
  <2> QED
    BY ONLY <1>4, <2>1, <2>2, KnownGrows, Zenon
<1>6. Closed(Known(B2, nodes2))
  BY KnownIsClosed
<1>7. NetIn(Known(B2, nodes2))
  <2>1. NetIn(Known(B, nodes))
    BY <1>3 DEF OnceNet
  <2> QED
    BY <2>1, <1>5, NetGrows
<1>8. \A m \in Nodes : KnownHist(B2, nodes2, node[m].hist)
  BY <1>1, <1>3, <1>5 DEF OnceNet
<1> QED
  BY <1>3, <1>6, <1>7, <1>8

-----------------------------------------------------------------------------
(* The steps keep what is known.                                           *)

LEMMA SendOnce ==
  ASSUME OnceInv, NumbersGrow, MeshTypes', NEW n \in Nodes, Send(n)
  PROVE  OnceInv'
<1>1. /\ NetIn(Packets) /\ CallTypes /\ node \in [Nodes -> NodeStates(Packets)]
      /\ \A m \in Nodes : node[m].seq \in 0 .. 255 /\ node[m].hist \in Seq(HistEntries)
  BY OnceTyped
<1>2. PICK B, P : OnceNet(B, P)
  BY OnceParts
<1>3. PICK q, s : q = FormedBy(n) /\ s = node[n]
  OBVIOUS
<1>4. q \in Packets /\ q.src = n /\ q.id = (s.seq + 1) % 256 /\ q.retries = RetryCount
  <2>1. called[n] < Len(Calls[n])
    BY DEF Send
  <2>2. PICK c : c = NextCall(n)
    OBVIOUS
  <2>3. c.dst \in Nodes \cup {Broadcast} /\ c.type \in PktTypes /\ c.max \in 0 .. 15 /\ c.full \in BOOLEAN
    BY <1>1, <2>1, <2>2, NextCallIsTyped
  <2>4. PICK dst, type, max, full : dst = c.dst /\ type = c.type /\ max = c.max /\ full = c.full
    OBVIOUS
  <2>5. q = FormPkt(n, s, dst, type, max, full)
    BY <1>3, <2>2, <2>4 DEF FormedBy
  <2>6. s \in NodeStates(Packets)
    BY <1>1, <1>3
  <2>7. dst \in Nodes \cup {Broadcast} /\ type \in PktTypes /\ max \in 0 .. 15 /\ full \in BOOLEAN
    BY <2>3, <2>4
  <2> HIDE DEF Packets
  <2> QED
    BY <2>5, <2>6, <2>7, FormedPacket
<1>5. /\ NetIn(Packets)' /\ node'[n].hist = node[n].hist /\ node'[n].seq = (node[n].seq + 1) % 256
      /\ \A m \in Nodes : m # n => node'[m] = node[m]
      /\ delivered' = [delivered EXCEPT ![n] = @ (+) SetToBag({})]
  <2>1. Closed(Packets)
    BY AllPackets
  <2>2. FormedBy(n) \in Packets
    BY <1>3, <1>4
  <2> HIDE DEF Packets
  <2> QED
    BY <1>1, <2>1, <2>2, SendStep
<1>6. node'[n].seq = node[n].seq + 1 /\ q.id = node[n].seq + 1 /\ q.id = node'[n].seq /\ node'[n].seq \in 0 .. 255
  <2>1. PICK a, b : a = node[n].seq /\ b = node'[n].seq
    OBVIOUS
  <2>2. a \in 0 .. 255 /\ b = (a + 1) % 256 /\ a <= b
    BY <1>1, <1>5, <2>1 DEF NumbersGrow
  <2>3. b = a + 1 /\ b \in 0 .. 255
    BY ONLY <2>2, NextNumber
  <2>4. q.id = b
    BY <1>3, <1>4, <1>5, <2>1
  <2> QED
    BY <2>1, <2>3, <2>4
<1>7. PICK B2 : B2 = IF q.dst = Broadcast THEN B \cup {<<n, q.id>>} ELSE B
  OBVIOUS
<1>8. \A m \in Nodes, i \in 0 .. 255 : <<m, i>> \in B => i <= node[m].seq
  BY <1>2 DEF OnceNet
<1>9. ~ (q.id <= node[n].seq)
  <2>1. PICK a, d : a = node[n].seq /\ d = q.id
    OBVIOUS
  <2>2. a \in 0 .. 255 /\ d = a + 1
    BY <1>1, <1>6, <2>1
  <2>3. ~ (d <= a)
    BY ONLY <2>2
  <2> QED
    BY <2>1, <2>3
<1>10. \A m \in Nodes, i \in 0 .. 255 : i <= node[m].seq => (<<m, i>> \in B2 <=> <<m, i>> \in B)
  BY <1>7, <1>9
<1>11. PICK P2 : P2 = Known(B2, node')
  OBVIOUS
<1>12. Closed(P2) /\ NetIn(P2) /\ \A m \in Nodes : KnownHist(B2, node', node[m].hist)
  BY <1>2, <1>5, <1>10, <1>11, NextKnown
<1>13. q \in P2
  <2>1. q.id <= node'[q.src].seq
    BY <1>4, <1>6
  <2>2. q.dst # Broadcast => <<q.src, q.id>> \notin B2
    <3>1. q.id \in 0 .. 255
      BY <1>6
    <3>2. <<n, q.id>> \notin B
      BY <1>8, <1>9, <3>1
    <3> QED
      BY <1>4, <1>7, <3>2
  <2>3. q.dst = Broadcast => <<q.src, q.id>> \in B2
    BY <1>4, <1>7
  <2> QED
    BY <1>4, <1>11, <2>1, <2>2, <2>3 DEF Known
<1>14. NetIn(P2)'
  BY <1>1, <1>3, <1>12, <1>13, SendStep
<1>15. OnceNet(B2, P2)'
  <2>1. \A m \in Nodes : KnownHist(B2, node', node'[m].hist)
    <3>1. \A m \in Nodes : node'[m].hist = node[m].hist
      BY <1>5
    <3> QED
      BY <1>12, <3>1
  <2>2. ASSUME NEW m \in Nodes, NEW i \in 0 .. 255, <<m, i>> \in B2 PROVE i <= node'[m].seq
    <3>1. CASE <<m, i>> \in B
      <4>1. PICK a, b : a = node[m].seq /\ b = node'[m].seq
        OBVIOUS
      <4>2. a \in 0 .. 255 /\ i <= a /\ a <= b
        BY <1>1, <1>8, <3>1, <4>1 DEF NumbersGrow
      <4>3. b \in 0 .. 255
        BY <1>1, <1>5, <1>6, <4>1
      <4>4. i <= b
        BY ONLY <2>2, <4>2, <4>3, Ordered
      <4> QED
        BY <4>1, <4>4
    <3>2. CASE <<m, i>> \notin B
      <4>1. m = n /\ i = q.id
        BY <1>7, <2>2, <3>2
      <4> QED
        BY <1>6, <4>1
    <3> QED
      BY <3>1, <3>2
  <2> QED
    BY <1>11, <1>14, <2>1, <2>2 DEF OnceNet
<1>16. DOMAIN delivered = Nodes /\ DOMAIN heard = Nodes /\ heard' = heard
  BY OnceParts DEF Send
<1>17. ASSUME NEW m \in Nodes PROVE Memory(node'[m].hist, heard'[m]) /\ DeliveredInv(m)'
  <2>1. Memory(node[m].hist, heard[m]) /\ DeliveredInv(m)
    BY OnceParts
  <2>2. Memory(node'[m].hist, heard'[m])
    BY <1>5, <1>16, <2>1
  <2>3. CASE m = n
    <3>1. heard'[m] = heard[m]
      BY <1>16
    <3>2. DeliveredInv(m)'
      BY ONLY <1>5, <1>16, <2>1, <2>3, <3>1, NothingGiven, m \in Nodes
    <3> QED
      BY <2>2, <3>2
  <2>4. CASE m # n
    <3>1. delivered'[m] = delivered[m]
      BY <1>5, <1>16, <2>4
    <3> QED
      BY <1>16, <2>1, <2>2, <3>1 DEF DeliveredInv
  <2> QED
    BY <2>3, <2>4
<1>18. DOMAIN delivered' = Nodes /\ DOMAIN heard' = Nodes
  BY <1>5, <1>16
<1> QED
  BY ONLY <1>15, <1>17, <1>18, MeshTypes', Zenon DEF OnceInv, OnceNet

(* The history of a node that got p, one of the packets known.             *)
LEMMA HistStaysKnown ==
  ASSUME NEW B, NEW nodes, NEW s \in NodeStates(Packets), Len(s.hist) <= MaxNodes,
         KnownHist(B, nodes, s.hist), NEW p \in Known(B, nodes)
  PROVE  KnownHist(B, nodes, Remember(s, p)) /\ (p.dst = Broadcast => ~ IsRetry(s, p))
<1>1. /\ p \in Packets /\ p.id <= nodes[p.src].seq
      /\ p.dst = Broadcast => <<p.src, p.id>> \in B /\ p.retries = RetryCount
      /\ p.dst # Broadcast => <<p.src, p.id>> \notin B
  BY DEF Known
<1>2. PICK r : r = Remember(s, p)
  OBVIOUS
<1>3. ASSUME NEW i \in DOMAIN r
      PROVE  r[i].id <= nodes[r[i].src].seq /\ (<<r[i].src, r[i].id>> \in B => r[i].retries = RetryCount)
  <2>1. \/ r[i] = [src |-> p.src, id |-> p.id, retries |-> p.retries]
        \/ \E j \in DOMAIN s.hist : r[i] = s.hist[j]
    BY <1>1, <1>2, RememberedAre
  <2>2. CASE r[i] = [src |-> p.src, id |-> p.id, retries |-> p.retries]
    <3>1. r[i].src = p.src /\ r[i].id = p.id /\ r[i].retries = p.retries
      BY <2>2
    <3> QED
      BY <1>1, <3>1
  <2>3. CASE \E j \in DOMAIN s.hist : r[i] = s.hist[j]
    BY <2>3 DEF KnownHist
  <2> QED
    BY <2>1, <2>2, <2>3
<1>4. KnownHist(B, nodes, r)
  BY <1>3 DEF KnownHist
<1>5. p.dst = Broadcast => ~ IsRetry(s, p)
  BY <1>1 DEF IsRetry, KnownHist
<1> QED
  BY <1>2, <1>4, <1>5

LEMMA ServiceOnce ==
  ASSUME OnceInv, NumbersGrow, MeshTypes', NEW n \in Nodes, Service(n)
  PROVE  OnceInv'
<1>1. /\ NetIn(Packets) /\ CallTypes /\ node \in [Nodes -> NodeStates(Packets)]
      /\ \A m \in Nodes : node[m].seq \in 0 .. 255 /\ node[m].hist \in Seq(HistEntries) /\ Len(node[m].hist) <= MaxNodes
  BY OnceTyped
<1>2. PICK B, P : OnceNet(B, P)
  BY OnceParts
<1>3. /\ NetIn(Packets)' /\ \A m \in Nodes : m # n => node'[m] = node[m]
      /\ Looked(n) \/ \E p \in Packets : air[n] # <<>> /\ p = air[n][1] /\ Took(n, p)
  <2>1. Closed(Packets) /\ Forms(Packets, n, node[n])
    BY AllPackets
  <2> HIDE DEF Packets
  <2> QED
    BY <1>1, <2>1, ServiceStep
<1>4. node'[n].seq \in {node[n].seq, (node[n].seq + 1) % 256}
  BY <1>3 DEF Looked, Took
<1>5. node'[n].seq \in 0 .. 255 /\ (node'[n].seq # node[n].seq => node'[n].seq = (node[n].seq + 1) % 256 /\ ~ (node'[n].seq <= node[n].seq))
  <2>1. PICK a, b : a = node[n].seq /\ b = node'[n].seq
    OBVIOUS
  <2>2. a \in 0 .. 255 /\ b \in {a, (a + 1) % 256} /\ a <= b
    BY <1>1, <1>4, <2>1 DEF NumbersGrow
  <2>3. b \in 0 .. 255 /\ (b # a => b = (a + 1) % 256 /\ ~ (b <= a))
    BY ONLY <2>2
  <2> QED
    BY <2>1, <2>3
<1>6. \A m \in Nodes, i \in 0 .. 255 : <<m, i>> \in B => i <= node[m].seq
  BY <1>2 DEF OnceNet
<1>7. PICK P2 : P2 = Known(B, node')
  OBVIOUS
<1>8. Closed(P2) /\ NetIn(P2) /\ \A m \in Nodes : KnownHist(B, node', node[m].hist)
  BY <1>2, <1>3, <1>7, NextKnown
<1>9. node'[n].seq # node[n].seq => Forms(P2, n, node[n])
  <2> SUFFICES ASSUME node'[n].seq # node[n].seq,
                      NEW q \in Packets, q.src = n, q.dst # Broadcast, q.id = (node[n].seq + 1) % 256
               PROVE  q \in P2
    BY DEF Forms
  <2>1. q.id = node'[n].seq /\ <<n, q.id>> \notin B
    BY <1>5, <1>6
  <2>2. q.id <= node'[q.src].seq
    BY <1>5, <2>1
  <2> QED
    BY <1>7, <2>1, <2>2 DEF Known
<1>10. NetIn(P2)' /\ (Looked(n) \/ \E p \in P2 : Took(n, p))
  BY <1>8, <1>9, ServiceStep
<1>11. ASSUME NEW p \in P2, Took(n, p)
       PROVE  KnownHist(B, node', Remember(node[n], p)) /\ (p.dst = Broadcast => ~ IsRetry(node[n], p))
  <2>1. PICK nodes, s : nodes = node' /\ s = node[n]
    OBVIOUS
  <2>2. s \in NodeStates(Packets) /\ Len(s.hist) <= MaxNodes /\ KnownHist(B, nodes, s.hist) /\ p \in Known(B, nodes)
    BY <1>1, <1>7, <1>8, <2>1
  <2>3. KnownHist(B, nodes, Remember(s, p)) /\ (p.dst = Broadcast => ~ IsRetry(s, p))
    BY ONLY <2>2, HistStaysKnown
  <2> QED
    BY <2>1, <2>3
<1>12. OnceNet(B, P2)'
  <2>1. ASSUME NEW m \in Nodes PROVE KnownHist(B, node', node'[m].hist)
    <3>1. CASE m # n
      BY <1>3, <1>8, <3>1
    <3>2. CASE m = n /\ Looked(n)
      BY <1>8, <3>2 DEF Looked
    <3>3. CASE m = n /\ \E p \in P2 : Took(n, p)
      BY <1>11, <3>3 DEF Took
    <3> QED
      BY <1>10, <3>1, <3>2, <3>3
  <2>2. ASSUME NEW m \in Nodes, NEW i \in 0 .. 255, <<m, i>> \in B PROVE i <= node'[m].seq
    <3>1. PICK a, b : a = node[m].seq /\ b = node'[m].seq
      OBVIOUS
    <3>2. a \in 0 .. 255 /\ i <= a /\ a <= b
      BY <1>1, <1>6, <2>2, <3>1 DEF NumbersGrow
    <3>3. b \in 0 .. 255
      BY <1>1, <1>3, <1>5, <3>1
    <3>4. i <= b
      BY ONLY <2>2, <3>2, <3>3, Ordered
    <3> QED
      BY <3>1, <3>4
  <2> QED
    BY <1>7, <1>10, <2>1, <2>2 DEF OnceNet
<1>13. DOMAIN delivered = Nodes /\ DOMAIN heard = Nodes
  BY OnceParts
<1>14. /\ DOMAIN delivered' = Nodes /\ DOMAIN heard' = Nodes
       /\ \A m \in Nodes : m # n => delivered'[m] = delivered[m] /\ heard'[m] = heard[m]
  <2>1. CASE Looked(n)
    BY <1>13, <2>1 DEF Looked
  <2>2. CASE \E p \in P2 : Took(n, p)
    BY <1>13, <2>2 DEF Took
  <2> QED
    BY <1>10, <2>1, <2>2
<1>15. ASSUME NEW m \in Nodes PROVE Memory(node'[m].hist, heard'[m]) /\ DeliveredInv(m)'
  <2>1. Memory(node[m].hist, heard[m]) /\ DeliveredInv(m)
    BY OnceParts
  <2>2. CASE m # n
    BY <1>3, <1>14, <2>1, <2>2 DEF DeliveredInv
  <2>3. CASE m = n /\ Looked(n)
    <3>1. /\ node'[m].hist = node[m].hist /\ delivered' = [delivered EXCEPT ![m] = @ (+) SetToBag({})]
          /\ heard'[m] = heard[m]
      BY <1>13, <2>3 DEF Looked
    <3>2. DeliveredInv(m)'
      BY ONLY <1>13, <2>1, <3>1, NothingGiven, m \in Nodes
    <3> QED
      BY <2>1, <3>1, <3>2
  <2>4. CASE m = n /\ \E p \in P2 : Took(n, p)
    <3>1. PICK p \in P2 : Took(m, p)
      BY <2>4
    <3>2. p \in Packets /\ (p.dst = Broadcast => ~ IsRetry(node[m], p))
      BY <1>7, <1>11, <2>4, <3>1 DEF Known
    <3>3. node[m] \in NodeStates(Packets) /\ Len(node[m].hist) <= MaxNodes
      BY <1>1
    <3> HIDE DEF Packets
    <3> QED
      BY ONLY <1>13, <2>1, <3>1, <3>2, <3>3, OneGiven, m \in Nodes
  <2> QED
    BY <1>10, <2>2, <2>3, <2>4
<1> QED
  BY ONLY <1>12, <1>14, <1>15, MeshTypes', Zenon DEF OnceInv, OnceNet

(* What does not touch node, heard and delivered.                          *)
LEMMA OthersOnce ==
  ASSUME OnceInv, MeshTypes', UNCHANGED <<node, heard, delivered>>,
         \A P : NetIn(P) => NetIn(P)'
  PROVE  OnceInv'
<1>1. PICK B, P : OnceNet(B, P)
  BY OnceParts
<1>2. OnceNet(B, P)'
  <2>1. NetIn(P)'
    BY <1>1 DEF OnceNet
  <2> QED
    BY <1>1, <2>1 DEF OnceNet
<1>3. /\ DOMAIN delivered = Nodes /\ DOMAIN heard = Nodes
      /\ \A n \in Nodes : Memory(node[n].hist, heard[n]) /\ DeliveredInv(n)
  BY OnceParts
<1>4. /\ DOMAIN delivered' = Nodes /\ DOMAIN heard' = Nodes
      /\ \A n \in Nodes : Memory(node'[n].hist, heard'[n]) /\ DeliveredInv(n)'
  BY <1>3 DEF DeliveredInv
<1> QED
  BY ONLY <1>2, <1>4, MeshTypes', Zenon DEF OnceInv, OnceNet

LEMMA OnceStep == OnceInv /\ [MeshNext]_meshVars /\ NumbersGrow => OnceInv'
<1> SUFFICES ASSUME OnceInv, [MeshNext]_meshVars, NumbersGrow PROVE OnceInv'
  OBVIOUS
<1>1. MeshTypes'
  BY OnceParts, MeshTypesStep
<1>2. CASE UNCHANGED meshVars
  <2>1. UNCHANGED <<node, air, heard, delivered>>
    BY <1>2 DEF meshVars, history
  <2>2. \A P : NetIn(P) => NetIn(P)'
    BY <2>1 DEF NetIn
  <2> QED
    BY <1>1, <2>1, <2>2, OthersOnce
<1>3. ASSUME NEW n \in Nodes, Lose(n) PROVE OnceInv'
  <2>1. \A P : NetIn(P) => NetIn(P)'
    BY <1>3, LoseStep
  <2>2. UNCHANGED <<node, heard, delivered>>
    BY <1>3 DEF Lose, history
  <2> QED
    BY <1>1, <2>1, <2>2, OthersOnce
<1> QED
  BY <1>1, <1>2, <1>3, SendOnce, ServiceOnce DEF MeshNext

LEMMA OnceHolds == OnceInv => DeliveredOnce
BY OnceParts DEF DeliveredInv, DeliveredOnce

-----------------------------------------------------------------------------
(* The theorems about the mesh.                                            *)

(* Every variable of the mesh keeps its type: the numbers fit into the bit *)
(* fields of mesh_pkt_info_t, the radios into their FIFOs and the history  *)
(* into its array, on any number of nodes.                                 *)
THEOREM MeshTyped == MeshSpec => []MeshTypeOK
<1>1. MeshSpec => []MeshTypes
  BY MeshTypesInit, MeshTypesStep, PTL DEF MeshSpec
<1> QED
  BY <1>1, MeshTypesHold, PTL

(* An application gets a packet twice, for all its repetitions and         *)
(* retries, only if more packets reached its node than the history holds:  *)
(* as long as no sequence number starts over.  When one does, a broadcast  *)
(* may have the source and the number of an older packet that was retried, *)
(* and is taken for a retry of it.                                         *)
THEOREM GivenOnce == MeshSpec /\ [][NumbersGrow]_meshVars => []DeliveredOnce
<1>1. MeshSpec /\ [][NumbersGrow]_meshVars => []OnceInv
  <2>1. OnceInv /\ [MeshNext]_meshVars /\ [NumbersGrow]_meshVars => OnceInv'
    <3> SUFFICES ASSUME OnceInv, [MeshNext]_meshVars, [NumbersGrow]_meshVars PROVE OnceInv'
      OBVIOUS
    <3>1. CASE NumbersGrow
      BY <3>1, OnceStep
    <3>2. CASE UNCHANGED meshVars
      <4>1. NumbersGrow
        <5>1. node' = node
          BY <3>2 DEF meshVars
        <5>2. \A n \in Nodes : node[n].seq \in 0 .. 255
          BY OnceTyped
        <5> QED
          BY <5>1, <5>2 DEF NumbersGrow
      <4> QED
        BY <4>1, OnceStep
    <3> QED
      BY <3>1, <3>2
  <2> QED
    BY <2>1, OnceInit, PTL DEF MeshSpec
<1> QED
  BY <1>1, OnceHolds, PTL

(* Every variable of the mesh and of the wireless service keeps its type.  *)
THEOREM RadioTyped == Spec => []RadioTypeOK
<1>1. Init => MeshTypes /\ WlInv
  BY MeshTypesInit, WlInitInv DEF Init
<1>2. MeshTypes /\ WlInv /\ [Next]_vars => MeshTypes' /\ WlInv'
  <2>1. [Next]_vars => [MeshNext]_meshVars /\ [WirelessNext]_wlVars
    BY DEF Next, vars
  <2> QED
    BY <2>1, MeshTypesStep, WlNextInv
<1>3. MeshTypes /\ WlInv => RadioTypeOK
  BY MeshTypesHold DEF WlInv, RadioTypeOK
<1> QED
  BY <1>1, <1>2, <1>3, PTL DEF Spec
=============================================================================
