-------------------------------- MODULE Mesh --------------------------------
(***************************************************************************)
(* The wireless mesh, L4_IO/wireless/src/mesh.c, on several nodes and the  *)
(* radio between them.  mesh_service() and mesh_send() are one step each,  *)
(* an abstraction: g_locked makes mesh_service() wait for mesh_send(), but *)
(* not the other way round.  Timers are abstract: a pending packet may     *)
(* time out in any mesh_service() after the one that stored it.            *)
(* Applications do not answer "ack_app" packets: no caller in the          *)
(* repository does.  Left out: route scores, as no table overflows here    *)
(* (RoutesFit), the version check, statistics, the contents of packets.    *)
(***************************************************************************)
EXTENDS Integers, Sequences, FiniteSets, Bags, SequencesExt

CONSTANTS
  Nodes,         \* the nodes, by address
  Neighbours,    \* Neighbours[n] : the nodes in radio range of n
  Repeaters,     \* the nodes that called mesh_init() with is_rpt_node
  Zero,          \* MESH_ZERO_ADDR
  Broadcast,     \* MESH_BROADCAST_ADDR
  None,          \* no route, no packet
  Calls,         \* Calls[n] : what n gives to mesh_send(), in this order
  InTurn,        \* whether n waits until its last packet is not pending
  RetryCount,    \* g_retry_count
  MaxNodes,      \* MESH_MAX_NODES
  MaxPendPkts,   \* MESH_MAX_PEND_PKTS
  DiscoveryHops, \* MESH_RTE_DISCOVERY_HOPS
  FifoSize,      \* packets the radio holds until they are read
  MaxLosses,     \* bound on the packets lost on the air
  MaxEarly       \* bound on the timeouts that strike while packets are on the air

AckTypes == {"ack", "ack_app"}
PktTypes == AckTypes \cup {"nack", "ack_rsp"}

ASSUME MeshAssumption ==
  /\ {Zero, Broadcast, None} \cap Nodes = {}
  /\ \A n \in Nodes : Neighbours[n] \subseteq Nodes \ {n}
  /\ Repeaters \subseteq Nodes
  /\ RetryCount \in 0 .. 7 /\ DiscoveryHops \in 0 .. 15
  /\ {MaxNodes, MaxPendPkts} \subseteq Nat \ {0, 1}   \* else #error, mesh.c:32-37
  /\ FifoSize \in Nat \ {0} /\ MaxLosses \in Nat /\ MaxEarly \in Nat

ASSUME RoutesFit == Cardinality(Nodes) - 1 <= MaxNodes

\* The calls that mesh_form_pkt() does not refuse, mesh.c:958-963.
ASSUME CallsAreTyped ==
  \A n \in Nodes : Calls[n] \in
    Seq([dst : (Nodes \ {n}) \cup {Broadcast}, type : PktTypes, max : 0 .. 15, full : BOOLEAN])

VARIABLES
  node,      \* node[n] : the static variables of mesh.c on node n
  air,       \* air[n] : the packets on their way to n and in its radio
  called,    \* called[n] : how many of Calls[n] were made
  lost,      \* number of packets lost on the air
  early,     \* number of timeouts while packets were on the air
  heard,     \* history: heard[n] : the packets that reached n
  overrun,   \* history: whether a radio's FIFO was full
  sends,     \* history: sends[n][k] : how often n sent its own packet k
  evicted,   \* history: own packets that lost their slot to another packet
  delivered  \* history: delivered[n][k] : how often n's application got k

history == <<heard, overrun, sends, evicted, delivered>>
meshVars == <<node, air, called, lost, early, history>>

-----------------------------------------------------------------------------
(* Packets.  mac is mac.dst, via is mac.src, id the sequence number, full  *)
(* is false for a packet without data.                                     *)
Packets == [src : Nodes, dst : Nodes \cup {Broadcast}, mac : Nodes \cup {Zero},
            via : Nodes, type : PktTypes, id : 0 .. 255, retries : 0 .. 7,
            hops : 0 .. 15, max : 0 .. 15, full : BOOLEAN]

(* What tells packets apart, and the duplicates of one from it.            *)
Key(p) == <<p.src, p.dst, p.id>>
SamePacket(p, q) == Key(p) = Key(q)

(* q goes the way back of p.                                               *)
Answers(q, p) == q.src = p.dst /\ q.dst = p.src

(* A node's state has two parts that live for one step only: out are the   *)
(* packets it sends, up is what it gives to the application.               *)
InitNode ==
  [routes |-> [d \in Nodes |-> None],  \* g_rte_table, by destination
   hist |-> <<>>,                      \* g_pkt_hist from the oldest on
   others |-> [i \in 1 .. MaxNodes |-> None],    \* g_mesh_pnd_pkts
   ours |-> [i \in 1 .. MaxPendPkts |-> None],   \* g_our_pnd_pkts
   seq |-> 0,
   out |-> <<>>, up |-> {}]

MeshInit ==
  /\ node = [n \in Nodes |-> InitNode]
  /\ air = [n \in Nodes |-> <<>>]
  /\ called = [n \in Nodes |-> 0]
  /\ lost = 0 /\ early = 0 /\ overrun = FALSE
  /\ heard = [n \in Nodes |-> {}]
  /\ sends = [n \in Nodes |-> EmptyBag]
  /\ evicted = {}
  /\ delivered = [n \in Nodes |-> EmptyBag]

-----------------------------------------------------------------------------
(* Functions of mesh.c on the state s of node n.                           *)

FromUs(n, q) == [i \in DOMAIN q |-> [q[i] EXCEPT !.via = n]]

SendPacket(n, s, p) == [s EXCEPT !.out = @ \o FromUs(n, <<p>>)]

(* The slots mesh_get_pnd_pkt_slot() may choose: the first free one, else  *)
(* one with the most retries left, whichever has waited longest.           *)
SlotsToUse(slots) ==
  IF \E i \in DOMAIN slots : slots[i] = None
  THEN {Min({i \in DOMAIN slots : slots[i] = None})}
  ELSE {i \in DOMAIN slots : \A j \in DOMAIN slots :
          slots[j].pkt.retries <= slots[i].pkt.retries}

(* use[a] is the slot of array a that is chosen.  A slot that is taken     *)
(* from another packet keeps that packet's mark.                           *)
PendingAdd(n, s, p, use) ==
  LET a == IF p.src = n THEN "ours" ELSE "others"
      old == s[a][use[a]]
      disc == p.src # n /\ p.mac = Zero
  IN [s EXCEPT ![a][use[a]] =
        [pkt |-> [p EXCEPT !.retries = RetryCount],
         disc |-> disc \/ (old # None /\ old.disc)]]

FormPkt(n, s, dst, type, max, full) ==
  LET route == IF dst = Broadcast THEN None ELSE s.routes[dst]
  IN [src |-> n, dst |-> dst, via |-> n, id |-> (s.seq + 1) % 256,
      mac |-> IF route = None THEN Zero ELSE route.next,
      max |-> IF route = None THEN max ELSE route.hops,
      type |-> IF dst = Broadcast THEN "nack" ELSE type,
      retries |-> RetryCount, hops |-> 0, full |-> full]

(* mesh_send_formed_pkt() waits for the delivery of packets to be          *)
(* acknowledged, and of responses to the next node.                        *)
Mutant_EnsuresDelivery(p) ==
  p.type = "ack_app" \/ (p.type = "ack_rsp" /\ p.mac # Zero /\ p.mac # p.dst)

EnsuresDelivery(p) ==
  \/ p.type \in AckTypes
  \/ p.type = "ack_rsp" /\ p.mac # Zero /\ p.mac # p.dst

MeshSend(n, s, dst, type, max, full, use) ==
  LET p == FormPkt(n, s, dst, type, max, full)
      s1 == SendPacket(n, [s EXCEPT !.seq = p.id], p)
  IN IF EnsuresDelivery(p) THEN PendingAdd(n, s1, p, use) ELSE s1

SendAck(n, s, p, full, use) == MeshSend(n, s, p.src, "ack_rsp", p.max, full, use)

-----------------------------------------------------------------------------
(* The reception of packet p.                                              *)

InHistory(s, p) == \E i \in DOMAIN s.hist : s.hist[i].src = p.src /\ s.hist[i].id = p.id

IsRetry(s, p) == \E i \in DOMAIN s.hist :
  s.hist[i].src = p.src /\ s.hist[i].id = p.id /\ s.hist[i].retries # p.retries

(* A node learns the way back to the source of a new packet unless it      *)
(* knows a shorter one, and that the sender of any packet is a neighbour.  *)
LearnRoutes(n, s, p) ==
  LET longer == ~InHistory(s, p) /\ p.via # p.src /\ p.src # n
                /\ (s.routes[p.src] = None \/ p.hops <= s.routes[p.src].hops)
      back == IF longer
              THEN [s.routes EXCEPT ![p.src] = [next |-> p.via, hops |-> p.hops]]
              ELSE s.routes
  IN [back EXCEPT ![p.via] = [next |-> p.via, hops |-> 0]]

(* The history forgets its oldest packet when it is full.                  *)
Remember(s, p) ==
  LET e == [src |-> p.src, id |-> p.id, retries |-> p.retries]
      room == IF Len(s.hist) = MaxNodes THEN Tail(s.hist) ELSE s.hist
  IN IF InHistory(s, p)
     THEN [i \in DOMAIN s.hist |->
             IF s.hist[i].src = e.src /\ s.hist[i].id = e.id THEN e ELSE s.hist[i]]
     ELSE Append(room, e)

UpdateHistoryAndRouting(n, s, p) ==
  [s EXCEPT !.hist = Remember(s, p), !.routes = LearnRoutes(n, s, p)]

(* A repeater forwards packets addressed to it, and to nobody if it knows  *)
(* the way; those that seek their way wait for somebody who knows it.      *)
(* Returns the state, and in rx the packet as it was modified.             *)
HandleMeshPacket(n, s, p, use) ==
  LET route == s.routes[p.dst]
      q == [p EXCEPT !.hops = @ + 1]
      fwd == [q EXCEPT !.mac = IF route = None THEN Zero ELSE route.next, !.via = n]
      ensure == p.mac = n /\ EnsuresDelivery(fwd)
      sent == SendPacket(n, s, fwd)
  IN IF p.mac = n \/ (p.mac = Zero /\ route # None)
     THEN [s |-> IF ensure THEN PendingAdd(n, sent, fwd, use) ELSE sent, rx |-> fwd]
     ELSE [s |-> IF p.mac = Zero THEN PendingAdd(n, s, q, use) ELSE s, rx |-> q]

(* The destination passes new data on, and answers when it has to or when  *)
(* the packet came without a route.                                        *)
Mutant_HandleOurPacket(n, s, p, new, use) ==
  LET s1 == IF p.full THEN [s EXCEPT !.up = {p}] ELSE s
  IN IF p.type = "ack" THEN SendAck(n, s1, p, TRUE, use) ELSE s1

HandleOurPacket(n, s, p, new, use) ==
  LET s1 == IF new /\ p.full THEN [s EXCEPT !.up = {p}] ELSE s
  IN IF p.type = "ack" THEN SendAck(n, s1, p, TRUE, use)
     ELSE IF p.mac = Zero THEN SendAck(n, s1, p, FALSE, use)
     ELSE s1

HandleBroadcast(n, s, p) ==
  LET s1 == [s EXCEPT !.up = {p}]
  IN IF p.hops < p.max THEN SendPacket(n, s1, [p EXCEPT !.hops = @ + 1]) ELSE s1

(* The first half of mesh_service(): rx is what the handling of pending    *)
(* packets gets to see of packet p, None for NULL.                         *)
Receive(n, s, p, use) ==
  LET s1 == UpdateHistoryAndRouting(n, s, p)
      new == ~InHistory(s, p)
  IN IF ~new /\ ~IsRetry(s, p) THEN [s |-> s1, rx |-> None]
     ELSE IF p.src = n THEN [s |-> s1, rx |-> p]
     ELSE IF p.dst = Broadcast THEN [s |-> HandleBroadcast(n, s1, p), rx |-> None]
     ELSE IF p.dst = n THEN [s |-> HandleOurPacket(n, s1, p, new, use), rx |-> p]
     ELSE IF n \in Repeaters /\ p.hops < p.max THEN HandleMeshPacket(n, s1, p, use)
     ELSE [s |-> s1, rx |-> None]

-----------------------------------------------------------------------------
(* The handling of pending packets, the second half of mesh_service().     *)

(* What the packet rx tells of the pending packet p: it is answered, a     *)
(* response of ours was passed on, or the next node has repeated it.       *)
AckReceived(rx, p) ==
  rx.type = "ack_rsp" /\ (Answers(rx, p) \/ (p.mac = rx.via /\ SamePacket(p, rx)))

Repeated(rx, p) == rx.type # "nack" /\ rx.via = p.mac /\ SamePacket(p, rx)

(* A packet that seeks its way is not needed when its destination answers  *)
(* or when a node that knows the way has repeated it.                      *)
Mutant_WayFound(rx, p) == Answers(rx, p) \/ SamePacket(rx, p)

WayFound(rx, p) == Answers(rx, p) \/ (rx.mac # Zero /\ SamePacket(rx, p))

(* The source of a packet that got stuck on its way seeks a new way.       *)
MayReroute(n, p) == p.type # "ack_rsp" /\ p.src = n /\ p.mac # p.dst /\ p.mac # Zero

(* retries_rem has three bits; the packet is sent with one less.           *)
Mutant_RetryPacket(p) == [p EXCEPT !.retries = @ - 1]

RetryPacket(p) == [p EXCEPT !.retries = (@ + 7) % 8]

(* What becomes of the pending packet e; due tells that its time is over.  *)
Fate(n, e, rx, due) ==
  IF e = None THEN "empty"
  ELSE IF rx # None /\ e.disc /\ WayFound(rx, e.pkt) THEN "done"
  ELSE IF rx # None /\ ~e.disc /\ AckReceived(rx, e.pkt) THEN "done"
  ELSE IF rx # None /\ ~e.disc /\ Repeated(rx, e.pkt) THEN "repeated"
  ELSE IF ~due THEN "wait"
  ELSE IF e.disc THEN "seek on"
  ELSE IF e.pkt.retries > 0 THEN "retry"
  ELSE IF MayReroute(n, e.pkt) THEN "reroute"
  ELSE "fail"

(* The packet that is sent, and what is left pending.                      *)
Resent(e, fate) ==
  CASE fate = "seek on" -> <<e.pkt>>
    [] fate = "retry" -> <<RetryPacket(e.pkt)>>
    [] fate = "reroute" ->
         <<RetryPacket([e.pkt EXCEPT !.mac = Zero, !.max = DiscoveryHops])>>
    [] OTHER -> <<>>

StillPending(n, e, fate) ==
  CASE fate \in {"empty", "done", "seek on", "fail"} -> None
    [] fate = "wait" -> e
    [] fate = "repeated" -> [e EXCEPT !.pkt.retries = 0]
    [] fate = "retry" -> [e EXCEPT !.pkt = [RetryPacket(@) EXCEPT !.via = n]]
    [] fate = "reroute" ->
         [e EXCEPT !.pkt = [@ EXCEPT !.mac = Zero, !.max = DiscoveryHops,
                                     !.retries = RetryCount, !.via = n]]

(* mesh_handle_pending_packets(): due holds the slots whose time is over.  *)
(* A packet that was stored in this very mesh_service() is not due: its    *)
(* timer starts again.  A packet that fails costs its route.               *)
HandlePending(n, s, rx, due) ==
  LET late(a, i) == <<a, i>> \in due /\ s[a][i] = node[n][a][i]
      fate(a) == [i \in DOMAIN s[a] |-> Fate(n, s[a][i], rx, late(a, i))]
      resent(a) == FlattenSeq([i \in DOMAIN s[a] |-> Resent(s[a][i], fate(a)[i])])
      left(a) == [i \in DOMAIN s[a] |-> StillPending(n, s[a][i], fate(a)[i])]
      lostTo == {s[x[1]][x[2]].pkt.dst :
                   x \in {y \in due : fate(y[1])[y[2]] \in {"reroute", "fail"}}}
  IN [s EXCEPT !.others = left("others"), !.ours = left("ours"),
               !.routes = [d \in Nodes |-> IF d \in lostTo THEN None ELSE @[d]],
               !.out = @ \o FromUs(n, resent("others") \o resent("ours"))]

-----------------------------------------------------------------------------
(* The steps.                                                              *)

(* Packets of the application that n waits for an acknowledgement of, and  *)
(* the keys of the packets it waits for.                                   *)
Own(n, p) == p.src = n /\ p.type \in AckTypes
OurKeys(s) == {Key(s.ours[i].pkt) : i \in {j \in 1 .. MaxPendPkts : s.ours[j] # None}}

BagOf(q) == FoldLeft(LAMBDA bag, e : bag (+) SetToBag({e}), EmptyBag, q)

(* The end of a step of n: what it sends goes to the neighbours, as far as *)
(* their radios have room.  stored is the state before pending packets     *)
(* were looked at, rest what the radio of n then holds.                    *)
Finish(n, stored, s, rest) ==
  LET queue(m) == IF m = n THEN rest
                  ELSE IF m \in Neighbours[n] THEN air[m] \o s.out ELSE air[m]
      own == SelectSeq(s.out, LAMBDA p : Own(n, p))
      data == {p \in s.up : p.type # "ack_rsp"}
  IN /\ node' = [node EXCEPT ![n] = [s EXCEPT !.out = <<>>, !.up = {}]]
     /\ air' = [m \in Nodes |-> SubSeq(queue(m), 1, Min({Len(queue(m)), FifoSize}))]
     /\ overrun' = (overrun \/ \E m \in Nodes : Len(queue(m)) > FifoSize)
     /\ evicted' = evicted \cup (OurKeys(node[n]) \ OurKeys(stored))
     /\ sends' = [sends EXCEPT ![n] = @ (+) BagOf([i \in DOMAIN own |-> Key(own[i])])]
     /\ delivered' = [delivered EXCEPT ![n] = @ (+) SetToBag({Key(p) : p \in data})]

(* The slots in use, by array.                                             *)
Mutant_Slots(n) == {"ours"} \X {i \in 1 .. MaxPendPkts : node[n].ours[i] # None}

Slots(n) == ({"others"} \X {i \in 1 .. MaxNodes : node[n].others[i] # None})
            \cup ({"ours"} \X {i \in 1 .. MaxPendPkts : node[n].ours[i] # None})

SlotChoices(n) == [ours : SlotsToUse(node[n].ours), others : SlotsToUse(node[n].others)]

Silence == \A n \in Nodes : air[n] = <<>>

(* The application calls mesh_send().                                      *)
Send(n) ==
  /\ called[n] < Len(Calls[n])
  /\ InTurn => \A i \in 1 .. MaxPendPkts : node[n].ours[i] = None
  /\ called' = [called EXCEPT ![n] = @ + 1]
  /\ \E use \in SlotChoices(n) :
       LET c == Calls[n][called[n] + 1]
       IN \E s \in {MeshSend(n, node[n], c.dst, c.type, c.max, c.full, use)} :
            Finish(n, s, s, air[n])
  /\ UNCHANGED <<lost, early, heard>>

(* mesh_service(): reads one packet if the radio has one, then looks at    *)
(* what is pending.  Timeouts while packets are on the air are bounded.    *)
Poll(n, use) ==
  IF air[n] = <<>> THEN [s |-> node[n], rx |-> None]
  ELSE Receive(n, node[n], Head(air[n]), use)

Service(n) ==
  /\ \E due \in SUBSET Slots(n), use \in SlotChoices(n) :
       /\ air[n] # <<>> \/ due # {}
       /\ early' = IF due = {} \/ Silence THEN early ELSE early + 1
       /\ \E got \in {Poll(n, use)} :
            \E s \in {HandlePending(n, got.s, got.rx, due)} :
              Finish(n, got.s, s, SubSeq(air[n], 2, Len(air[n])))
  /\ early' <= MaxEarly
  /\ heard' = [heard EXCEPT ![n] = @ \cup {Key(air[n][i]) : i \in {1} \cap DOMAIN air[n]}]
  /\ UNCHANGED <<called, lost>>

(* A packet on its way to n is lost.                                       *)
Lose(n) ==
  /\ air[n] # <<>> /\ lost < MaxLosses
  /\ air' = [air EXCEPT ![n] = Tail(@)]
  /\ lost' = lost + 1
  /\ UNCHANGED <<node, called, early, history>>

MeshNext == \E n \in Nodes : Send(n) \/ Service(n) \/ Lose(n)

(* Every node calls mesh_service() again and again, as mesh.h:153 asks.  A *)
(* node that has something to do keeps it until it does it, so that some   *)
(* node gets to act.                                                       *)
MeshFairness == WF_meshVars(\E n \in Nodes : Service(n))

MeshSpec == MeshInit /\ [][MeshNext]_meshVars /\ MeshFairness

-----------------------------------------------------------------------------
(* Types.  The numbers fit into the bit fields of mesh_pkt_info_t.         *)
Entry == [pkt : Packets, disc : BOOLEAN]

MeshTypeOK ==
  /\ \A n \in Nodes : LET s == node[n] IN
       /\ \A d \in Nodes : s.routes[d] \in [next : Nodes, hops : 0 .. 15] \cup {None}
       /\ Len(s.hist) <= MaxNodes
       /\ \A e \in Range(s.others) \cup Range(s.ours) : e \in Entry \cup {None}
       /\ s.seq \in 0 .. 255 /\ s.out = <<>> /\ s.up = {}
  /\ \A n \in Nodes : Len(air[n]) <= FifoSize /\ \A p \in Range(air[n]) : p \in Packets
  /\ lost \in 0 .. MaxLosses /\ early \in 0 .. MaxEarly /\ overrun \in BOOLEAN

(* An application gets a packet twice, for all its repetitions and         *)
(* retries, only if more packets reached its node than the history holds.  *)
DeliveredOnce ==
  \A n \in Nodes : \A k \in DOMAIN delivered[n] :
    delivered[n][k] > 1 => Cardinality(heard[n]) > MaxNodes

(* A packet to be acknowledged is retransmitted until it arrives, or all   *)
(* retries are made, or another packet of its source takes its slot.       *)
RetriedUntilDelivered ==
  \A n \in Nodes : \A k \in DOMAIN sends[n] :
    \/ k \in OurKeys(node[n]) \/ k \in evicted
    \/ k \in DOMAIN delivered[k[2]]
    \/ sends[n][k] > RetryCount

(* Nothing is on the air and nobody waits for anything.                    *)
Quiet ==
  Silence /\ \A n \in Nodes : Range(node[n].ours) \cup Range(node[n].others) = {None}

(* The same when all is over: a packet that never arrived was retried as   *)
(* often as it may be, as mesh.h says of the type ACK.                     *)
LostOnlyAfterRetries ==
  Quiet => \A n \in Nodes : \A k \in DOMAIN sends[n] \ evicted :
    k \in DOMAIN delivered[k[2]] \/ sends[n][k] > RetryCount

(* Timeouts and repetitions alone never cost a packet: if the radio lost   *)
(* nothing, all that was to be acknowledged has arrived.                   *)
LosslessDelivers ==
  Quiet /\ lost = 0 /\ ~overrun /\ evicted = {} =>
    \A n \in Nodes : \A k \in DOMAIN sends[n] : k \in DOMAIN delivered[k[2]]

(* Retries, repetitions and answers to answers come to an end.             *)
Quiesces == <>[]Quiet
=============================================================================
