---------------------------- MODULE DriverProofs ----------------------------
(***************************************************************************)
(* The drivers of the two busses, for any callers, messages and queues.    *)
(*                                                                         *)
(* CAN: the inductive invariant adds to the properties who is going to     *)
(* send each message that is queued.                                       *)
(*                                                                         *)
(* I2C: it says, for the transfer whose caller waits, how far the bus is:  *)
(* the state of the controller, the byte it moves next, the bytes moved so *)
(* far and the bytes left agree.                                           *)
(***************************************************************************)
EXTENDS MCDrivers, SequenceTheorems, TLAPS

-----------------------------------------------------------------------------
(* The CAN driver.                                                         *)

-----------------------------------------------------------------------------
(* What a queue operation does to membership, uniqueness and order.        *)

LEMMA AppendFacts ==
  ASSUME NEW S, NEW q \in Seq(S), NEW e \in S
  PROVE  /\ Append(q, e) \in Seq(S) /\ Len(Append(q, e)) = Len(q) + 1
         /\ \A b : In(b, Append(q, e)) <=> In(b, q) \/ b = e
         /\ Once(q) /\ ~ In(e, q) => Once(Append(q, e))
<1> DEFINE r == Append(q, e)
<1>1. /\ r \in Seq(S) /\ Len(r) = Len(q) + 1 /\ Len(q) \in Nat
      /\ \A i \in 1 .. Len(q) : r[i] = q[i]
      /\ r[Len(q) + 1] = e
      /\ DOMAIN q = 1 .. Len(q) /\ DOMAIN r = 1 .. Len(q) + 1
  OBVIOUS
<1> HIDE DEF r
<1>2. \A b : In(b, r) <=> In(b, q) \/ b = e
  BY <1>1 DEF In
<1>3. ASSUME Once(q), ~ In(e, q)
      PROVE  Once(r)
  <2> SUFFICES ASSUME NEW i \in DOMAIN r, NEW j \in DOMAIN r, r[i] = r[j]
               PROVE  i = j
    BY DEF Once
  <2>1. CASE i \in 1 .. Len(q) /\ j \in 1 .. Len(q)
    BY <1>1, <1>3, <2>1 DEF Once
  <2>2. CASE i = Len(q) + 1 /\ j \in 1 .. Len(q)
    BY <1>1, <1>3, <2>2 DEF In
  <2>3. CASE j = Len(q) + 1 /\ i \in 1 .. Len(q)
    BY <1>1, <1>3, <2>3 DEF In
  <2> QED BY <1>1, <2>1, <2>2, <2>3
<1> QED BY <1>1, <1>2, <1>3 DEF r

LEMMA TailFacts ==
  ASSUME NEW S, NEW q \in Seq(S), q # <<>>
  PROVE  /\ Tail(q) \in Seq(S) /\ Len(Tail(q)) = Len(q) - 1
         /\ Head(q) \in S /\ In(Head(q), q)
         /\ \A b : In(b, Tail(q)) => In(b, q)
         /\ Once(q) => Once(Tail(q)) /\ ~ In(Head(q), Tail(q))
<1> DEFINE r == Tail(q)  h == Head(q)
<1>1. /\ r \in Seq(S) /\ Len(r) = Len(q) - 1 /\ Len(q) \in Nat \ {0} /\ h \in S
      /\ \A i \in 1 .. (Len(q) - 1) : r[i] = q[i + 1]
      /\ h = q[1]
      /\ DOMAIN q = 1 .. Len(q) /\ DOMAIN r = 1 .. (Len(q) - 1)
  OBVIOUS
<1> HIDE DEF r, h
<1>2. In(h, q)
  BY <1>1 DEF In
<1>3. ASSUME NEW b, In(b, r)
      PROVE  In(b, q)
  <2>1. PICK i \in 1 .. (Len(q) - 1) : r[i] = b
    BY <1>1, <1>3 DEF In
  <2>2. i + 1 \in DOMAIN q /\ q[i + 1] = b
    BY <1>1, <2>1
  <2> QED BY <2>2 DEF In
<1>4. ASSUME Once(q)
      PROVE  Once(r) /\ ~ In(h, r)
  <2>1. Once(r)
    <3> SUFFICES ASSUME NEW i \in DOMAIN r, NEW j \in DOMAIN r, r[i] = r[j]
                 PROVE  i = j
      BY DEF Once
    <3>1. i + 1 \in DOMAIN q /\ j + 1 \in DOMAIN q /\ q[i + 1] = q[j + 1]
      BY <1>1
    <3>2. i + 1 = j + 1
      BY <1>4, <3>1 DEF Once
    <3> QED BY <1>1, <3>2
  <2>2. ASSUME In(h, r) PROVE FALSE
    <3>1. PICK i \in 1 .. (Len(q) - 1) : r[i] = h
      BY <1>1, <2>2 DEF In
    <3>2. i + 1 \in DOMAIN q /\ 1 \in DOMAIN q /\ q[i + 1] = q[1]
      BY <1>1, <3>1
    <3>3. i + 1 = 1
      BY <1>4, <3>2 DEF Once
    <3> QED BY <3>1, <3>3
  <2> QED BY <2>1, <2>2
<1> QED BY <1>1, <1>2, <1>3, <1>4 DEF r, h

LEMMA TailBound ==
  ASSUME NEW S, NEW q \in Seq(S), NEW n \in Nat, Len(q) <= n, q # <<>>
  PROVE  Tail(q) \in Seq(S) /\ Len(Tail(q)) <= n /\ Head(q) \in S
  OBVIOUS

LEMMA AppendIncreasing ==
  ASSUME NEW q \in Seq(Nat), NEW e \in Nat, Increasing(q), \A a \in Nat : In(a, q) => a < e
  PROVE  Increasing(Append(q, e))
<1> DEFINE r == Append(q, e)
<1>1. /\ Len(q) \in Nat
      /\ \A i \in 1 .. Len(q) : r[i] = q[i] /\ q[i] \in Nat
      /\ r[Len(q) + 1] = e
      /\ DOMAIN q = 1 .. Len(q) /\ DOMAIN r = 1 .. Len(q) + 1
  OBVIOUS
<1> HIDE DEF r
<1>2. \A i \in 1 .. Len(q) : q[i] < e
  BY <1>1 DEF In
<1> SUFFICES ASSUME NEW i \in DOMAIN r, NEW j \in DOMAIN r, i < j
             PROVE  r[i] < r[j]
  BY DEF Increasing, r
<1>3. CASE j \in 1 .. Len(q)
  <2>1. i \in 1 .. Len(q)
    BY <1>1, <1>3
  <2> QED BY <1>1, <1>3, <2>1 DEF Increasing
<1>4. CASE j = Len(q) + 1
  <2>1. i \in 1 .. Len(q)
    BY <1>1, <1>4
  <2> QED BY <1>1, <1>2, <1>4, <2>1
<1> QED BY <1>1, <1>3, <1>4

LEMMA TailIncreasing ==
  ASSUME NEW q \in Seq(Nat), q # <<>>, Increasing(q)
  PROVE  /\ Increasing(Tail(q))
         /\ \A a \in Nat : In(a, Tail(q)) => Head(q) < a
<1> DEFINE r == Tail(q)  h == Head(q)
<1>1. /\ Len(q) \in Nat \ {0}
      /\ \A i \in 1 .. (Len(q) - 1) : r[i] = q[i + 1]
      /\ h = q[1]
      /\ DOMAIN q = 1 .. Len(q) /\ DOMAIN r = 1 .. (Len(q) - 1)
  OBVIOUS
<1> HIDE DEF r, h
<1>2. ASSUME NEW i \in DOMAIN r, NEW j \in DOMAIN r, i < j
      PROVE  r[i] < r[j]
  <2>1. i + 1 \in DOMAIN q /\ j + 1 \in DOMAIN q /\ i + 1 < j + 1
    BY <1>1, <1>2
  <2>2. q[i + 1] < q[j + 1]
    BY <2>1 DEF Increasing
  <2> QED BY <1>1, <2>2
<1>3. ASSUME NEW a \in Nat, In(a, r)
      PROVE  h < a
  <2>1. PICK i \in 1 .. (Len(q) - 1) : r[i] = a
    BY <1>1, <1>3 DEF In
  <2>2. i + 1 \in DOMAIN q /\ 1 \in DOMAIN q /\ 1 < i + 1
    BY <1>1, <2>1
  <2>3. q[1] < q[i + 1]
    BY <2>2 DEF Increasing
  <2> QED BY <1>1, <2>1, <2>3
<1> QED BY <1>2, <1>3 DEF Increasing, r, h

-----------------------------------------------------------------------------
(* Messages.                                                               *)

LEMMA MessageFacts ==
  /\ None \notin Messages /\ None \notin Tasks
  /\ \A m \in Messages : /\ m = <<m[1], m[2]>> /\ m[1] \in Tasks
                         /\ m[2] \in Nat /\ m[2] \in 1 .. MaxTx[m[1]]
<1>1. None \notin Messages /\ None \notin Tasks
  BY CanAssumption
<1>2. MaxTx \in [Tasks -> Nat]
  BY CanAssumption
<1>3. ASSUME NEW m \in Messages
      PROVE  /\ m = <<m[1], m[2]>> /\ m[1] \in Tasks
             /\ m[2] \in Nat /\ m[2] \in 1 .. MaxTx[m[1]]
  <2>1. PICK t \in Tasks : m \in {t} \X (1 .. MaxTx[t])
    BY DEF Messages
  <2>2. m = <<m[1], m[2]>> /\ m[1] = t /\ m[2] \in 1 .. MaxTx[t]
    BY <2>1
  <2> QED BY <1>2, <2>2
<1> QED BY <1>1, <1>3

LEMMA OwnFacts ==
  ASSUME NEW t \in Tasks, tx[t] \in 1 .. MaxTx[t]
  PROVE  Own(t) \in Messages /\ Own(t)[1] = t /\ Own(t)[2] = tx[t]
<1>1. Own(t) \in {t} \X (1 .. MaxTx[t])
  BY DEF Own
<1> QED BY <1>1 DEF Messages, Own

-----------------------------------------------------------------------------
(* The types.                                                              *)

LEMMA InitInv == CanInit => CanIInv
<1> SUFFICES ASSUME CanInit PROVE CanIInv
  OBVIOUS
<1>1. CanTypeOK
  <2>1. MaxTx \in [Tasks -> Nat] /\ TxQSize \in Nat /\ RxQSize \in Nat /\ None \notin Tasks
    BY CanAssumption
  <2>2. txQ \in Seq(Messages) /\ wire \in Seq(Messages) /\ rxHw \in Seq(Nat)
        /\ rxQ \in Seq(Nat) /\ received \in Seq(Nat)
    BY DEF CanInit
  <2>3. /\ tx \in [Tasks -> Nat] /\ \A t \in Tasks : tx[t] \in 0 .. MaxTx[t]
        /\ \A t \in Tasks : pc[t] = "idle" /\ mask # t
    BY <2>1 DEF CanInit
  <2>4. pc \in [Tasks -> {"idle", "try", "queue", "queued", "kick"}] /\ ok \in [Tasks -> BOOLEAN]
    BY DEF CanInit
  <2>5. Len(txQ) <= TxQSize /\ Len(rxQ) <= RxQSize /\ Len(rxHw) <= 2
    BY <2>1 DEF CanInit
  <2> QED BY <2>2, <2>3, <2>4, <2>5 DEF CanTypeOK, CanInit
<1>2. \A m : ~ In(m, txQ) /\ ~ In(m, wire) /\ ~ In(m, rxQ) /\ ~ In(m, rxHw) /\ ~ In(m, received)
  BY DEF CanInit, In
<1>3. SentOnce /\ NotStranded
  BY <1>2 DEF CanInit, SentOnce, Once, NotStranded
<1>4. RefusedIsNotSent /\ OwnIsNew
  <2>1. \A m \in Messages : ~ Given(m)
    BY <1>2, MessageFacts DEF Given, CanInit
  <2> QED BY <2>1 DEF CanInit, RefusedIsNotSent, OwnIsNew
<1>5. ArrivalOrder
  BY <1>2 DEF CanInit, ArrivalOrder, Increasing
<1> QED BY <1>1, <1>3, <1>4, <1>5 DEF CanIInv

LEMMA OwnIsMessage ==
  ASSUME CanTypeOK, NEW t \in Tasks, pc[t] # "idle"
  PROVE  Own(t) \in Messages /\ Own(t)[1] = t /\ Own(t)[2] = tx[t]
<1>1. tx[t] \in 1 .. MaxTx[t]
  <2>1. tx[t] \in 0 .. MaxTx[t] /\ tx[t] > 0 /\ MaxTx[t] \in Nat
    BY CanAssumption DEF CanTypeOK
  <2> QED BY <2>1
<1> QED BY <1>1, OwnFacts

LEMMA TypeStep == CanTypeOK /\ [CanNext]_canVars => CanTypeOK'
<1> SUFFICES ASSUME CanTypeOK, [CanNext]_canVars PROVE CanTypeOK'
  OBVIOUS
<1> USE DEF hwVars, isrVars, taskVars, txHistory, rxVars
<1>0. TxQSize \in Nat /\ RxQSize \in Nat /\ MaxTx \in [Tasks -> Nat]
  BY CanAssumption
<1>a. txQ # <<>> => /\ Tail(txQ) \in Seq(Messages) /\ Len(Tail(txQ)) <= TxQSize
                    /\ Head(txQ) \in Messages
  BY <1>0, TailBound DEF CanTypeOK
<1>b. rxQ # <<>> => Tail(rxQ) \in Seq(Nat) /\ Len(Tail(rxQ)) <= RxQSize /\ Head(rxQ) \in Nat
  BY <1>0, TailBound DEF CanTypeOK
<1>c. rxHw # <<>> => Tail(rxHw) \in Seq(Nat) /\ Len(Tail(rxHw)) <= 2 /\ Head(rxHw) \in Nat
  BY TailBound DEF CanTypeOK
<1>1. CASE Transmit
  <2>1. wire' \in Seq(Messages)
    BY <1>1 DEF Transmit, CanTypeOK
  <2> QED BY <1>1, <2>1 DEF Transmit, CanTypeOK
<1>2. CASE Arrive
  <2>1. arrivals + 1 \in Nat /\ rxHw \in Seq(Nat) /\ Len(rxHw) <= 2
    BY DEF CanTypeOK
  <2>2. Len(rxHw) < 2 => Append(rxHw, arrivals + 1) \in Seq(Nat) /\ Len(Append(rxHw, arrivals + 1)) <= 2
    BY <2>1
  <2>3. rxHw' \in Seq(Nat) /\ Len(rxHw') <= 2
    BY <1>2, <2>1, <2>2 DEF Arrive
  <2> QED BY <1>2, <2>3 DEF Arrive, CanTypeOK
<1>3. CASE BusOff
  BY <1>3 DEF BusOff, CanTypeOK
<1>4. ASSUME NEW t \in Tasks, Tx(t)
      PROVE  CanTypeOK'
  <2>1. /\ tx' \in [Tasks -> Nat]
        /\ \A u \in Tasks : tx'[u] \in 0 .. MaxTx[u] /\ (pc'[u] # "idle" => tx'[u] > 0)
    BY <1>0, <1>4 DEF Tx, CanTypeOK
  <2>2. /\ pc' \in [Tasks -> {"idle", "try", "queue", "queued", "kick"}]
        /\ \A u \in Tasks : mask' = u <=> pc'[u] \in {"try", "kick"}
        /\ mask' \in Tasks \cup {None} /\ isr' = "idle"
    BY <1>4, MessageFacts DEF Tx, CanTypeOK, Runs
  <2> QED BY <1>4, <2>1, <2>2 DEF Tx, CanTypeOK
<1>5. ASSUME NEW t \in Tasks, TryBuffer(t)
      PROVE  CanTypeOK'
  <2>1. Own(t) \in Messages
    BY <1>5, OwnIsMessage DEF TryBuffer
  <2>2. /\ pc' \in [Tasks -> {"idle", "try", "queue", "queued", "kick"}]
        /\ \A u \in Tasks : mask' = u <=> pc'[u] \in {"try", "kick"}
        /\ mask' = None
        /\ \A u \in Tasks : pc'[u] # "idle" => tx'[u] > 0
    <3>1. /\ mask' = None /\ None \notin Tasks
          /\ \/ pc' = [pc EXCEPT ![t] = "idle"]
             \/ pc' = [pc EXCEPT ![t] = "queue"]
      BY <1>5, MessageFacts DEF TryBuffer, Return
    <3>2. pc[t] # "idle"
      BY <1>5 DEF TryBuffer
    <3> QED BY <1>5, <3>1, <3>2 DEF TryBuffer, CanTypeOK
  <2>3. /\ hw' \in Messages \cup {None} /\ stalled' \in BOOLEAN
        /\ accepted' \subseteq Messages /\ refused' \subseteq Messages
    BY <1>5, <2>1 DEF TryBuffer, Return, StartTx, CanTypeOK
  <2> QED BY <1>5, <2>2, <2>3 DEF TryBuffer, CanTypeOK
<1>6. ASSUME NEW t \in Tasks, Queue(t)
      PROVE  CanTypeOK'
  <2>1. Own(t) \in Messages
    BY <1>6, OwnIsMessage DEF Queue
  <2>2. txQ' \in Seq(Messages) /\ Len(txQ') <= TxQSize /\ ok' \in [Tasks -> BOOLEAN]
    <3>1. Append(txQ, Own(t)) \in Seq(Messages) /\ Len(Append(txQ, Own(t))) = Len(txQ) + 1
          /\ Len(txQ) \in Nat
      BY <2>1 DEF CanTypeOK
    <3>2. txQ \in Seq(Messages) /\ Len(txQ) <= TxQSize /\ ok \in [Tasks -> BOOLEAN]
      BY DEF CanTypeOK
    <3>3. /\ (txQ' = Append(txQ, Own(t)) /\ Len(txQ) < TxQSize) \/ txQ' = txQ
          /\ ok' = [ok EXCEPT ![t] = TRUE] \/ ok' = [ok EXCEPT ![t] = FALSE]
      BY <1>6 DEF Queue
    <3>4. txQ' \in Seq(Messages) /\ Len(txQ') <= TxQSize
      <4>1. CASE txQ' = txQ
        BY <3>2, <4>1
      <4>2. CASE txQ' = Append(txQ, Own(t)) /\ Len(txQ) < TxQSize
        <5>1. Len(txQ') = Len(txQ) + 1 /\ txQ' \in Seq(Messages)
          BY <3>1, <4>2
        <5> QED BY <1>0, <3>1, <4>2, <5>1
      <4> QED BY <3>3, <4>1, <4>2
    <3> QED BY <3>2, <3>3, <3>4
  <2>3. /\ pc' \in [Tasks -> {"idle", "try", "queue", "queued", "kick"}]
        /\ \A u \in Tasks : mask' = u <=> pc'[u] \in {"try", "kick"}
        /\ \A u \in Tasks : pc'[u] # "idle" => tx'[u] > 0
    BY <1>6 DEF Queue, CanTypeOK
  <2> QED BY <1>6, <2>2, <2>3 DEF Queue, CanTypeOK
<1>7. ASSUME NEW t \in Tasks, EnterKick(t)
      PROVE  CanTypeOK'
  <2>1. /\ pc' \in [Tasks -> {"idle", "try", "queue", "queued", "kick"}]
        /\ \A u \in Tasks : mask' = u <=> pc'[u] \in {"try", "kick"}
        /\ mask' \in Tasks \cup {None} /\ isr' = "idle"
        /\ \A u \in Tasks : pc'[u] # "idle" => tx'[u] > 0
    BY <1>7, MessageFacts DEF EnterKick, CanTypeOK, Runs
  <2> QED BY <1>7, <2>1 DEF EnterKick, CanTypeOK
<1>8. ASSUME NEW t \in Tasks, Kick(t)
      PROVE  CanTypeOK'
  <2>1. Own(t) \in Messages
    BY <1>8, OwnIsMessage DEF Kick
  <2>2. /\ pc' \in [Tasks -> {"idle", "try", "queue", "queued", "kick"}]
        /\ \A u \in Tasks : mask' = u <=> pc'[u] \in {"try", "kick"}
        /\ mask' = None
        /\ \A u \in Tasks : pc'[u] # "idle" => tx'[u] > 0
    <3>1. /\ mask' = None /\ None \notin Tasks
          /\ pc' = [pc EXCEPT ![t] = "idle"]
      BY <1>8, MessageFacts DEF Kick, Return
    <3>2. pc[t] # "idle"
      BY <1>8 DEF Kick
    <3> QED BY <1>8, <3>1, <3>2 DEF Kick, CanTypeOK
  <2>3. /\ hw' \in Messages \cup {None} /\ stalled' \in BOOLEAN
        /\ txQ' \in Seq(Messages) /\ Len(txQ') <= TxQSize
    BY <1>8, <1>a DEF Kick, StartTx, CanTypeOK
  <2>4. accepted' \subseteq Messages /\ refused' \subseteq Messages
    BY <1>8, <2>1 DEF Kick, Return, CanTypeOK
  <2> QED BY <1>8, <2>2, <2>3, <2>4 DEF Kick, CanTypeOK
<1>9. CASE ResetBus
  <2>1. aborted' \subseteq Messages
    BY <1>9 DEF ResetBus, CanTypeOK
  <2>2. txIntr' \in BOOLEAN /\ stalled' \in BOOLEAN
    BY <1>9 DEF ResetBus, CanTypeOK
  <2>3. /\ busOff' = FALSE /\ hw' = None /\ resets' \in Nat
        /\ UNCHANGED <<rxHw, txQ, rxQ, isr, ibits, mask, pc, tx, ok, wire, accepted, refused,
                       arrivals, received>>
    BY <1>9 DEF ResetBus, CanTypeOK
  <2> QED BY <2>1, <2>2, <2>3 DEF CanTypeOK
<1>10. CASE Rx
  <2>1. /\ rxQ' \in Seq(Nat) /\ Len(rxQ') <= RxQSize /\ Head(rxQ) \in Nat
    BY <1>10, <1>b DEF Rx
  <2>2. received' \in Seq(Nat)
    BY <1>10, <2>1 DEF Rx, CanTypeOK
  <2> QED BY <1>10, <2>1, <2>2 DEF Rx, CanTypeOK
<1>11. CASE IsrEnter
  BY <1>11 DEF IsrEnter, CanTypeOK
<1>12. CASE IsrReceive
  <2>1. rxHw' \in Seq(Nat) /\ Len(rxHw') <= 2
    BY <1>12, <1>c DEF IsrReceive, CanTypeOK
  <2>2. rxHw # <<>> /\ Len(rxQ) < RxQSize =>
          Append(rxQ, Head(rxHw)) \in Seq(Nat) /\ Len(Append(rxQ, Head(rxHw))) <= RxQSize
    BY <1>0, <1>c DEF CanTypeOK
  <2>3. rxQ' \in Seq(Nat) /\ Len(rxQ') <= RxQSize
    BY <1>12, <2>2 DEF IsrReceive, CanTypeOK
  <2> QED BY <1>12, <2>1, <2>3 DEF IsrReceive, CanTypeOK
<1>13. CASE IsrTransmit
  <2>1. /\ hw' \in Messages \cup {None} /\ stalled' \in BOOLEAN
        /\ txQ' \in Seq(Messages) /\ Len(txQ') <= TxQSize
    BY <1>13, <1>a DEF IsrTransmit, StartTx, CanTypeOK
  <2> QED BY <1>13, <2>1 DEF IsrTransmit, CanTypeOK
<1>14. CASE UNCHANGED canVars
  BY <1>14 DEF canVars, CanTypeOK
<1> QED BY <1>1, <1>2, <1>3, <1>4, <1>5, <1>6, <1>7, <1>8, <1>9, <1>10, <1>11, <1>12, <1>13, <1>14
        DEF CanNext, CAN_tx, CAN_handle_isr

-----------------------------------------------------------------------------
(* The order of what is received: only three actions touch it.             *)

LEMMA OrderUnchanged ==
  ASSUME ArrivalOrder, UNCHANGED <<received, rxQ, rxHw, arrivals>>
  PROVE  ArrivalOrder'
  BY DEF ArrivalOrder, Increasing, In

LEMMA ArriveOrder == ASSUME CanTypeOK, ArrivalOrder, Arrive PROVE ArrivalOrder'
<1> DEFINE n == arrivals + 1
<1>1. /\ n \in Nat /\ arrivals \in Nat /\ arrivals' = n /\ rxHw \in Seq(Nat)
      /\ UNCHANGED <<received, rxQ>>
  BY DEF CanTypeOK, Arrive, rxVars
<1>2. \A a \in Nat : In(a, received) \/ In(a, rxQ) \/ In(a, rxHw) => a < n
  BY <1>1 DEF ArrivalOrder
<1>3. \A b : In(b, rxHw') => In(b, rxHw) \/ b = n
  BY <1>1, AppendFacts DEF Arrive
<1>4. Increasing(rxHw')
  BY <1>1, <1>2, AppendIncreasing DEF Arrive, ArrivalOrder
<1>5. Increasing(received)' /\ Increasing(rxQ)'
  BY <1>1 DEF ArrivalOrder, Increasing
<1>6. \A b : (In(b, received)' <=> In(b, received)) /\ (In(b, rxQ)' <=> In(b, rxQ))
  BY <1>1 DEF In
<1>7. Increasing(rxHw)' /\ \A b : In(b, rxHw)' => In(b, rxHw) \/ b = n
  BY <1>3, <1>4 DEF Increasing, In
<1> HIDE DEF n
<1>8. ASSUME NEW a \in Nat, NEW b \in Nat
      PROVE  /\ In(a, received)' /\ In(b, rxQ)' => a < b
             /\ In(a, received)' /\ In(b, rxHw)' => a < b
             /\ In(a, rxQ)' /\ In(b, rxHw)' => a < b
  BY <1>2, <1>6, <1>7 DEF ArrivalOrder
<1>9. ASSUME NEW a \in Nat, In(a, received)' \/ In(a, rxQ)' \/ In(a, rxHw)'
      PROVE  a <= arrivals'
  BY <1>1, <1>2, <1>6, <1>7, <1>9
<1> QED BY <1>5, <1>7, <1>8, <1>9 DEF ArrivalOrder

LEMMA RxOrder == ASSUME CanTypeOK, ArrivalOrder, Rx PROVE ArrivalOrder'
<1> DEFINE h == Head(rxQ)
<1>1. /\ received \in Seq(Nat) /\ rxQ \in Seq(Nat) /\ rxQ # <<>>
      /\ received' = Append(received, h) /\ rxQ' = Tail(rxQ)
      /\ UNCHANGED <<rxHw, arrivals>>
  BY DEF CanTypeOK, Rx, hwVars
<1>2. h \in Nat /\ In(h, rxQ) /\ \A b : In(b, rxQ') => In(b, rxQ)
  BY <1>1, TailFacts
<1>3. Increasing(rxQ') /\ \A b \in Nat : In(b, rxQ') => h < b
  BY <1>1, TailIncreasing DEF ArrivalOrder
<1>4. \A b : In(b, received') <=> In(b, received) \/ b = h
  BY <1>1, <1>2, AppendFacts
<1>5. Increasing(received')
  <2>1. \A a \in Nat : In(a, received) => a < h
    BY <1>2 DEF ArrivalOrder
  <2> QED BY <1>1, <1>2, <2>1, AppendIncreasing DEF ArrivalOrder
<1>6. /\ Increasing(received)' /\ Increasing(rxQ)' /\ Increasing(rxHw)'
      /\ \A b : /\ In(b, received)' <=> In(b, received) \/ b = h
                /\ In(b, rxQ)' => In(b, rxQ)
                /\ In(b, rxHw)' <=> In(b, rxHw)
      /\ \A b \in Nat : In(b, rxQ)' => h < b
  BY <1>1, <1>2, <1>3, <1>4, <1>5 DEF Increasing, In, ArrivalOrder
<1> HIDE DEF h
<1>7. ASSUME NEW a \in Nat, NEW b \in Nat
      PROVE  /\ In(a, received)' /\ In(b, rxQ)' => a < b
             /\ In(a, received)' /\ In(b, rxHw)' => a < b
             /\ In(a, rxQ)' /\ In(b, rxHw)' => a < b
  BY <1>2, <1>6 DEF ArrivalOrder
<1>8. ASSUME NEW a \in Nat, In(a, received)' \/ In(a, rxQ)' \/ In(a, rxHw)'
      PROVE  a <= arrivals'
  BY <1>1, <1>2, <1>6, <1>8 DEF ArrivalOrder
<1> QED BY <1>6, <1>7, <1>8 DEF ArrivalOrder

LEMMA IsrReceiveOrder == ASSUME CanTypeOK, ArrivalOrder, IsrReceive PROVE ArrivalOrder'
<1> DEFINE h == Head(rxHw)
<1>1. rxHw \in Seq(Nat) /\ rxQ \in Seq(Nat) /\ UNCHANGED <<received, arrivals>>
  BY DEF CanTypeOK, IsrReceive, rxVars
<1>2. CASE rxHw # <<>>
  <2>1. rxHw' = Tail(rxHw) /\ (rxQ' = Append(rxQ, h) \/ rxQ' = rxQ)
    BY <1>2 DEF IsrReceive
  <2>2. h \in Nat /\ In(h, rxHw) /\ \A b : In(b, rxHw') => In(b, rxHw)
    BY <1>1, <1>2, <2>1, TailFacts
  <2>3. Increasing(rxHw') /\ \A b \in Nat : In(b, rxHw') => h < b
    BY <1>1, <1>2, <2>1, TailIncreasing DEF ArrivalOrder
  <2>4. \A b : In(b, rxQ') => In(b, rxQ) \/ b = h
    BY <1>1, <2>1, <2>2, AppendFacts
  <2>5. Increasing(rxQ')
    <3>1. \A a \in Nat : In(a, rxQ) => a < h
      BY <2>2 DEF ArrivalOrder
    <3> QED BY <1>1, <2>1, <2>2, <3>1, AppendIncreasing DEF ArrivalOrder
  <2>6. /\ Increasing(received)' /\ Increasing(rxQ)' /\ Increasing(rxHw)'
        /\ \A b : /\ In(b, received)' <=> In(b, received)
                  /\ In(b, rxQ)' => In(b, rxQ) \/ b = h
                  /\ In(b, rxHw)' => In(b, rxHw)
        /\ \A b \in Nat : In(b, rxHw)' => h < b
    BY <1>1, <2>2, <2>3, <2>4, <2>5 DEF Increasing, In, ArrivalOrder
  <2> HIDE DEF h
  <2>7. ASSUME NEW a \in Nat, NEW b \in Nat
        PROVE  /\ In(a, received)' /\ In(b, rxQ)' => a < b
               /\ In(a, received)' /\ In(b, rxHw)' => a < b
               /\ In(a, rxQ)' /\ In(b, rxHw)' => a < b
    BY <2>2, <2>6 DEF ArrivalOrder
  <2>8. ASSUME NEW a \in Nat, In(a, received)' \/ In(a, rxQ)' \/ In(a, rxHw)'
        PROVE  a <= arrivals'
    BY <1>1, <2>2, <2>6, <2>8 DEF ArrivalOrder
  <2> QED BY <2>6, <2>7, <2>8 DEF ArrivalOrder
<1>3. CASE rxHw = <<>>
  BY <1>1, <1>3, OrderUnchanged DEF IsrReceive
<1> QED BY <1>2, <1>3

LEMMA OrderStep == CanTypeOK /\ ArrivalOrder /\ [CanNext]_canVars => ArrivalOrder'
<1> SUFFICES ASSUME CanTypeOK, ArrivalOrder, [CanNext]_canVars PROVE ArrivalOrder'
  OBVIOUS
<1>1. CASE Arrive
  BY <1>1, ArriveOrder
<1>2. CASE Rx
  BY <1>2, RxOrder
<1>3. CASE IsrReceive
  BY <1>3, IsrReceiveOrder
<1>4. CASE UNCHANGED <<received, rxQ, rxHw, arrivals>>
  BY <1>4, OrderUnchanged
<1>5. ASSUME NEW t \in Tasks, Tx(t) \/ CAN_tx(t)
      PROVE  UNCHANGED <<received, rxQ, rxHw, arrivals>>
  BY <1>5 DEF Tx, CAN_tx, TryBuffer, Queue, EnterKick, Kick, hwVars, rxVars
<1>6. Transmit \/ BusOff \/ ResetBus \/ IsrEnter \/ IsrTransmit \/ UNCHANGED canVars =>
        UNCHANGED <<received, rxQ, rxHw, arrivals>>
  BY DEF Transmit, BusOff, ResetBus, IsrEnter, IsrTransmit, canVars, hwVars, rxVars
<1> QED BY <1>1, <1>2, <1>3, <1>4, <1>5, <1>6 DEF CanNext, CAN_handle_isr

-----------------------------------------------------------------------------
(* No message is stranded.                                                 *)

LEMMA StrandedStep == CanTypeOK /\ NotStranded /\ [CanNext]_canVars => NotStranded'
<1> SUFFICES ASSUME CanTypeOK, NotStranded, [CanNext]_canVars, txQ' # <<>>, ~ stalled'
             PROVE  \/ hw' # None
                    \/ txIntr'
                    \/ isr' # "idle" /\ ibits'
                    \/ \E t \in Tasks : pc'[t] \in {"queued", "kick"}
  BY DEF NotStranded
<1> USE DEF hwVars, isrVars, taskVars, txHistory, rxVars, NotStranded
<1>1. CASE Transmit
  BY <1>1 DEF Transmit
<1>2. CASE Arrive \/ BusOff \/ Rx \/ UNCHANGED canVars
  BY <1>2 DEF Arrive, BusOff, Rx, canVars
<1>3. ASSUME NEW t \in Tasks, Tx(t) \/ TryBuffer(t)
      PROVE  hw' # None \/ txIntr' \/ \E u \in Tasks : pc'[u] \in {"queued", "kick"}
  <2>1. CASE Tx(t)
    <3>1. isr = "idle" /\ UNCHANGED <<txQ, stalled, hw, txIntr>>
      BY <2>1 DEF Tx, Runs
    <3>2. ASSUME NEW u \in Tasks, pc[u] \in {"queued", "kick"}
          PROVE  pc'[u] \in {"queued", "kick"}
      BY <2>1, <3>2 DEF Tx, CanTypeOK
    <3> QED BY <3>1, <3>2
  <2>2. CASE TryBuffer(t)
    <3>1. Own(t) # None
      BY <2>2, OwnIsMessage, MessageFacts DEF TryBuffer
    <3> QED BY <2>2, <3>1 DEF TryBuffer, StartTx
  <2> QED BY <1>3, <2>1, <2>2
<1>4. ASSUME NEW t \in Tasks, Queue(t) \/ EnterKick(t)
      PROVE  \E u \in Tasks : pc'[u] \in {"queued", "kick"}
  <2>1. pc'[t] \in {"queued", "kick"}
    BY <1>4 DEF Queue, EnterKick, CanTypeOK
  <2> QED BY <2>1
<1>5. ASSUME NEW t \in Tasks, Kick(t)
      PROVE  hw' # None
  <2>1. txQ # <<>> => Head(txQ) # None
    BY TailFacts, MessageFacts DEF CanTypeOK
  <2> QED BY <1>5, <2>1 DEF Kick, StartTx
<1>6. CASE ResetBus
  BY <1>6 DEF ResetBus
<1>7. CASE IsrEnter
  BY <1>7 DEF IsrEnter
<1>8. CASE IsrReceive
  BY <1>8 DEF IsrReceive
<1>9. CASE IsrTransmit
  <2>1. txQ # <<>> => Head(txQ) # None
    BY TailFacts, MessageFacts DEF CanTypeOK
  <2> QED BY <1>9, <2>1 DEF IsrTransmit, StartTx
<1> QED BY <1>1, <1>2, <1>3, <1>4, <1>5, <1>6, <1>7, <1>8, <1>9 DEF CanNext, CAN_tx, CAN_handle_isr

-----------------------------------------------------------------------------
(* No message goes out twice, and none that was refused.                   *)

SendInv == SentOnce /\ RefusedIsNotSent /\ OwnIsNew

LEMMA OwnDistinct ==
  ASSUME NEW t \in Tasks, NEW u \in Tasks, u # t
  PROVE  Own(u) # Own(t)
  BY DEF Own

(* A step that gives nothing to the controller or the queue, and leaves    *)
(* the calls alone.                                                        *)
LEMMA FewerGiven ==
  ASSUME RefusedIsNotSent, OwnIsNew, CanTypeOK,
         \A m \in Messages : Given(m)' => Given(m),
         UNCHANGED <<refused, pc, ok, tx>>
  PROVE  RefusedIsNotSent' /\ OwnIsNew'
<1>1. \A m \in refused : m \in Messages
  BY DEF CanTypeOK
<1>2. \A t \in Tasks : Own(t)' = Own(t)
  BY DEF Own
<1>3. ASSUME NEW t \in Tasks, pc[t] # "idle"
      PROVE  Own(t) \in Messages
  BY <1>3, OwnIsMessage
<1>4. RefusedIsNotSent'
  BY <1>1 DEF RefusedIsNotSent
<1>5. ASSUME NEW t \in Tasks
      PROVE  /\ pc'[t] # "idle" => Own(t)' \notin refused'
             /\ pc'[t] \in {"try", "queue"} => ~ Given(Own(t))'
             /\ pc'[t] \in {"queued", "kick"} /\ ~ ok'[t] => ~ Given(Own(t))'
  <2>1. pc[t] # "idle" => (Given(Own(t))' => Given(Own(t)))
    <3> SUFFICES ASSUME pc[t] # "idle", Given(Own(t))'
                 PROVE  Given(Own(t))
      OBVIOUS
    <3>1. Own(t) \in Messages
      BY <1>3
    <3> QED BY <1>2, <3>1 DEF Given, In
  <2> QED BY <1>2, <2>1 DEF OwnIsNew
<1> QED BY <1>4, <1>5 DEF OwnIsNew

(* The step in which task t gives its message away, or is refused.         *)
LEMMA OwnSettled ==
  ASSUME RefusedIsNotSent, OwnIsNew, CanTypeOK, CanTypeOK', NEW t \in Tasks, pc[t] # "idle",
         \/ /\ \A m \in Messages : Given(m)' => Given(m) \/ m = Own(t)
            /\ refused' = refused
         \/ /\ \A m \in Messages : Given(m)' => Given(m)
            /\ refused' = refused \cup {Own(t)} /\ ~ Given(Own(t)) /\ pc'[t] = "idle",
         tx' = tx,
         pc'[t] = "idle" \/ (pc'[t] = "queued" /\ ok'[t]),
         \A u \in Tasks \ {t} : pc'[u] = pc[u] /\ ok'[u] = ok[u]
  PROVE  RefusedIsNotSent' /\ OwnIsNew'
<1>1. Own(t) \in Messages /\ Own(t)[1] = t /\ Own(t)[2] = tx[t] /\ tx[t] \in Nat
  BY OwnIsMessage DEF CanTypeOK
<1>2. \A m \in refused : m \in Messages
  BY DEF CanTypeOK
<1>3. Own(t) \notin refused
  BY DEF OwnIsNew
<1>4. RefusedIsNotSent'
  BY <1>1, <1>2, <1>3 DEF RefusedIsNotSent
<1>5. ASSUME NEW m \in Messages, Given(m)' \/ m \in refused'
      PROVE  m[2] <= tx'[m[1]]
  <2>1. CASE m = Own(t)
    BY <1>1, <2>1
  <2>2. CASE m # Own(t)
    BY <1>5, <2>2 DEF OwnIsNew
  <2> QED BY <2>1, <2>2
<1>6. ASSUME NEW u \in Tasks \ {t}, pc[u] # "idle"
      PROVE  /\ Own(u)' = Own(u) /\ Own(u) \in Messages /\ Own(u) # Own(t)
             /\ Own(u) \notin refused'
             /\ Given(Own(u))' => Given(Own(u))
  <2>1. Own(u)' = Own(u) /\ Own(u) \in Messages /\ Own(u) # Own(t)
    BY <1>6, OwnIsMessage, OwnDistinct DEF Own
  <2>2. Own(u) \notin refused'
    BY <1>6, <2>1 DEF OwnIsNew
  <2>3. ASSUME NEW m \in Messages, m # Own(t), Given(m)'
        PROVE  Given(m)
    BY <2>3
  <2>4. Given(Own(u))' => Given(Own(u))
    BY <2>1, <2>3 DEF Given, In
  <2> QED BY <2>1, <2>2, <2>4
<1>7. ASSUME NEW u \in Tasks
      PROVE  /\ pc'[u] # "idle" => Own(u)' \notin refused'
             /\ pc'[u] \in {"try", "queue"} => ~ Given(Own(u))'
             /\ pc'[u] \in {"queued", "kick"} /\ ~ ok'[u] => ~ Given(Own(u))'
  <2>1. CASE u = t
    <3>1. Own(u)' = Own(t)
      BY <2>1 DEF Own
    <3>2. pc'[u] # "idle" => refused' = refused /\ ok'[u] /\ pc'[u] = "queued"
      BY <2>1
    <3> QED BY <1>3, <3>1, <3>2
  <2>2. CASE u # t
    <3>1. pc'[u] = pc[u] /\ ok'[u] = ok[u]
      BY <2>2
    <3>2. CASE pc[u] = "idle"
      BY <3>1, <3>2
    <3>3. CASE pc[u] # "idle"
      BY <1>6, <2>2, <3>1, <3>3 DEF OwnIsNew
    <3> QED BY <3>2, <3>3
  <2> QED BY <2>1, <2>2
<1> QED BY <1>4, <1>5, <1>7 DEF OwnIsNew

(* Where the messages are after each step that moves one.                  *)
LEMMA MoveFacts ==
  ASSUME CanTypeOK, SentOnce
  PROVE  /\ hw # None => /\ hw \in Messages /\ Once(Append(wire, hw))
                         /\ \A b : In(b, Append(wire, hw)) <=> In(b, wire) \/ b = hw
         /\ txQ # <<>> => /\ Head(txQ) \in Messages /\ Head(txQ) # None
                          /\ Once(Tail(txQ)) /\ In(Head(txQ), txQ)
                          /\ ~ In(Head(txQ), Tail(txQ)) /\ ~ In(Head(txQ), wire)
                          /\ \A b : In(b, Tail(txQ)) => In(b, txQ)
         /\ \A m \in Messages :
              /\ \A b : In(b, Append(txQ, m)) <=> In(b, txQ) \/ b = m
              /\ ~ In(m, txQ) => Once(Append(txQ, m))
<1>1. /\ Once(wire) /\ Once(txQ)
      /\ hw # None => ~ In(hw, wire)
      /\ \A m \in Messages : ~ (In(m, txQ) /\ In(m, wire))
  BY DEF SentOnce
<1>2. /\ wire \in Seq(Messages) /\ txQ \in Seq(Messages)
      /\ hw # None => hw \in Messages
  BY DEF CanTypeOK
<1>3. ASSUME hw # None
      PROVE  /\ hw \in Messages /\ Once(Append(wire, hw))
             /\ \A b : In(b, Append(wire, hw)) <=> In(b, wire) \/ b = hw
  BY <1>1, <1>2, <1>3, AppendFacts
<1>4. ASSUME txQ # <<>>
      PROVE  /\ Head(txQ) \in Messages /\ Once(Tail(txQ)) /\ In(Head(txQ), txQ)
             /\ ~ In(Head(txQ), Tail(txQ))
             /\ \A b : In(b, Tail(txQ)) => In(b, txQ)
  BY <1>1, <1>2, <1>4, TailFacts
<1>5. ASSUME NEW m \in Messages
      PROVE  /\ \A b : In(b, Append(txQ, m)) <=> In(b, txQ) \/ b = m
             /\ ~ In(m, txQ) => Once(Append(txQ, m))
  BY <1>1, <1>2, <1>5, AppendFacts
<1> QED BY <1>1, <1>3, <1>4, <1>5, MessageFacts

LEMMA SendUnchanged ==
  ASSUME CanTypeOK, SendInv, UNCHANGED <<hw, txQ, wire, refused, pc, ok, tx>>
  PROVE  SendInv'
<1>1. SentOnce'
  BY DEF SendInv, SentOnce, Once, In
<1>2. \A m \in Messages : Given(m)' => Given(m)
  BY DEF Given, In
<1> QED BY <1>1, <1>2, FewerGiven DEF SendInv

LEMMA TransmitSend == ASSUME CanTypeOK, SendInv, Transmit PROVE SendInv'
<1> USE DEF SendInv
<1>1. /\ hw # None /\ wire' = Append(wire, hw) /\ hw' = None
      /\ UNCHANGED <<txQ, refused, pc, ok, tx>>
  BY DEF Transmit, taskVars
<1>2. /\ hw \in Messages /\ Once(wire)'
      /\ \A b : In(b, wire)' <=> In(b, wire) \/ b = hw
      /\ \A b : In(b, txQ)' <=> In(b, txQ)
      /\ Once(txQ)'
  BY <1>1, MoveFacts DEF In, Once, SentOnce
<1>3. SentOnce'
  BY <1>1, <1>2 DEF SentOnce
<1>4. \A m \in Messages : Given(m)' => Given(m)
  BY <1>1, <1>2, MessageFacts DEF Given
<1> QED BY <1>1, <1>3, <1>4, FewerGiven

LEMMA TxSend == ASSUME CanTypeOK, SendInv, NEW t \in Tasks, Tx(t) PROVE SendInv'
<1> USE DEF SendInv
<1>1. /\ UNCHANGED <<hw, txQ, wire, refused, ok>>
      /\ pc' = [pc EXCEPT ![t] = "try"] /\ tx' = [tx EXCEPT ![t] = @ + 1]
      /\ tx[t] < MaxTx[t] /\ tx[t] \in Nat /\ MaxTx[t] \in Nat
      /\ tx \in [Tasks -> Nat]
  BY CanAssumption DEF Tx, hwVars, txHistory, CanTypeOK
<1>2. SentOnce'
  BY <1>1 DEF SentOnce, Once, In
<1>3. \A m \in Messages : Given(m)' <=> Given(m)
  BY <1>1 DEF Given, In
<1>4. \A m \in refused : m \in Messages
  BY DEF CanTypeOK
<1>5. RefusedIsNotSent'
  BY <1>1, <1>3, <1>4 DEF RefusedIsNotSent
<1>6. ASSUME NEW m \in Messages, Given(m)' \/ m \in refused'
      PROVE  m[2] <= tx'[m[1]] /\ m # <<t, tx[t] + 1>>
  <2>1. m[1] \in Tasks /\ m[2] \in Nat /\ m[2] <= tx[m[1]]
    BY <1>1, <1>3, <1>6, MessageFacts DEF OwnIsNew
  <2>2. tx'[m[1]] >= tx[m[1]] /\ tx'[m[1]] \in Nat /\ tx[m[1]] \in Nat
    BY <1>1, <2>1
  <2>3. m # <<t, tx[t] + 1>>
    BY <1>1, <2>1
  <2> QED BY <2>1, <2>2, <2>3
<1>7. ASSUME NEW u \in Tasks
      PROVE  /\ pc'[u] # "idle" => Own(u)' \notin refused'
             /\ pc'[u] \in {"try", "queue"} => ~ Given(Own(u))'
             /\ pc'[u] \in {"queued", "kick"} /\ ~ ok'[u] => ~ Given(Own(u))'
  <2>1. CASE u = t
    <3> DEFINE o == <<t, tx[t] + 1>>
    <3>1. Own(t)' = o
      BY <1>1 DEF Own
    <3>2. o \in {t} \X (1 .. MaxTx[t])
      BY <1>1
    <3>3. o \in Messages
      BY <3>2 DEF Messages
    <3> HIDE DEF o
    <3>4. ASSUME NEW m \in Messages, m = o
          PROVE  m \notin refused' /\ ~ Given(m)'
      BY <1>6, <3>4 DEF o
    <3>5. o \notin refused' /\ ~ (o = hw' \/ In(o, txQ') \/ In(o, wire'))
      BY <3>3, <3>4 DEF Given, In
    <3>6. Given(Own(t))' <=> (o = hw' \/ In(o, txQ') \/ In(o, wire'))
      BY <3>1 DEF Given, In
    <3> QED BY <2>1, <3>1, <3>5, <3>6
  <2>2. CASE u # t
    <3>1. Own(u)' = Own(u) /\ pc'[u] = pc[u] /\ ok'[u] = ok[u]
      BY <1>1, <2>2 DEF Own
    <3>2. Given(Own(u))' <=> Given(Own(u))
      BY <1>1, <3>1 DEF Given, In
    <3> QED BY <1>1, <3>1, <3>2 DEF OwnIsNew
  <2> QED BY <2>1, <2>2
<1>8. OwnIsNew'
  BY <1>6, <1>7 DEF OwnIsNew
<1> QED BY <1>2, <1>5, <1>8

LEMMA TryBufferSend == ASSUME CanTypeOK, CanTypeOK', SendInv, NEW t \in Tasks, TryBuffer(t) PROVE SendInv'
<1> USE DEF SendInv
<1>1. /\ UNCHANGED <<txQ, wire, tx, ok>> /\ pc[t] = "try"
      /\ \A u \in Tasks \ {t} : pc'[u] = pc[u]
      /\ Own(t) \in Messages
      /\ \A b : (In(b, txQ)' <=> In(b, txQ)) /\ (In(b, wire)' <=> In(b, wire))
      /\ Once(txQ)' /\ Once(wire)'
  BY OwnIsMessage DEF TryBuffer, Return, CanTypeOK, SentOnce, In, Once
<1>2. ~ Given(Own(t))
  BY <1>1 DEF OwnIsNew
<1>3. CASE hw = None /\ StartTx(Own(t)) /\ Return(t, TRUE)
  <2>1. hw' = Own(t) /\ refused' = refused /\ pc'[t] = "idle"
    BY <1>3 DEF StartTx, Return, CanTypeOK
  <2>2. SentOnce'
    BY <1>1, <1>2, <2>1 DEF SentOnce, Given
  <2>3. \A m \in Messages : Given(m)' => Given(m) \/ m = Own(t)
    BY <1>1, <2>1 DEF Given
  <2> QED BY <1>1, <2>1, <2>2, <2>3, OwnSettled
<1>4. CASE hw # None /\ pc' = [pc EXCEPT ![t] = "queue"] /\ UNCHANGED <<hw, refused>>
  <2>1. SentOnce'
    BY <1>1, <1>4 DEF SentOnce
  <2>2. /\ \A m : Given(m)' <=> Given(m)
        /\ \A u \in Tasks : Own(u)' = Own(u)
    BY <1>1, <1>4 DEF Given, Own
  <2>3. RefusedIsNotSent'
    BY <1>4, <2>2 DEF RefusedIsNotSent
  <2>4. ASSUME NEW u \in Tasks
        PROVE  Given(Own(u))' <=> Given(Own(u))
    BY <1>1, <1>4, <2>2 DEF Given, In
  <2>5. pc'[t] = "queue"
    BY <1>4 DEF CanTypeOK
  <2>6. OwnIsNew'
    BY <1>1, <1>4, <2>2, <2>4, <2>5 DEF OwnIsNew
  <2> QED BY <2>1, <2>3, <2>6
<1> QED BY <1>3, <1>4 DEF TryBuffer

LEMMA QueueSend == ASSUME CanTypeOK, CanTypeOK', SendInv, NEW t \in Tasks, Queue(t) PROVE SendInv'
<1> USE DEF SendInv
<1>1. /\ UNCHANGED <<hw, wire, tx, refused>> /\ pc[t] = "queue"
      /\ pc' = [pc EXCEPT ![t] = "queued"] /\ pc'[t] = "queued"
      /\ \A u \in Tasks \ {t} : pc'[u] = pc[u] /\ ok'[u] = ok[u]
      /\ Own(t) \in Messages
      /\ \A b : In(b, wire)' <=> In(b, wire)
      /\ Once(wire)'
  BY OwnIsMessage DEF Queue, CanTypeOK, SentOnce, In, Once, hwVars, txHistory
<1>2. ~ Given(Own(t))
  BY <1>1 DEF OwnIsNew
<1>3. CASE txQ' = Append(txQ, Own(t)) /\ ok' = [ok EXCEPT ![t] = TRUE]
  <2>1. /\ Once(txQ)' /\ ok'[t]
        /\ \A b : In(b, txQ)' <=> In(b, txQ) \/ b = Own(t)
    <3> DEFINE q == Append(txQ, Own(t))
    <3>1. Once(q) /\ \A b : In(b, q) <=> In(b, txQ) \/ b = Own(t)
      BY <1>1, <1>2, MoveFacts DEF Given
    <3>2. txQ' = q /\ ok'[t]
      BY <1>3 DEF CanTypeOK
    <3> HIDE DEF q
    <3> QED BY <3>1, <3>2 DEF Once, In
  <2>2. SentOnce'
    BY <1>1, <1>2, <2>1 DEF SentOnce, Given
  <2>3. \A m \in Messages : Given(m)' => Given(m) \/ m = Own(t)
    BY <1>1, <2>1 DEF Given
  <2> QED BY <1>1, <2>1, <2>2, <2>3, OwnSettled
<1>4. CASE txQ' = txQ /\ ok' = [ok EXCEPT ![t] = FALSE]
  <2>1. (\A b : In(b, txQ)' <=> In(b, txQ)) /\ Once(txQ)'
    BY <1>4 DEF In, Once, SentOnce
  <2>2. SentOnce'
    BY <1>1, <2>1 DEF SentOnce
  <2>3. /\ \A m : Given(m)' <=> Given(m)
        /\ \A u \in Tasks : Own(u)' = Own(u)
    BY <1>1, <2>1 DEF Given, Own
  <2>4. RefusedIsNotSent'
    BY <1>1, <2>3 DEF RefusedIsNotSent
  <2>5. ASSUME NEW u \in Tasks
        PROVE  Given(Own(u))' <=> Given(Own(u))
    BY <1>1, <1>4, <2>3 DEF Given, In
  <2>6. OwnIsNew'
    BY <1>1, <1>2, <2>3, <2>5 DEF OwnIsNew
  <2> QED BY <2>2, <2>4, <2>6
<1> QED BY <1>3, <1>4 DEF Queue

LEMMA EnterKickSend == ASSUME CanTypeOK, SendInv, NEW t \in Tasks, EnterKick(t) PROVE SendInv'
<1> USE DEF SendInv
<1>1. /\ UNCHANGED <<hw, txQ, wire, refused, ok, tx>> /\ pc[t] = "queued"
      /\ pc'[t] = "kick" /\ \A u \in Tasks \ {t} : pc'[u] = pc[u]
  BY DEF EnterKick, hwVars, txHistory, CanTypeOK
<1>2. SentOnce'
  BY <1>1 DEF SentOnce, Once, In
<1>3. /\ \A m : Given(m)' <=> Given(m)
      /\ \A u \in Tasks : Own(u)' = Own(u)
  BY <1>1 DEF Given, Own, In
<1>4. ASSUME NEW u \in Tasks
      PROVE  Given(Own(u))' <=> Given(Own(u))
  BY <1>1, <1>3 DEF Given, In
<1>5. RefusedIsNotSent' /\ OwnIsNew'
  BY <1>1, <1>3, <1>4 DEF RefusedIsNotSent, OwnIsNew
<1> QED BY <1>2, <1>5

(* The first message of the queue goes to buffer 1, or is dropped.         *)
LEMMA TakeFirst ==
  ASSUME CanTypeOK, SentOnce, txQ # <<>>, txQ' = Tail(txQ), wire' = wire,
         \/ hw = None /\ hw' = Head(txQ)
         \/ hw # None /\ hw' = hw
  PROVE  SentOnce' /\ \A m \in Messages : Given(m)' => Given(m)
<1> DEFINE q == Tail(txQ)
<1>1. /\ Head(txQ) \in Messages /\ In(Head(txQ), txQ) /\ Once(q)
      /\ ~ In(Head(txQ), q) /\ ~ In(Head(txQ), wire)
      /\ \A b : In(b, q) => In(b, txQ)
  BY MoveFacts
<1>2. txQ' = q
  OBVIOUS
<1> HIDE DEF q
<1>3. /\ Once(txQ)' /\ Once(wire)'
      /\ \A b : (In(b, txQ)' <=> In(b, q)) /\ (In(b, wire)' <=> In(b, wire))
  BY <1>1, <1>2 DEF Once, In, SentOnce
<1>4. SentOnce'
  BY <1>1, <1>3 DEF SentOnce
<1>5. \A m \in Messages : Given(m)' => Given(m)
  BY <1>1, <1>3 DEF Given
<1> QED BY <1>4, <1>5

LEMMA KickSend == ASSUME CanTypeOK, CanTypeOK', SendInv, NEW t \in Tasks, Kick(t) PROVE SendInv'
<1> USE DEF SendInv
<1>1. /\ UNCHANGED <<wire, tx, ok>> /\ pc[t] = "kick" /\ pc'[t] = "idle"
      /\ \A u \in Tasks \ {t} : pc'[u] = pc[u]
      /\ ok[t] \in BOOLEAN
  BY DEF Kick, Return, CanTypeOK
<1>2. CASE /\ hw = None /\ txQ # <<>> /\ StartTx(Head(txQ)) /\ txQ' = Tail(txQ)
           /\ Return(t, TRUE)
  <2>1. refused' = refused /\ SentOnce' /\ \A m \in Messages : Given(m)' => Given(m)
    BY <1>1, <1>2, TakeFirst DEF StartTx, Return
  <2> QED BY <1>1, <2>1, OwnSettled
<1>3. CASE Return(t, ok[t]) /\ UNCHANGED <<hw, txQ>>
  <2>1. SentOnce' /\ \A m \in Messages : Given(m)' => Given(m)
    BY <1>1, <1>3 DEF SentOnce, Given, Once, In
  <2>2. CASE ok[t]
    BY <1>1, <1>3, <2>1, <2>2, OwnSettled DEF Return
  <2>3. CASE ~ ok[t]
    <3>1. ~ Given(Own(t))
      BY <1>1, <2>3 DEF OwnIsNew
    <3>2. refused' = refused \cup {Own(t)}
      BY <1>3, <2>3 DEF Return
    <3> QED BY <1>1, <2>1, <3>1, <3>2, OwnSettled
  <2> QED BY <2>2, <2>3
<1> QED BY <1>2, <1>3 DEF Kick

LEMMA ResetBusSend == ASSUME CanTypeOK, SendInv, ResetBus PROVE SendInv'
<1> USE DEF SendInv
<1>1. hw' = None /\ UNCHANGED <<txQ, wire, refused, pc, ok, tx>>
  BY DEF ResetBus, taskVars
<1>2. SentOnce'
  BY <1>1 DEF SentOnce, Once, In
<1>3. \A m \in Messages : Given(m)' => Given(m)
  BY <1>1, MessageFacts DEF Given, In
<1> QED BY <1>1, <1>2, <1>3, FewerGiven

LEMMA IsrTransmitSend == ASSUME CanTypeOK, SendInv, IsrTransmit PROVE SendInv'
<1> USE DEF SendInv
<1>1. UNCHANGED <<wire, refused, pc, ok, tx>>
  BY DEF IsrTransmit, taskVars
<1>2. CASE UNCHANGED <<txQ, hw>>
  BY <1>1, <1>2, SendUnchanged
<1>3. CASE txQ # <<>> /\ txQ' = Tail(txQ)
  <2>1. \/ hw = None /\ hw' = Head(txQ)
        \/ hw # None /\ hw' = hw
    BY <1>3 DEF IsrTransmit, StartTx
  <2> QED BY <1>1, <1>3, <2>1, TakeFirst, FewerGiven
<1> QED BY <1>2, <1>3 DEF IsrTransmit

LEMMA SendStep == CanTypeOK /\ CanTypeOK' /\ SendInv /\ [CanNext]_canVars => SendInv'
<1> SUFFICES ASSUME CanTypeOK, CanTypeOK', SendInv, [CanNext]_canVars PROVE SendInv'
  OBVIOUS
<1>1. CASE Transmit
  BY <1>1, TransmitSend
<1>2. ASSUME NEW t \in Tasks, Tx(t) \/ CAN_tx(t)
      PROVE  SendInv'
  BY <1>2, TxSend, TryBufferSend, QueueSend, EnterKickSend, KickSend DEF CAN_tx
<1>3. CASE ResetBus
  BY <1>3, ResetBusSend
<1>4. CASE IsrTransmit
  BY <1>4, IsrTransmitSend
<1>5. CASE Arrive \/ BusOff \/ Rx \/ IsrEnter \/ IsrReceive \/ UNCHANGED canVars
  <2>1. UNCHANGED <<hw, txQ, wire, refused, pc, ok, tx>>
    BY <1>5 DEF Arrive, BusOff, Rx, IsrEnter, IsrReceive, canVars, hwVars, taskVars, txHistory
  <2> QED BY <2>1, SendUnchanged
<1> QED BY <1>1, <1>2, <1>3, <1>4, <1>5 DEF CanNext, CAN_handle_isr

-----------------------------------------------------------------------------
(* The results.                                                            *)

LEMMA Inductive == CanIInv /\ [CanNext]_canVars => CanIInv'
  BY TypeStep, StrandedStep, SendStep, OrderStep DEF CanIInv, SendInv

(* CanIInv holds in every state of CanDriver, for any senders, any number of  *)
(* messages and any sizes of the two queues.                               *)
THEOREM Invariance == CanSpec => []CanIInv
<1>1. CanInit => CanIInv
  BY InitInv
<1>2. CanIInv /\ [CanNext]_canVars => CanIInv'
  BY Inductive
<1> QED BY <1>1, <1>2, PTL DEF CanSpec

(* The types hold, and interrupts are masked exactly in the two critical   *)
(* sections of CAN_tx(), one task at a time.                               *)
THEOREM TypeCorrect == CanSpec => []CanTypeOK
<1>1. CanIInv => CanTypeOK
  BY DEF CanIInv
<1> QED BY <1>1, Invariance, PTL

(* The race CAN_tx() guards against (can.c:439-442) never strands a queued *)
(* message: unless CAN_reset_bus() left it there, the controller, the      *)
(* interrupt or a caller of CAN_tx() is going to send it.                  *)
THEOREM MessagesNotStranded == CanSpec => []NotStranded
<1>1. CanIInv => NotStranded
  BY DEF CanIInv
<1> QED BY <1>1, Invariance, PTL

(* Whether CAN_tx(), its second check or the interrupt sends a message, it *)
(* goes out at most once; and one for which CAN_tx() returned false was    *)
(* not sent and never will be.                                             *)
THEOREM MessagesSentAsTold == CanSpec => []SentAsTold
<1>1. CanIInv => SentAsTold
  BY DEF CanIInv, SentAsTold
<1> QED BY <1>1, Invariance, PTL

(* CAN_rx() returns messages in the order in which they arrived, however   *)
(* many the interrupt had to drop.                                         *)
THEOREM ReceivedInOrder == CanSpec => []RxInOrder
<1>1. CanIInv => RxInOrder
  BY DEF CanIInv, ArrivalOrder, RxInOrder
<1> QED BY <1>1, Invariance, PTL

-----------------------------------------------------------------------------
(* The I2C driver.                                                         *)

(* The caller the bus works for, and how far it is: the i-th byte goes to, *)
(* or comes from, the i-th register; byte ptr is the next one and size of  *)
(* them are left.                                                          *)
Owner == trx.owner
Waits == i2cPc[Owner] = "wait"
InStep == \A i \in DOMAIN moved : moved[i] = <<<<Owner, i>>, <<Owner, i>>>>
Counts == trx.size + trx.ptr = req[Owner].size + 1 /\ trx.ptr >= 1
Fresh == trx.ptr = 1 /\ trx.size = req[Owner].size /\ moved = <<>>

(* The bus works for it: before the byte that selects the register ...     *)
Starting == stat \in {"idle", "start"} /\ sta /\ (si => stat = "start") /\ Fresh
Addressing ==
  /\ stat = "slaveAddressAcked" /\ Fresh /\ dev[1] = NoRequester
  /\ ~ si => ~ sta /\ trx.size # 0 /\ dat = <<Owner, 0>>

(* ... when it, or a byte that was written, has been acknowledged ...      *)
Acked ==
  /\ stat = "dataAckedBySlave" /\ si /\ ~ sta /\ Counts
  /\ dev = <<Owner, trx.ptr>> /\ Len(moved) = trx.ptr - 1
  /\ trx.read => Fresh /\ trx.size # 0

(* ... while a byte is written, while it is turned around to read, while a *)
(* byte is read and when it has been.                                      *)
Writing ==
  /\ stat = "dataAckedBySlave" /\ ~ si /\ ~ sta /\ ~ trx.read /\ Counts /\ trx.ptr >= 2
  /\ dat = <<Owner, trx.ptr - 1>> /\ dev = <<Owner, trx.ptr - 1>> /\ Len(moved) = trx.ptr - 2

Turning ==
  /\ \/ stat = "dataAckedBySlave" /\ ~ si /\ sta
     \/ stat = "repeatStart"
     \/ stat = "readAckedBySlave" /\ si
  /\ trx.read /\ Fresh /\ trx.size # 0 /\ dev = <<Owner, 1>>

Reading ==
  /\ stat \in {"readAckedBySlave", "dataAvailableAckSent"} /\ ~ si
  /\ Counts /\ trx.size >= 1 /\ (aa <=> trx.size > 1)
  /\ dev = <<Owner, trx.ptr>> /\ Len(moved) = trx.ptr - 1

HasRead ==
  /\ stat \in {"dataAvailableAckSent", "dataAvailableNackSent"} /\ si
  /\ Counts /\ trx.size >= 1 /\ (stat = "dataAvailableAckSent" <=> trx.size > 1)
  /\ dat = <<Owner, trx.ptr>> /\ dev = <<Owner, trx.ptr + 1>> /\ Len(moved) = trx.ptr - 1

Active == Starting \/ Addressing \/ Acked \/ Writing \/ Turning \/ Reading \/ HasRead

(* It is disturbed or not answered, or done.                               *)
Broken == si /\ stat \in Stuck \cup {"other"} /\ (signal => stat \in Stuck)

Ended == stat = "idle" /\ ~ sta /\ ~ si /\ signal /\ (trx.error \/ Len(moved) = req[Owner].size)

Progress ==
  /\ trx.read = req[Owner].read /\ InStep /\ Len(moved) <= req[Owner].size
  /\ (Active /\ ~ signal /\ ~ trx.error) \/ Broken \/ Ended

(* Until a transfer times out, the bus works for who waits.                *)
TransferInv ==
  /\ \A c \in Callers : i2cPc[c] = "wait" => c = Owner
  /\ signal \/ stat # "idle" \/ sta \/ si => Waits
  /\ Waits => Progress

(* What is sent is a byte of a caller.                                     *)
DatIsByte == stat \in {"slaveAddressAcked", "dataAckedBySlave"} /\ ~ si /\ ~ sta => dat \in Byte

I2cInv == I2cTypeOK /\ DatIsByte /\ (~ late => TransferInv)

-----------------------------------------------------------------------------
(* Types.                                                                  *)

AnyByte == (Callers \cup {NoRequester}) \X Nat

LEMMA Constants ==
  /\ Boot \in Callers /\ Wrap \in Nat \ {0} /\ Sizes \cup {0} \subseteq 0 .. (Wrap - 1)
  /\ \A t \in I2cTasks : t # Boot /\ t \in Callers /\ t # NoRequester
  /\ Boot # NoRequester /\ NoRequester \notin Callers
BY I2cAssumption DEF Callers

LEMMA NextSizeFacts ==
  ASSUME I2cTypeOK
  PROVE  NextSize \in 0 .. (Wrap - 1) /\ (trx.size >= 1 => NextSize = trx.size - 1)
<1>1. trx.size \in 0 .. (Wrap - 1) /\ Wrap \in Nat \ {0}
  BY Constants DEF I2cTypeOK
<1>2. trx.size - 1 \in Int
  BY <1>1
<1> DEFINE x == trx.size - 1
<1>3. x % Wrap \in 0 .. (Wrap - 1)
  BY <1>1, <1>2
<1>4. trx.size >= 1 => x \in 0 .. (Wrap - 1)
  BY <1>1
<1>5. x \in 0 .. (Wrap - 1) => x % Wrap = x
  BY <1>1
<1> QED BY <1>3, <1>4, <1>5 DEF NextSize

LEMMA I2cInitInv == I2cInit => I2cInv
<1> SUFFICES ASSUME I2cInit PROVE I2cInv
  OBVIOUS
<1>1. I2cTypeOK
  <2>1. trx \in [owner : Callers, read : BOOLEAN, size : 0 .. (Wrap - 1), ptr : Nat, error : BOOLEAN]
    BY Constants DEF I2cInit
  <2>2. req \in [Callers -> [read : BOOLEAN, size : Sizes \cup {0}]]
    BY DEF I2cInit, NoRequest
  <2>3. dat \in (Callers \cup {NoRequester}) \X Nat /\ dev \in (Callers \cup {NoRequester}) \X Nat
    BY Constants DEF I2cInit
  <2>4. moved \in Seq(((Callers \cup {NoRequester}) \X Nat) \X Byte)
    BY DEF I2cInit
  <2>5. stat \in Status /\ calls \in Nat
    BY DEF I2cInit, Status
  <2> QED BY <2>1, <2>2, <2>3, <2>4, <2>5, Constants DEF I2cInit, I2cTypeOK
<1>2. DatIsByte
  BY DEF I2cInit, DatIsByte
<1>3. TransferInv
  BY <1>1, Constants DEF I2cInit, TransferInv, Waits, Owner
<1> QED BY <1>1, <1>2, <1>3 DEF I2cInv

(* The bus.                                                                *)
BusTypes ==
  /\ si \in BOOLEAN /\ sta \in BOOLEAN /\ aa \in BOOLEAN /\ stat \in Status
  /\ dat \in AnyByte /\ dev \in AnyByte /\ moved \in Seq(AnyByte \X Byte)

LEMMA BusTypesOnly ==
  ASSUME I2cTypeOK, BusTypes', UNCHANGED <<callVars, signal, trx>>
  PROVE  I2cTypeOK'
BY DEF I2cTypeOK, BusTypes, callVars, AnyByte

LEMMA BusType ==
  ASSUME I2cTypeOK, DatIsByte, Bus
  PROVE  I2cTypeOK' /\ DatIsByte'
<1>1. BusTypes
  BY DEF I2cTypeOK, BusTypes, AnyByte
<1>2. /\ si' = TRUE /\ ~ si /\ UNCHANGED <<sta, aa>>
      /\ UNCHANGED <<callVars, signal, trx>>
  BY DEF Bus, BusStart, Addressed, Sent, Restart, ReadAddressed, Received, Disturbed, Report
<1>3. stat' \in Status
  BY DEF Bus, BusStart, Addressed, Sent, Restart, ReadAddressed, Received, Disturbed, Report, Status, Stuck
<1>4. <<NoRequester, 0>> \in AnyByte /\ <<dev[1], dev[2] + 1>> \in AnyByte /\ <<dat[1], dat[2] + 1>> \in AnyByte
  BY <1>1 DEF BusTypes, AnyByte
<1>5. dat' \in AnyByte /\ dev' \in AnyByte
  BY <1>1, <1>4 DEF Bus, BusStart, Addressed, Sent, Restart, ReadAddressed, Received, Disturbed, BusTypes
<1>6. moved' \in Seq(AnyByte \X Byte)
  <2>1. CASE Sent
    <3>1. dat \in Byte /\ dev \in AnyByte
      BY <1>1, <1>2, <2>1 DEF Sent, DatIsByte, BusTypes
    <3>2. Append(moved, <<dev, dat>>) \in Seq(AnyByte \X Byte)
      BY <1>1, <3>1 DEF BusTypes
    <3> QED BY <1>1, <2>1, <3>2 DEF Sent, BusTypes
  <2>2. CASE UNCHANGED moved
    BY <1>1, <2>2 DEF BusTypes
  <2> QED BY <2>1, <2>2 DEF Bus, BusStart, Addressed, Restart, ReadAddressed, Received, Disturbed
<1>7. I2cTypeOK'
  <2>1. BusTypes'
    BY <1>1, <1>2, <1>3, <1>5, <1>6 DEF BusTypes
  <2> QED BY <1>2, <2>1, BusTypesOnly
<1> QED BY <1>2, <1>7 DEF DatIsByte

(* The interrupt.                                                          *)
LEMMA IsrType ==
  ASSUME I2cTypeOK, handleInterrupt
  PROVE  I2cTypeOK' /\ DatIsByte'
<1>1. BusTypes /\ trx \in [owner : Callers, read : BOOLEAN, size : 0 .. (Wrap - 1), ptr : Nat, error : BOOLEAN]
  BY DEF I2cTypeOK, BusTypes, AnyByte
<1>2. si /\ UNCHANGED callVars
  BY DEF handleInterrupt, IsrStart, IsrSlaveAddressAcked, IsrDataAcked, IsrReadAcked, IsrDataAckSent,
         IsrDataNackSent, IsrArbitrationLost, IsrNacked, IsrOther, Continue, SetStop, i2cVars
<1>3. NextSize \in 0 .. (Wrap - 1) /\ trx.ptr + 1 \in Nat
  BY <1>1, NextSizeFacts
<1>4. trx' \in [owner : Callers, read : BOOLEAN, size : 0 .. (Wrap - 1), ptr : Nat, error : BOOLEAN]
  <2>1. \/ trx' = trx
        \/ trx' = [trx EXCEPT !.ptr = @ + 1, !.size = NextSize]
        \/ trx' = [trx EXCEPT !.error = TRUE]
    BY DEF handleInterrupt, IsrStart, IsrSlaveAddressAcked, IsrDataAcked, IsrReadAcked, IsrDataAckSent,
         IsrDataNackSent, IsrArbitrationLost, IsrNacked, IsrOther, i2cVars
  <2> QED BY <1>1, <1>3, <2>1
<1>5. /\ signal' \in BOOLEAN /\ si' \in BOOLEAN /\ sta' \in BOOLEAN /\ aa' \in BOOLEAN
      /\ stat' \in Status /\ UNCHANGED dev
  <2>1. signal \in BOOLEAN
    BY DEF I2cTypeOK
  <2>2. (NextSize # 1) \in BOOLEAN /\ (trx.size > 1) \in BOOLEAN
    OBVIOUS
  <2>3. stat' = stat \/ stat' = "idle"
    BY DEF handleInterrupt, IsrStart, IsrSlaveAddressAcked, IsrDataAcked, IsrReadAcked, IsrDataAckSent,
           IsrDataNackSent, IsrArbitrationLost, IsrNacked, IsrOther, Continue, SetStop, busVars, i2cVars
  <2> QED BY <1>1, <2>1, <2>2, <2>3
          DEF handleInterrupt, IsrStart, IsrSlaveAddressAcked, IsrDataAcked, IsrReadAcked, IsrDataAckSent,
              IsrDataNackSent, IsrArbitrationLost, IsrNacked, IsrOther, Continue, SetStop, busVars, i2cVars,
              BusTypes, Status
<1>6. <<trx.owner, 0>> \in Byte /\ <<trx.owner, trx.ptr>> \in Byte /\ Byte \subseteq AnyByte
  BY <1>1 DEF Byte, AnyByte
<1>7. dat' \in AnyByte
  BY <1>1, <1>6
     DEF handleInterrupt, IsrStart, IsrSlaveAddressAcked, IsrDataAcked, IsrReadAcked, IsrDataAckSent,
         IsrDataNackSent, IsrArbitrationLost, IsrNacked, IsrOther, SetStop, busVars, i2cVars, BusTypes
<1>8. moved' \in Seq(AnyByte \X Byte)
  <2>1. Append(moved, <<dat, <<trx.owner, trx.ptr>>>>) \in Seq(AnyByte \X Byte)
    <3>1. <<dat, <<trx.owner, trx.ptr>>>> \in AnyByte \X Byte
      BY <1>1, <1>6 DEF BusTypes
    <3> QED BY <1>1, <3>1 DEF BusTypes
  <2>2. moved' = moved \/ moved' = Append(moved, <<dat, <<trx.owner, trx.ptr>>>>)
    BY DEF handleInterrupt, IsrStart, IsrSlaveAddressAcked, IsrDataAcked, IsrReadAcked, IsrDataAckSent,
         IsrDataNackSent, IsrArbitrationLost, IsrNacked, IsrOther, Store, busVars, i2cVars
  <2> QED BY <1>1, <2>1, <2>2 DEF BusTypes
<1>9. I2cTypeOK'
  BY <1>1, <1>2, <1>4, <1>5, <1>7, <1>8 DEF I2cTypeOK, BusTypes, callVars, AnyByte
<1>10. DatIsByte'
  <2>1. SUFFICES ASSUME stat' \in {"slaveAddressAcked", "dataAckedBySlave"}, ~ si', ~ sta' PROVE dat' \in Byte
    BY DEF DatIsByte
  <2>2. IsrSlaveAddressAcked \/ IsrDataAcked
    BY <1>2, <2>1 DEF handleInterrupt, IsrStart, IsrReadAcked, IsrDataAckSent,
         IsrDataNackSent, IsrArbitrationLost, IsrNacked, IsrOther, Continue, SetStop, busVars, i2cVars
  <2> QED BY <1>6, <2>1, <2>2 DEF IsrSlaveAddressAcked, IsrDataAcked, Continue, SetStop
<1> QED BY <1>9, <1>10

(* The callers.                                                            *)
BusSame == UNCHANGED <<stat, si, aa, dat, dev>>

LEMMA DatUnchanged ==
  ASSUME DatIsByte, BusSame, sta' = sta \/ sta' = TRUE
  PROVE  DatIsByte'
BY DEF DatIsByte, BusSame

CallTypes ==
  /\ osRunning \in BOOLEAN /\ late \in BOOLEAN /\ calls \in Nat
  /\ i2cPc \in [Callers -> {"idle", "lock", "clear", "kick", "wait"}]
  /\ req \in [Callers -> [read : BOOLEAN, size : Sizes \cup {0}]]
  /\ result \in [Callers -> BOOLEAN]

MutexIsHeld ==
  /\ mutex \in I2cTasks \cup {NoRequester}
  /\ \A t \in I2cTasks : mutex = t <=> i2cPc[t] \in {"clear", "kick", "wait"}
  /\ i2cPc[Boot] \in {"idle", "kick", "wait"} /\ (osRunning => i2cPc[Boot] = "idle")
  /\ ~ osRunning => \A t \in I2cTasks : i2cPc[t] = "idle"

LEMMA CallTypesOnly ==
  ASSUME I2cTypeOK, CallTypes', MutexIsHeld', BusSame, sta' \in BOOLEAN, signal' \in BOOLEAN,
         UNCHANGED trx \/ trx' \in [owner : Callers, read : BOOLEAN, size : 0 .. (Wrap - 1), ptr : Nat, error : BOOLEAN],
         UNCHANGED moved \/ moved' = <<>>
  PROVE  I2cTypeOK'
<1>1. moved' \in Seq(((Callers \cup {NoRequester}) \X Nat) \X Byte)
  <2>1. moved \in Seq(((Callers \cup {NoRequester}) \X Nat) \X Byte)
    BY DEF I2cTypeOK
  <2> DEFINE S == ((Callers \cup {NoRequester}) \X Nat) \X Byte
  <2>2. <<>> \in Seq(S)
    <3> HIDE DEF S
    <3> QED OBVIOUS
  <2>3. CASE moved' = <<>>
    BY <2>2, <2>3
  <2>4. CASE UNCHANGED moved
    BY <2>1, <2>4
  <2> QED BY <2>3, <2>4
<1>2. trx' \in [owner : Callers, read : BOOLEAN, size : 0 .. (Wrap - 1), ptr : Nat, error : BOOLEAN]
  BY DEF I2cTypeOK
<1> QED BY <1>1, <1>2 DEF I2cTypeOK, CallTypes, MutexIsHeld, BusSame

LEMMA StartSchedulerType ==
  ASSUME I2cTypeOK, DatIsByte, StartScheduler
  PROVE  I2cTypeOK' /\ DatIsByte'
<1>1. I2cTypeOK'
  BY DEF I2cTypeOK, StartScheduler, busVars
<1> QED BY <1>1, DatUnchanged DEF StartScheduler, busVars, BusSame

LEMMA CallType ==
  ASSUME I2cTypeOK, DatIsByte, NEW c \in Callers, NEW read \in BOOLEAN, NEW size \in Sizes, Call(c, read, size)
  PROVE  I2cTypeOK' /\ DatIsByte'
<1>1. CallTypes /\ MutexIsHeld
  BY DEF I2cTypeOK, CallTypes, MutexIsHeld
<1>2. UNCHANGED <<mutex, osRunning, late, signal, trx, stat, si, sta, aa, dat, dev, moved>> /\ i2cPc[c] = "idle"
  BY DEF Call, busVars
<1>3. CallTypes'
  BY <1>1, <1>2 DEF CallTypes, Call
<1>4. MutexIsHeld'
  <2>1. i2cPc' = [i2cPc EXCEPT ![c] = IF c = Boot THEN "kick" ELSE "lock"] /\ (osRunning <=> c # Boot)
    BY DEF Call
  <2> QED BY <1>1, <1>2, <2>1, Constants DEF CallTypes, MutexIsHeld, Callers
<1> QED BY <1>2, <1>3, <1>4, CallTypesOnly, DatUnchanged DEF BusSame, I2cTypeOK

LEMMA TransferType ==
  ASSUME I2cTypeOK, DatIsByte, NEW c \in Callers, transfer(c)
  PROVE  I2cTypeOK' /\ DatIsByte'
<1>1. CallTypes /\ MutexIsHeld
  BY DEF I2cTypeOK, CallTypes, MutexIsHeld
<1>2. BusSame /\ UNCHANGED osRunning /\ (sta' = sta \/ sta' = TRUE) /\ signal' \in BOOLEAN
      /\ (UNCHANGED moved \/ moved' = <<>>) /\ UNCHANGED calls /\ (late' = late \/ late' = TRUE)
  BY DEF transfer, Lock, ClearSignal, i2cKickOffTransfer, Complete, WaitTimeout, busVars, BusSame, I2cTypeOK
<1>3. trx' \in [owner : Callers, read : BOOLEAN, size : 0 .. (Wrap - 1), ptr : Nat, error : BOOLEAN]
  <2>1. req[c].read \in BOOLEAN /\ req[c].size \in 0 .. (Wrap - 1)
    BY <1>1, Constants DEF CallTypes
  <2>2. [owner |-> c, read |-> req[c].read, size |-> req[c].size, ptr |-> 1, error |-> FALSE]
          \in [owner : Callers, read : BOOLEAN, size : 0 .. (Wrap - 1), ptr : Nat, error : BOOLEAN]
    BY <2>1
  <2> QED BY <2>2 DEF transfer, Lock, ClearSignal, i2cKickOffTransfer, Complete, WaitTimeout, busVars, I2cTypeOK
<1>4. CallTypes'
  <2>1. NoRequest \in [read : BOOLEAN, size : Sizes \cup {0}]
    BY DEF NoRequest
  <2>2. /\ req' = req \/ req' = [req EXCEPT ![c] = NoRequest]
        /\ result' = result \/ \E done \in BOOLEAN : result' = [result EXCEPT ![c] = done]
    BY DEF transfer, Lock, ClearSignal, i2cKickOffTransfer, Complete, WaitTimeout, I2cReturn, I2cTypeOK
  <2>3. \E next \in {"idle", "clear", "kick", "wait"} : i2cPc' = [i2cPc EXCEPT ![c] = next]
    BY DEF transfer, Lock, ClearSignal, i2cKickOffTransfer, Complete, WaitTimeout, I2cReturn
  <2>4. i2cPc' \in [Callers -> {"idle", "lock", "clear", "kick", "wait"}]
    BY <1>1, <2>3 DEF CallTypes
  <2>5. req' \in [Callers -> [read : BOOLEAN, size : Sizes \cup {0}]]
    BY <1>1, <2>1, <2>2 DEF CallTypes
  <2>6. result' \in [Callers -> BOOLEAN]
    BY <1>1, <2>2 DEF CallTypes
  <2> QED BY <1>1, <1>2, <2>4, <2>5, <2>6 DEF CallTypes
<1>5. MutexIsHeld'
  <2>1. CASE Lock(c) /\ mutex = NoRequester
    <3>1. /\ mutex' = c /\ i2cPc' = [i2cPc EXCEPT ![c] = "clear"] /\ i2cPc[c] = "lock" /\ mutex = NoRequester
      BY <2>1 DEF Lock
    <3> QED BY <1>1, <1>2, <3>1, Constants DEF CallTypes, MutexIsHeld, Callers
  <2>2. CASE Lock(c) /\ mutex # NoRequester
    <3>1. /\ mutex' = mutex /\ i2cPc' = [i2cPc EXCEPT ![c] = "idle"] /\ i2cPc[c] = "lock"
      BY <2>2 DEF Lock, I2cReturn
    <3> QED BY <1>1, <1>2, <3>1, Constants DEF CallTypes, MutexIsHeld, Callers
  <2>3. CASE ClearSignal(c)
    <3>1. /\ mutex' = mutex /\ i2cPc' = [i2cPc EXCEPT ![c] = "kick"] /\ i2cPc[c] = "clear"
      BY <2>3 DEF ClearSignal
    <3> QED BY <1>1, <1>2, <3>1, Constants DEF CallTypes, MutexIsHeld, Callers
  <2>4. CASE i2cKickOffTransfer(c)
    <3>1. /\ mutex' = mutex /\ i2cPc' = [i2cPc EXCEPT ![c] = "wait"] /\ i2cPc[c] = "kick"
      BY <2>4 DEF i2cKickOffTransfer
    <3> QED BY <1>1, <1>2, <3>1, Constants DEF CallTypes, MutexIsHeld, Callers
  <2>5. CASE Complete(c) \/ WaitTimeout(c)
    <3>1. /\ mutex' = NoRequester /\ i2cPc' = [i2cPc EXCEPT ![c] = "idle"] /\ i2cPc[c] = "wait"
      BY <2>5 DEF Complete, WaitTimeout, I2cReturn
    <3> QED BY <1>1, <1>2, <3>1, Constants DEF CallTypes, MutexIsHeld, Callers
  <2> QED BY <2>1, <2>2, <2>3, <2>4, <2>5 DEF transfer
<1>6. sta' \in BOOLEAN
  BY <1>2 DEF I2cTypeOK
<1> QED BY <1>2, <1>3, <1>4, <1>5, <1>6, CallTypesOnly, DatUnchanged

LEMMA I2cTypeStep == I2cTypeOK /\ DatIsByte /\ [I2cNext]_i2cVars => I2cTypeOK' /\ DatIsByte'
<1> SUFFICES ASSUME I2cTypeOK, DatIsByte, [I2cNext]_i2cVars PROVE I2cTypeOK' /\ DatIsByte'
  OBVIOUS
<1>1. CASE UNCHANGED i2cVars
  BY <1>1 DEF I2cTypeOK, DatIsByte, i2cVars, callVars, busVars
<1> QED BY <1>1, BusType, IsrType, StartSchedulerType, CallType, TransferType DEF I2cNext

-----------------------------------------------------------------------------
(* What the bus, the interrupt and the callers do to a transfer.           *)

LEMMA StoreInStep ==
  ASSUME I2cTypeOK, InStep, trx'.owner = trx.owner, NEW k \in Nat, k = Len(moved) + 1,
         moved' = Append(moved, <<<<Owner, k>>, <<Owner, k>>>>)
  PROVE  InStep' /\ Len(moved') = k
<1>1. Owner' = Owner /\ moved \in Seq(AnyByte \X Byte)
  BY DEF Owner, I2cTypeOK, AnyByte
<1> DEFINE e == <<<<Owner, k>>, <<Owner, k>>>>
<1>2. PICK x : x = e
  OBVIOUS
<1>3. /\ Len(Append(moved, x)) = k /\ DOMAIN Append(moved, x) = 1 .. k
      /\ Append(moved, x)[k] = x /\ \A i \in 1 .. (k - 1) : Append(moved, x)[i] = moved[i]
      /\ DOMAIN moved = 1 .. (k - 1)
  <2> HIDE DEF e
  <2> QED BY <1>1
<1>4. ASSUME NEW i \in 1 .. k PROVE moved'[i] = <<<<Owner, i>>, <<Owner, i>>>>
  <2>1. CASE i = k
    BY <1>2, <1>3, <2>1
  <2>2. CASE i # k
    <3>1. i \in 1 .. (k - 1)
      BY <2>2
    <3> QED BY <1>2, <1>3, <3>1 DEF InStep
  <2> QED BY <2>1, <2>2
<1> QED BY <1>1, <1>2, <1>3, <1>4 DEF InStep

LEMMA BusTransfer == ASSUME I2cTypeOK, TransferInv, Bus PROVE TransferInv'
<1>1. /\ UNCHANGED <<i2cPc, req, signal, trx, sta, aa>> /\ ~ si /\ si' = TRUE
      /\ stat # "idle" \/ sta
  BY DEF Bus, callVars, BusStart, Addressed, Sent, Restart, ReadAddressed, Received, Disturbed, Report
<1>2. Waits /\ Progress
  BY <1>1 DEF TransferInv
<1>3. /\ Starting \/ Addressing \/ Writing \/ Turning \/ Reading
      /\ ~ signal /\ ~ trx.error
  BY <1>1, <1>2 DEF Progress, Broken, Ended, Active, Acked, HasRead
<1>4. Owner' = Owner /\ Waits' /\ trx.ptr \in Nat /\ trx.size \in Nat
  BY <1>1, <1>2, Constants DEF Owner, Waits, I2cTypeOK
<1>5. SUFFICES InStep' /\ Len(moved') <= req[Owner].size /\ (Active' \/ Broken')
  <2>1. Progress'
    BY <1>1, <1>2, <1>3, <1>4, <1>5 DEF Progress
  <2> QED BY <1>1, <1>4, <2>1 DEF TransferInv
<1>6. UNCHANGED moved => InStep' /\ Len(moved') <= req[Owner].size
  BY <1>2, <1>4 DEF Progress, InStep
<1>7. stat' \in Stuck \cup {"other"} => Broken'
  BY <1>1, <1>3 DEF Broken
<1>8. CASE BusStart
  <2>1. stat' = "start" /\ UNCHANGED <<dat, dev, moved>> /\ Starting
    BY <1>3, <1>8 DEF BusStart, Report, Addressing, Writing, Turning, Reading
  <2>2. Starting'
    BY <1>1, <1>4, <2>1 DEF Starting, Fresh
  <2> QED BY <1>6, <2>1, <2>2 DEF Active
<1>9. CASE Addressed
  <2>1. /\ stat' \in {"slaveAddressAcked", "slaveAddressNacked"} /\ dev' = <<NoRequester, 0>>
        /\ UNCHANGED <<dat, moved>> /\ Starting
    BY <1>3, <1>9 DEF Addressed, Report, Addressing, Writing, Turning, Reading
  <2>2. stat' = "slaveAddressAcked" => Addressing'
    BY <1>1, <1>4, <2>1 DEF Starting, Addressing, Fresh
  <2> QED BY <1>6, <1>7, <2>1, <2>2 DEF Active, Stuck
<1>10. CASE Restart \/ ReadAddressed
  <2>1. /\ stat' \in {"repeatStart", "readAckedBySlave", "readModeNackedBySlave"}
        /\ UNCHANGED <<dat, dev, moved>> /\ Turning
    BY <1>1, <1>3, <1>10 DEF Restart, ReadAddressed, Report, Starting, Addressing, Writing, Turning, Reading
  <2>2. stat' # "readModeNackedBySlave" => Turning'
    BY <1>1, <1>4, <2>1 DEF Turning, Fresh
  <2> QED BY <1>6, <1>7, <2>1, <2>2 DEF Active, Stuck
<1>11. CASE Received
  <2>1. /\ stat' = (IF aa THEN "dataAvailableAckSent" ELSE "dataAvailableNackSent")
        /\ dat' = dev /\ dev' = <<dev[1], dev[2] + 1>> /\ UNCHANGED moved /\ Reading
    BY <1>1, <1>3, <1>11 DEF Received, Report, Starting, Addressing, Writing, Turning, Reading
  <2>2. HasRead'
    BY <1>1, <1>4, <2>1 DEF Reading, HasRead, Counts, I2cTypeOK
  <2> QED BY <1>6, <2>1, <2>2 DEF Active
<1>12. CASE Disturbed
  BY <1>6, <1>7, <1>12 DEF Disturbed, Report, Stuck
<1>13. CASE Sent
  <2>1. ~ sta /\ stat' \in {"dataAckedBySlave", "dataNackedBySlave"}
    BY <1>13 DEF Sent, Report
  <2>2. CASE stat' = "dataNackedBySlave"
    <3>1. UNCHANGED moved
      BY <1>13, <2>2 DEF Sent, Report
    <3> QED BY <1>6, <1>7, <2>2, <3>1 DEF Stuck
  <2>3. CASE stat' = "dataAckedBySlave" /\ Addressing
    <3>1. dev' = <<dat[1], dat[2] + 1>> /\ UNCHANGED moved
      BY <1>13, <2>3 DEF Sent, Report, Addressing
    <3>2. dev' = <<Owner, 1>> /\ Fresh /\ trx.size # 0
      BY <1>1, <2>3, <3>1 DEF Addressing
    <3>3. Acked'
      <4>1. Fresh' /\ Counts'
        BY <1>1, <1>4, <3>1, <3>2 DEF Fresh, Counts
      <4>2. Len(moved) = 0 /\ trx.ptr = 1
        BY <3>2 DEF Fresh
      <4> QED BY <1>1, <1>4, <2>1, <2>3, <3>1, <3>2, <4>1, <4>2 DEF Acked
    <3> QED BY <1>6, <3>1, <3>3 DEF Active
  <2>4. CASE stat' = "dataAckedBySlave" /\ Writing
    <3>1. dev[1] # NoRequester /\ dev = <<Owner, trx.ptr - 1>> /\ dat = <<Owner, trx.ptr - 1>> /\ trx.ptr >= 2
      BY <2>4, Constants DEF Writing, Owner, I2cTypeOK
    <3>2. dev' = <<dev[1], dev[2] + 1>> /\ moved' = Append(moved, <<dev, dat>>)
      BY <1>13, <2>4, <3>1 DEF Sent, Report
    <3> DEFINE k == trx.ptr - 1
    <3>3. k \in Nat /\ k = Len(moved) + 1 /\ k <= req[Owner].size
      <4>1. req[Owner].size \in Nat
        BY Constants DEF I2cTypeOK, Owner
      <4>2. trx.ptr \in Nat /\ trx.size \in Nat /\ Len(moved) \in Nat
        BY Constants, LenProperties DEF I2cTypeOK, Owner
      <4>3. Len(moved) = trx.ptr - 2 /\ trx.size + trx.ptr = req[Owner].size + 1
        BY <2>4 DEF Writing, Counts
      <4>4. PICK p, z, l, n : p = trx.ptr /\ z = trx.size /\ l = Len(moved) /\ n = req[Owner].size
        OBVIOUS
      <4>5. p \in Nat /\ z \in Nat /\ n \in Nat /\ l = p - 2 /\ z + p = n + 1 /\ p >= 2
        BY <3>1, <4>1, <4>2, <4>3, <4>4
      <4>6. p - 1 \in Nat /\ p - 1 = l + 1 /\ p - 1 <= n
        BY <4>5, SMT
      <4> QED BY <4>4, <4>6
    <3>4. moved' = Append(moved, <<<<Owner, k>>, <<Owner, k>>>>) /\ InStep /\ trx'.owner = trx.owner
      BY <1>1, <1>2, <3>1, <3>2 DEF Progress
    <3>5. InStep' /\ Len(moved') = k
      <4> HIDE DEF k
      <4> QED BY <3>3, <3>4, StoreInStep
    <3>6. dev' = <<Owner, trx.ptr>>
      BY <1>4, <3>1, <3>2
    <3>7. Acked'
      BY <1>1, <1>4, <2>1, <2>4, <3>5, <3>6 DEF Acked, Writing, Counts
    <3> QED BY <3>3, <3>5, <3>7 DEF Active
  <2> QED BY <1>1, <1>3, <1>13, <2>1, <2>2, <2>3, <2>4 DEF Sent, Starting, Turning, Reading
<1> QED BY <1>8, <1>9, <1>10, <1>11, <1>12, <1>13 DEF Bus

LEMMA IsrTransfer == ASSUME I2cTypeOK, TransferInv, handleInterrupt PROVE TransferInv'
<1>1. si /\ UNCHANGED callVars
  BY DEF handleInterrupt, IsrStart, IsrSlaveAddressAcked, IsrDataAcked, IsrReadAcked, IsrDataAckSent,
         IsrDataNackSent, IsrArbitrationLost, IsrNacked, IsrOther, Continue, SetStop, i2cVars
<1>2. Waits /\ Progress
  BY <1>1 DEF TransferInv
<1>3. /\ (Active /\ ~ signal /\ ~ trx.error) \/ Broken
      /\ stat \notin Stuck \cup {"other"} => Active /\ ~ signal /\ ~ trx.error
  BY <1>1, <1>2 DEF Progress, Broken, Ended
<1>4. /\ trx' = trx \/ trx' = [trx EXCEPT !.ptr = @ + 1, !.size = NextSize] \/ trx' = [trx EXCEPT !.error = TRUE]
      /\ trx'.owner = trx.owner /\ trx'.read = trx.read
  <2>1. \/ trx' = trx
        \/ trx' = [trx EXCEPT !.ptr = @ + 1, !.size = NextSize]
        \/ trx' = [trx EXCEPT !.error = TRUE]
    BY DEF handleInterrupt, IsrStart, IsrSlaveAddressAcked, IsrDataAcked, IsrReadAcked, IsrDataAckSent,
         IsrDataNackSent, IsrArbitrationLost, IsrNacked, IsrOther, i2cVars
  <2> QED BY <2>1 DEF I2cTypeOK
<1>5. /\ Owner' = Owner /\ Waits' /\ req' = req /\ i2cPc' = i2cPc
      /\ trx.ptr \in Nat /\ trx.size \in Nat /\ req[Owner].size \in Nat
  BY <1>1, <1>2, <1>4, Constants DEF Owner, Waits, I2cTypeOK, callVars
<1>6. SUFFICES /\ InStep' /\ Len(moved') <= req[Owner].size
               /\ (Active' /\ ~ signal' /\ ~ trx'.error) \/ Broken' \/ Ended'
  <2>1. Progress'
    BY <1>2, <1>4, <1>5, <1>6 DEF Progress
  <2> QED BY <1>5, <2>1 DEF TransferInv
<1>7. UNCHANGED moved => InStep' /\ Len(moved') <= req[Owner].size
  BY <1>2, <1>5 DEF Progress, InStep
<1>8. CASE IsrStart
  <2>1. /\ UNCHANGED <<trx, dat, dev, moved, sta, stat, signal>> /\ si' = FALSE
        /\ stat \in {"start", "repeatStart"}
    BY <1>8 DEF IsrStart, Continue
  <2>2. (Starting \/ Turning) /\ ~ signal /\ ~ trx.error
    BY <1>1, <1>3, <2>1 DEF Stuck, Active, Addressing, Acked, Writing, Reading, HasRead
  <2>3. Starting' \/ Turning'
    BY <1>5, <2>1, <2>2 DEF Starting, Turning, Fresh
  <2> QED BY <1>7, <2>1, <2>2, <2>3 DEF Active
<1>9. CASE IsrSlaveAddressAcked
  <2>1. Addressing /\ ~ signal /\ ~ trx.error /\ UNCHANGED <<trx, moved, dev>>
    BY <1>1, <1>3, <1>9 DEF IsrSlaveAddressAcked, Stuck, Active, Starting, Acked, Writing, Turning, Reading, HasRead, Continue, SetStop
  <2>2. CASE trx.size = 0
    <3>1. stat' = "idle" /\ sta' = FALSE /\ si' = FALSE /\ signal' = TRUE
      BY <1>9, <2>2 DEF IsrSlaveAddressAcked, SetStop
    <3>2. Len(moved) = req[Owner].size
      BY <2>1, <2>2 DEF Addressing, Fresh
    <3>3. Ended'
      BY <1>5, <2>1, <3>1, <3>2 DEF Ended
    <3> QED BY <1>7, <2>1, <3>3
  <2>3. CASE trx.size # 0
    <3>1. stat' = stat /\ sta' = FALSE /\ si' = FALSE /\ signal' = signal /\ dat' = <<Owner, 0>>
      BY <1>9, <2>3 DEF IsrSlaveAddressAcked, Continue, Owner
    <3>2. Addressing'
      BY <1>5, <2>1, <2>3, <3>1 DEF Addressing, Fresh
    <3> QED BY <1>7, <2>1, <3>1, <3>2 DEF Active
  <2> QED BY <2>2, <2>3
<1>10. CASE IsrDataAcked
  <2>1. Acked /\ ~ signal /\ ~ trx.error /\ UNCHANGED <<moved, dev>>
    BY <1>1, <1>3, <1>10 DEF IsrDataAcked, Stuck, Active, Starting, Addressing, Writing, Turning, Reading, HasRead, Continue, SetStop
  <2>2. CASE trx.read
    <3>1. stat' = stat /\ stat = "dataAckedBySlave" /\ sta' = TRUE /\ si' = FALSE /\ signal' = signal /\ UNCHANGED <<trx, dat>>
      BY <1>10, <2>2 DEF IsrDataAcked, Continue
    <3>2. Turning'
      BY <1>5, <2>1, <2>2, <3>1 DEF Acked, Turning, Fresh
    <3> QED BY <1>7, <2>1, <3>1, <3>2 DEF Active
  <2>3. CASE ~ trx.read /\ trx.size = 0
    <3>1. stat' = "idle" /\ sta' = FALSE /\ si' = FALSE /\ signal' = TRUE /\ UNCHANGED trx
      BY <1>10, <2>3 DEF IsrDataAcked, SetStop
    <3>2. Len(moved) = req[Owner].size
      BY <1>5, <2>1, <2>3 DEF Acked, Counts
    <3>3. Ended'
      BY <1>5, <2>1, <3>1, <3>2 DEF Ended
    <3> QED BY <1>7, <2>1, <3>3
  <2>4. CASE ~ trx.read /\ trx.size # 0
    <3>1. /\ stat' = stat /\ stat = "dataAckedBySlave" /\ sta' = sta /\ si' = FALSE /\ signal' = signal
          /\ dat' = <<Owner, trx.ptr>> /\ trx' = [trx EXCEPT !.ptr = @ + 1, !.size = NextSize]
      BY <1>10, <2>4 DEF IsrDataAcked, Continue, Owner
    <3>2. trx'.ptr = trx.ptr + 1 /\ trx'.size = trx.size - 1 /\ trx'.error = trx.error
      BY <1>5, <2>4, <3>1, NextSizeFacts DEF I2cTypeOK
    <3>3. dev = <<Owner, trx.ptr>> /\ Len(moved) = trx.ptr - 1 /\ Counts /\ ~ sta
      BY <2>1 DEF Acked
    <3>4. Counts' /\ trx'.ptr >= 2 /\ trx'.ptr - 1 = trx.ptr /\ trx'.ptr - 2 = trx.ptr - 1
      <4>1. trx'.size + trx'.ptr = trx.size + trx.ptr /\ trx'.ptr >= 1
        BY <1>5, <3>2
      <4>2. Counts'
        BY <1>5, <3>3, <4>1 DEF Counts
      <4>3. trx.ptr >= 1 /\ trx'.ptr = trx.ptr + 1
        BY <3>2, <3>3 DEF Counts
      <4> QED BY <1>5, <4>2, <4>3
    <3>5. Writing'
      BY <1>4, <1>5, <2>1, <2>4, <3>1, <3>3, <3>4 DEF Writing
    <3> QED BY <1>7, <2>1, <3>1, <3>2, <3>5 DEF Active
  <2> QED BY <2>2, <2>3, <2>4
<1>11. CASE IsrReadAcked
  <2>1. /\ UNCHANGED <<trx, dat, dev, moved, stat, signal>> /\ si' = FALSE /\ sta' = FALSE
        /\ stat = "readAckedBySlave" /\ aa' = (trx.size > 1)
    BY <1>11 DEF IsrReadAcked, Continue
  <2>2. Turning /\ ~ signal /\ ~ trx.error
    BY <1>1, <1>3, <2>1 DEF Stuck, Active, Starting, Addressing, Acked, Writing, Reading, HasRead
  <2>3. Reading'
    <3>1. Counts' /\ trx.size >= 1 /\ Len(moved) = trx.ptr - 1 /\ trx.ptr = 1
      BY <1>5, <2>1, <2>2 DEF Turning, Fresh, Counts
    <3> QED BY <1>5, <2>1, <2>2, <3>1 DEF Turning, Reading
  <2> QED BY <1>7, <2>1, <2>2, <2>3 DEF Active
<1>12. CASE IsrDataAckSent \/ IsrDataNackSent
  <2>1. HasRead /\ ~ signal /\ ~ trx.error /\ UNCHANGED dev
    BY <1>1, <1>3, <1>12 DEF IsrDataAckSent, IsrDataNackSent, Stuck, Active, Starting, Addressing, Acked, Writing,
       Turning, Reading, Continue, SetStop
  <2> DEFINE k == trx.ptr
  <2>2. k \in Nat /\ k = Len(moved) + 1 /\ k <= req[Owner].size
    BY <1>5, <2>1 DEF HasRead, Counts
  <2>3. moved' = Append(moved, <<<<Owner, k>>, <<Owner, k>>>>)
    BY <1>12, <2>1 DEF IsrDataAckSent, IsrDataNackSent, Store, HasRead, Owner
  <2>4. InStep' /\ Len(moved') = k
    <3>1. InStep
      BY <1>2 DEF Progress
    <3> HIDE DEF k
    <3> QED BY <1>4, <2>2, <2>3, <3>1, StoreInStep
  <2>5. CASE IsrDataAckSent
    <3>1. /\ stat' = stat /\ stat = "dataAvailableAckSent" /\ si' = FALSE /\ signal' = signal
          /\ aa' = (NextSize # 1) /\ trx' = [trx EXCEPT !.ptr = @ + 1, !.size = NextSize]
      BY <2>5 DEF IsrDataAckSent, Continue
    <3>2. trx.size > 1 /\ Counts /\ dev = <<Owner, trx.ptr + 1>>
      BY <2>1, <3>1 DEF HasRead
    <3>3. trx'.ptr = trx.ptr + 1 /\ trx'.size = trx.size - 1 /\ trx'.error = trx.error /\ NextSize = trx.size - 1
      BY <1>5, <3>1, <3>2, NextSizeFacts DEF I2cTypeOK
    <3>4. Counts' /\ trx'.size >= 1 /\ (aa' <=> trx'.size > 1) /\ trx'.ptr - 1 = k
      <4>1. trx'.size + trx'.ptr = trx.size + trx.ptr /\ trx'.ptr >= 1 /\ trx'.ptr - 1 = k
        BY <1>5, <3>3
      <4>2. Counts'
        BY <1>5, <3>2, <4>1 DEF Counts
      <4>3. trx'.size >= 1 /\ (trx.size - 1 # 1 <=> trx'.size > 1)
        BY <1>5, <3>2, <3>3
      <4> QED BY <3>1, <3>3, <4>1, <4>2, <4>3
    <3>5. Reading'
      BY <1>5, <2>1, <2>4, <3>1, <3>2, <3>3, <3>4 DEF Reading
    <3> QED BY <2>1, <2>2, <2>4, <3>1, <3>3, <3>5 DEF Active
  <2>6. CASE IsrDataNackSent
    <3>1. stat' = "idle" /\ sta' = FALSE /\ si' = FALSE /\ signal' = TRUE /\ UNCHANGED trx /\ stat = "dataAvailableNackSent"
      BY <2>6 DEF IsrDataNackSent, SetStop
    <3>2. k = req[Owner].size
      BY <1>5, <2>1, <3>1 DEF HasRead, Counts
    <3>3. Ended'
      BY <1>5, <2>4, <3>1, <3>2 DEF Ended
    <3> QED BY <2>2, <2>4, <3>3
  <2> QED BY <1>12, <2>5, <2>6
<1>13. CASE IsrArbitrationLost
  <2>1. UNCHANGED <<si, stat, moved>> /\ stat = "arbitrationLost"
    BY <1>13 DEF IsrArbitrationLost, busVars
  <2>2. Broken'
    BY <1>1, <2>1 DEF Broken, Stuck
  <2> QED BY <1>7, <2>1, <2>2
<1>14. CASE IsrNacked
  <2>1. UNCHANGED <<si, stat, moved>> /\ stat \in Stuck
    BY <1>14 DEF IsrNacked, i2cVars, busVars
  <2>2. Broken'
    BY <1>1, <2>1 DEF Broken
  <2> QED BY <1>7, <2>1, <2>2
<1>15. CASE IsrOther
  <2>1. /\ stat' = "idle" /\ sta' = FALSE /\ si' = FALSE /\ signal' = TRUE /\ UNCHANGED moved
        /\ trx' = [trx EXCEPT !.error = TRUE]
    BY <1>15 DEF IsrOther, SetStop
  <2>2. trx'.error
    BY <2>1 DEF I2cTypeOK
  <2>3. Ended'
    BY <2>1, <2>2 DEF Ended
  <2> QED BY <1>7, <2>1, <2>3
<1> QED BY <1>8, <1>9, <1>10, <1>11, <1>12, <1>13, <1>14, <1>15 DEF handleInterrupt

(* No transfer begins while the bus works for another.                     *)
LEMMA OneInside ==
  ASSUME I2cTypeOK, NEW c \in Callers, NEW d \in Callers,
         i2cPc[c] \in {"clear", "kick", "wait"}, i2cPc[d] \in {"clear", "kick", "wait"}
  PROVE  c = d
<1>1. \A t \in I2cTasks : i2cPc[t] \in {"clear", "kick", "wait"} => mutex = t /\ osRunning
  BY DEF I2cTypeOK
<1>2. i2cPc[Boot] \in {"clear", "kick", "wait"} => ~ osRunning
  BY DEF I2cTypeOK
<1> QED BY <1>1, <1>2 DEF Callers

LEMMA CallerTransfer ==
  ASSUME I2cTypeOK, I2cTypeOK', TransferInv, ~ late', NEW c \in Callers,
         transfer(c) \/ \E read \in BOOLEAN, size \in Sizes : Call(c, read, size)
  PROVE  TransferInv'
<1>1. BusSame /\ ~ si /\ i2cPc \in [Callers -> {"idle", "lock", "clear", "kick", "wait"}] /\ Owner \in Callers
      /\ req \in [Callers -> [read : BOOLEAN, size : Sizes \cup {0}]]
  BY DEF transfer, Lock, ClearSignal, i2cKickOffTransfer, Complete, WaitTimeout, Call, busVars, BusSame, I2cTypeOK, Owner
<1>2. CASE \/ \E read \in BOOLEAN, size \in Sizes : Call(c, read, size)
           \/ Lock(c) \/ ClearSignal(c)
  <2>1. /\ UNCHANGED <<sta, trx, moved>> /\ i2cPc[c] # "wait" /\ i2cPc'[c] # "wait"
        /\ (signal' => signal)
        /\ \A d \in Callers \ {c} : i2cPc'[d] = i2cPc[d] /\ req'[d] = req[d]
    BY <1>1, <1>2 DEF Call, Lock, ClearSignal, I2cReturn, busVars
  <2>2. Owner' = Owner /\ (Waits' <=> Waits) /\ (Waits => req'[Owner] = req[Owner] /\ Owner # c)
    BY <1>1, <2>1 DEF Owner, Waits
  <2>3. Waits => UNCHANGED signal
    <3>1. ClearSignal(c) => ~ Waits
      <4>1. ClearSignal(c) => i2cPc[c] = "clear"
        BY DEF ClearSignal
      <4> QED BY <1>1, <4>1, OneInside DEF Waits
    <3> QED BY <1>2, <3>1 DEF Call, Lock
  <2>4. Waits => Progress'
    <3>1. SUFFICES ASSUME Waits PROVE Progress'
      OBVIOUS
    <3>2. UNCHANGED <<stat, si, aa, dat, dev, sta, trx, moved, signal>> /\ Owner' = Owner /\ req'[Owner] = req[Owner]
      BY <1>1, <2>1, <2>2, <2>3, <3>1 DEF BusSame
    <3>3. Counts' = Counts /\ Fresh' = Fresh /\ InStep' = InStep
      BY <3>2 DEF Counts, Fresh, InStep
    <3>4. Active' <=> Active
      BY <3>2, <3>3 DEF Active, Starting, Addressing, Acked, Writing, Turning, Reading, HasRead
    <3>5. (Broken' <=> Broken) /\ (Ended' <=> Ended)
      BY <3>2 DEF Broken, Ended
    <3> QED BY <3>1, <3>2, <3>3, <3>4, <3>5 DEF Progress, TransferInv
  <2>5. \A d \in Callers : i2cPc'[d] = "wait" => d = Owner
    BY <2>1 DEF TransferInv
  <2>6. signal' \/ stat' # "idle" \/ sta' \/ si' => Waits
    BY <1>1, <2>1 DEF TransferInv, BusSame
  <2> QED BY <2>2, <2>4, <2>5, <2>6 DEF TransferInv
<1>3. CASE i2cKickOffTransfer(c)
  <2>1. /\ i2cPc[c] = "kick" /\ i2cPc' = [i2cPc EXCEPT ![c] = "wait"] /\ UNCHANGED <<signal, req>>
        /\ trx' = [owner |-> c, read |-> req[c].read, size |-> req[c].size, ptr |-> 1, error |-> FALSE]
        /\ sta' = TRUE /\ moved' = <<>>
    BY <1>3 DEF i2cKickOffTransfer
  <2>2. ~ Waits
    BY <1>1, <2>1, OneInside DEF Waits
  <2>3. ~ signal /\ stat = "idle" /\ ~ sta
    BY <2>2 DEF TransferInv
  <2>4. Owner' = c /\ Waits'
    BY <1>1, <2>1 DEF Owner, Waits
  <2>5. \A d \in Callers : i2cPc'[d] = "wait" => d = c
    <3>1. \A d \in Callers : i2cPc[d] = "wait" => d = c
      BY <2>1, OneInside
    <3> QED BY <1>1, <2>1, <3>1
  <2>6. Progress'
    <3>1. trx'.read = req'[c].read /\ trx'.size = req'[c].size /\ trx'.ptr = 1 /\ ~ trx'.error
      BY <2>1
    <3>2. Fresh' /\ Starting'
      BY <1>1, <2>1, <2>3, <2>4, <3>1 DEF Fresh, Starting, BusSame
    <3>3. InStep' /\ Len(moved') = 0 /\ 0 <= req'[c].size
      BY <1>1, <2>1, Constants DEF InStep
    <3> QED BY <2>1, <2>3, <2>4, <3>1, <3>2, <3>3 DEF Progress, Active
  <2> QED BY <2>4, <2>5, <2>6 DEF TransferInv
<1>4. CASE Complete(c)
  <2>1. /\ i2cPc[c] = "wait" /\ signal /\ signal' = FALSE /\ i2cPc' = [i2cPc EXCEPT ![c] = "idle"]
        /\ UNCHANGED <<trx, sta, moved>>
    BY <1>4 DEF Complete, I2cReturn, busVars
  <2>2. c = Owner /\ Progress
    BY <2>1 DEF TransferInv, Waits
  <2>3. Ended
    BY <1>1, <2>1, <2>2 DEF Progress, Broken
  <2>4. Owner' = Owner /\ ~ Waits' /\ \A d \in Callers : i2cPc'[d] # "wait"
    BY <1>1, <2>1, <2>2 DEF Owner, Waits, TransferInv
  <2> QED BY <1>1, <2>1, <2>3, <2>4 DEF TransferInv, Ended, BusSame
<1>5. CASE WaitTimeout(c)
  BY <1>5 DEF WaitTimeout
<1> QED BY <1>2, <1>3, <1>4, <1>5 DEF transfer

LEMMA I2cStep == I2cInv /\ [I2cNext]_i2cVars => I2cInv'
<1> SUFFICES ASSUME I2cInv, [I2cNext]_i2cVars PROVE I2cInv'
  OBVIOUS
<1>1. I2cTypeOK /\ DatIsByte /\ I2cTypeOK' /\ DatIsByte'
  BY I2cTypeStep DEF I2cInv
<1>2. SUFFICES ASSUME ~ late' PROVE TransferInv'
  BY <1>1 DEF I2cInv
<1>3. CASE UNCHANGED i2cVars
  <2>1. TransferInv
    BY <1>2, <1>3 DEF I2cInv, i2cVars, callVars
  <2> USE DEF i2cVars, callVars, busVars
  <2>2. Owner' = Owner /\ (Waits' <=> Waits) /\ InStep' = InStep /\ Counts' = Counts /\ Fresh' = Fresh
    BY <1>3 DEF Owner, Waits, InStep, Counts, Fresh
  <2>3. (Active' <=> Active) /\ (Broken' <=> Broken) /\ (Ended' <=> Ended)
    BY <1>3, <2>2 DEF Active, Starting, Addressing, Acked, Writing, Turning, Reading, HasRead, Broken, Ended
  <2>4. Progress' <=> Progress
    BY <1>3, <2>2, <2>3 DEF Progress
  <2> QED BY <1>3, <2>1, <2>2, <2>4 DEF TransferInv
<1>4. CASE Bus
  <2>1. TransferInv
    BY <1>2, <1>4 DEF I2cInv, Bus, callVars
  <2> QED BY <1>1, <1>4, <2>1, BusTransfer
<1>5. CASE handleInterrupt
  <2>1. UNCHANGED late
    BY <1>5 DEF handleInterrupt, IsrStart, IsrSlaveAddressAcked, IsrDataAcked, IsrReadAcked, IsrDataAckSent,
         IsrDataNackSent, IsrArbitrationLost, IsrNacked, IsrOther, Continue, SetStop, i2cVars, callVars
  <2>2. TransferInv
    BY <1>2, <2>1 DEF I2cInv
  <2> QED BY <1>1, <1>5, <2>2, IsrTransfer
<1>6. CASE StartScheduler
  <2>1. TransferInv
    BY <1>2, <1>6 DEF I2cInv, StartScheduler
  <2>2. UNCHANGED <<i2cPc, req, signal, trx, stat, si, sta, aa, dat, dev, moved>>
    BY <1>6 DEF StartScheduler, busVars
  <2>3. Owner' = Owner /\ (Waits' <=> Waits) /\ InStep' = InStep /\ Counts' = Counts /\ Fresh' = Fresh
    BY <2>2 DEF Owner, Waits, InStep, Counts, Fresh
  <2>4. (Active' <=> Active) /\ (Broken' <=> Broken) /\ (Ended' <=> Ended)
    BY <2>2, <2>3 DEF Active, Starting, Addressing, Acked, Writing, Turning, Reading, HasRead, Broken, Ended
  <2>5. Progress' <=> Progress
    BY <2>2, <2>3, <2>4 DEF Progress
  <2> QED BY <2>1, <2>2, <2>3, <2>5 DEF TransferInv
<1>7. ASSUME NEW c \in Callers,
             transfer(c) \/ \E read \in BOOLEAN, size \in Sizes : Call(c, read, size)
      PROVE  TransferInv'
  <2>1. ~ late
    BY <1>2, <1>7 DEF transfer, Lock, ClearSignal, i2cKickOffTransfer, Complete, WaitTimeout, Call
  <2>2. TransferInv
    BY <2>1 DEF I2cInv
  <2> QED BY <1>1, <1>2, <1>7, <2>2, CallerTransfer
<1> QED BY <1>3, <1>4, <1>5, <1>6, <1>7 DEF I2cNext

(* The bus serves the transfer of the caller that waits, byte by byte.     *)
THEOREM I2cInvariance == I2cSpec => []I2cInv
<1> QED BY I2cInitInv, I2cStep, PTL DEF I2cSpec

(* Until a transfer times out, what happens on the bus stays within it.    *)
THEOREM BusStaysInTransfer == I2cSpec => []StaysInTransfer
<1>1. I2cInv => StaysInTransfer
  <2> SUFFICES ASSUME I2cInv, ~ late PROVE StaysInTransfer
    BY DEF StaysInTransfer
  <2>1. TransferInv /\ I2cTypeOK
    BY DEF I2cInv
  <2>2. stat # "idle" \/ sta => i2cPc[trx.owner] = "wait"
    BY <2>1 DEF TransferInv, Waits, Owner
  <2>3. signal => (stat = "idle" /\ ~ sta) \/ Storm
    BY <2>1 DEF TransferInv, Progress, Broken, Ended, Storm
  <2>4. ASSUME i2cPc[trx.owner] = "wait", NEW i \in DOMAIN moved
        PROVE  moved[i][2][2] \in 1 .. req[trx.owner].size
    <3>1. Progress
      BY <2>1, <2>4 DEF TransferInv, Waits, Owner
    <3>2. moved[i][2][2] = i
      BY <3>1 DEF Progress, InStep
    <3>3. i \in 1 .. Len(moved) /\ Len(moved) \in Nat /\ Len(moved) <= req[trx.owner].size
      BY <2>1, <3>1 DEF I2cTypeOK, Progress, Owner
    <3>4. req[trx.owner].size \in Nat
      BY <2>1, Constants DEF I2cTypeOK
    <3> QED BY <3>2, <3>3, <3>4
  <2> QED BY <2>2, <2>3, <2>4 DEF StaysInTransfer
<1> QED BY <1>1, I2cInvariance, PTL

(* transfer() returns true only if all bytes were moved, until one times   *)
(* out.                                                                    *)
THEOREM TrueMeansAllMoved == I2cSpec => TrueMeansMoved
<1> DEFINE Moved ==
      \A c \in Callers :
        i2cPc[c] = "wait" /\ i2cPc'[c] = "idle" /\ result'[c] /\ ~ late' => moved = Whole(c)
<1>1. I2cInv /\ [I2cNext]_i2cVars => [Moved]_i2cVars
  <2> SUFFICES ASSUME I2cInv, I2cNext, NEW c \in Callers,
                      i2cPc[c] = "wait", i2cPc'[c] = "idle", result'[c], ~ late'
               PROVE  moved = Whole(c)
    OBVIOUS
  <2>1. I2cTypeOK
    BY DEF I2cInv
  <2>2. Complete(c)
    <3>1. i2cPc \in [Callers -> {"idle", "lock", "clear", "kick", "wait"}]
      BY <2>1 DEF I2cTypeOK
    <3>2. i2cPc' # i2cPc
      OBVIOUS
    <3>3. ~ Bus /\ ~ handleInterrupt /\ ~ StartScheduler
      BY <3>2 DEF Bus, handleInterrupt, IsrStart, IsrSlaveAddressAcked, IsrDataAcked, IsrReadAcked, IsrDataAckSent,
         IsrDataNackSent, IsrArbitrationLost, IsrNacked, IsrOther, Continue, SetStop, StartScheduler, i2cVars, callVars
    <3>4. \A d \in Callers, read \in BOOLEAN, size \in Sizes : ~ Call(d, read, size)
      BY <3>1 DEF Call
    <3>5. \A d \in Callers : ~ Lock(d) /\ ~ ClearSignal(d) /\ ~ i2cKickOffTransfer(d)
      BY <3>1 DEF Lock, ClearSignal, i2cKickOffTransfer, I2cReturn
    <3>6. \A d \in Callers : ~ WaitTimeout(d)
      BY DEF WaitTimeout
    <3>7. \A d \in Callers : Complete(d) => d = c
      BY <3>1 DEF Complete, I2cReturn
    <3> QED BY <3>3, <3>4, <3>5, <3>6, <3>7 DEF I2cNext, transfer
  <2>3. /\ signal /\ ~ si /\ UNCHANGED late /\ ~ trx.error
    BY <2>1, <2>2 DEF Complete, I2cReturn, I2cTypeOK
  <2>4. TransferInv
    BY <2>3 DEF I2cInv
  <2>5. c = Owner /\ Progress
    BY <2>4 DEF TransferInv, Waits
  <2>6. Len(moved) = req[c].size /\ InStep
    BY <2>3, <2>5 DEF Progress, Broken, Ended
  <2>7. /\ DOMAIN moved = 1 .. req[c].size /\ moved = [i \in DOMAIN moved |-> moved[i]]
    BY <2>1, <2>6 DEF I2cTypeOK
  <2> QED BY <2>5, <2>6, <2>7 DEF Whole, InStep
<1> HIDE DEF Moved
<1>2. TrueMeansMoved <=> [][Moved]_i2cVars
  BY DEF TrueMeansMoved, Moved
<1> QED BY <1>1, <1>2, I2cInvariance, PTL DEF I2cSpec

-----------------------------------------------------------------------------
(* Both busses together, as module MCDrivers composes them: every variable *)
(* keeps its type.                                                         *)
THEOREM DriversTyped == Spec => []DriversTypeOK
<1>1. Init => CanIInv /\ I2cInv
  BY InitInv, I2cInitInv DEF Init
<1>2. CanIInv /\ I2cInv /\ [Next]_vars => CanIInv' /\ I2cInv'
  <2>1. [Next]_vars => [CanNext]_canVars /\ [I2cNext]_i2cVars
    BY DEF Next, vars
  <2> QED BY <2>1, Inductive, I2cStep
<1>3. CanIInv /\ I2cInv => DriversTypeOK
  BY DEF CanIInv, I2cInv, DriversTypeOK
<1> QED BY <1>1, <1>2, <1>3, PTL DEF Spec
=============================================================================
