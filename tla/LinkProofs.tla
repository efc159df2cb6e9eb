----------------------------- MODULE LinkProofs -----------------------------
(***************************************************************************)
(* Proofs about one link, for every queue limit, transmission time and     *)
(* latency distribution: the queue counters cover the scheduled delivery   *)
(* events, the events are ordered, and a link is a bounded lossy FIFO.     *)
(***************************************************************************)
EXTENDS LinkProps, SequenceTheorems, TLAPS

\* Removing the first element of a sequence leaves its tail.
LEMMA RemoveFirstIsTail ==
  ASSUME NEW S, NEW s \in Seq(S), s # <<>>
  PROVE  RemoveAt(s, 1) = Tail(s)
<1>1. SubSeq(s, 1, 0) = <<>>
  BY SubSeqEmpty
<1>2. SubSeq(s, 2, Len(s)) = Tail(s)
  BY TailIsSubSeq
<1>3. Tail(s) \in Seq(S)
  BY HeadTailProperties
<1> QED
  BY <1>1, <1>2, <1>3, ConcatEmptySeq DEF RemoveAt

\* The inductive invariant: the counters, and the order of the events.
IInv == TypeOK /\ QueueCoversFlight /\ AQueueExact /\ DueOrdered

\* A delivery takes the oldest packet of its direction.
LEMMA DeliverTakesHead ==
  ASSUME IInv, NEW d \in Dirs, NEW i \in DOMAIN flight[d], Deliver(d, i)
  PROVE  /\ flight[d] \in Seq(Event)
         /\ flight[d] # <<>>
         /\ flight' = [flight EXCEPT ![d] = Tail(flight[d])]
<1>1. flight[d] \in Seq(Event) /\ flight \in [Dirs -> Seq(Event)]
  BY DEF IInv, TypeOK
<1>2. DOMAIN flight[d] = 1..Len(flight[d]) /\ Len(flight[d]) \in Nat
  BY <1>1, LenProperties
<1>3. flight[d] # <<>>
  BY <1>2, EmptySeq
<1>4. i = 1
  <2>1. SUFFICES ASSUME i # 1 PROVE FALSE
    OBVIOUS
  <2>2. 1 \in DOMAIN flight[d] /\ 1 < i
    BY <1>2, <2>1
  <2>3. flight[d][1].due < flight[d][i].due
    BY <2>2 DEF IInv, DueOrdered, Ordered
  <2>4. flight[d][1] \in Event
    BY <1>1, <1>2, <2>2, ElementOfSeq
  <2>5. flight[d][1].due \in Nat /\ flight[d][i].due = 0
    BY <2>4 DEF Event, Deliver
  <2> QED
    BY <2>3, <2>5
<1>5. RemoveAt(flight[d], i) = Tail(flight[d])
  BY <1>1, <1>3, <1>4, RemoveFirstIsTail
<1> QED
  BY <1>1, <1>3, <1>5 DEF Deliver

LEMMA InitIInv == Init => IInv
<1>1. SUFFICES ASSUME Init PROVE IInv
  OBVIOUS
<1>2. <<>> \in Seq(Event) /\ Len(<<>>) = 0
  BY EmptySeq
<1>3. TypeOK
  BY <1>1, <1>2, LinkAssumption DEF Init, TypeOK
<1>4. QueueCoversFlight /\ AQueueExact /\ DueOrdered
  BY <1>1, <1>2 DEF Init, QueueCoversFlight, AQueueExact, DueOrdered, Ordered, Dirs
<1> QED
  BY <1>3, <1>4 DEF IInv

LEMMA SendKeepsIInv ==
  ASSUME IInv, NEW d \in Dirs, NEW p \in Packets, NEW tx \in TxTimes,
         NEW lat \in Latencies, Send(d, p, tx, lat)
  PROVE  IInv'
<1> DEFINE end == NotBefore(EndTime(d, tx, lat))
           ev == [pkt |-> p, due |-> end]
<1>0. /\ tx \in Nat /\ tx > 0 /\ lat \in Int /\ QueueLimit \in Nat /\ MaxVersion \in Nat
      /\ nextFree[d] \in Nat /\ queue[d] \in 0..QueueLimit + 1
      /\ flight[d] \in Seq(Event)
  BY LinkAssumption DEF IInv, TypeOK
<1>1. end \in Nat
  BY <1>0 DEF NotBefore, EndTime
<1>2. ev \in Event
  BY <1>0, <1>1 DEF Event
<1>3. flight' = [flight EXCEPT ![d] = Append(flight[d], ev)]
  BY DEF Send
<1>4. /\ Append(flight[d], ev) \in Seq(Event)
      /\ Len(Append(flight[d], ev)) = Len(flight[d]) + 1
      /\ \A i \in 1..Len(flight[d]) : Append(flight[d], ev)[i] = flight[d][i]
      /\ Append(flight[d], ev)[Len(flight[d]) + 1] = ev
  BY <1>0, <1>2, AppendProperties
<1>5. TypeOK'
  <2>1. queue' \in [Dirs -> 0..QueueLimit + 1]
    BY <1>0 DEF Send, IInv, TypeOK
  <2>2. flight' \in [Dirs -> Seq(Event)]
    BY <1>3, <1>4 DEF IInv, TypeOK
  <2>3. nextFree' \in [Dirs -> Nat]
    BY <1>1 DEF Send, IInv, TypeOK
  <2> QED
    BY <2>1, <2>2, <2>3 DEF Send, IInv, TypeOK
<1>6. \A e \in Dirs : Len(flight[e]) \in Nat /\ queue[e] \in Int
  BY LenProperties, LinkAssumption DEF IInv, TypeOK
<1>7. QueueCoversFlight' /\ AQueueExact'
  <2>1. \A e \in Dirs : /\ e # d => Len(flight'[e]) = Len(flight[e]) /\ queue'[e] = queue[e]
                        /\ e = d => Len(flight'[e]) = Len(flight[e]) + 1 /\ queue'[e] = queue[e] + 1
    BY <1>3, <1>4 DEF Send, IInv, TypeOK
  <2> QED
    BY <2>1, <1>6 DEF IInv, QueueCoversFlight, AQueueExact, Dirs
<1>8. DueOrdered'
  <2>1. SUFFICES ASSUME NEW e \in Dirs PROVE Ordered(e)'
    BY DEF DueOrdered
  <2>2. Ordered(e)
    BY DEF IInv, DueOrdered
  <2>3. CASE e # d
    BY <2>2, <2>3, <1>3 DEF Ordered, Send, IInv, TypeOK
  <2>4. CASE e = d
    <3>0. flight'[d] = Append(flight[d], ev) /\ nextFree'[d] = end
      BY <1>3 DEF Send, IInv, TypeOK
    <3>1. \A i \in DOMAIN flight[d] : flight[d][i].due <= nextFree[d] /\ flight[d][i].due \in Nat
      <4>1. SUFFICES ASSUME NEW i \in DOMAIN flight[d]
                     PROVE  flight[d][i].due <= nextFree[d] /\ flight[d][i].due \in Nat
        OBVIOUS
      <4>2. flight[d][i] \in Event
        BY <1>0, ElementOfSeq, LenProperties
      <4> QED
        BY <4>2, <2>2, <2>4 DEF Ordered, Event
    <3>2. \A i \in DOMAIN flight[d] : flight[d][i].due < end
      <4>1. SUFFICES ASSUME NEW i \in DOMAIN flight[d] PROVE flight[d][i].due < end
        OBVIOUS
      <4>2. Len(flight[d]) > 0 /\ Len(flight[d]) \in Nat
        BY <1>0, LenProperties
      <4>3. queue[d] # 0
        BY <4>2, <1>0 DEF IInv, QueueCoversFlight
      <4>4. EndTime(d, tx, lat) = nextFree[d] + tx
        BY <4>3, <1>0 DEF EndTime
      <4> QED
        BY <4>4, <3>1, <1>0 DEF NotBefore
    <3>3. DOMAIN flight[d] = 1..Len(flight[d]) /\ Len(flight[d]) \in Nat
      BY <1>0, LenProperties
    <3>4. DOMAIN Append(flight[d], ev) = 1..(Len(flight[d]) + 1)
      BY <1>4, <3>3, LenProperties
    <3>5. ev.due = end
      OBVIOUS
    <3> HIDE DEF end, ev
    <3>6. \A i, j \in DOMAIN flight'[d] : i < j => flight'[d][i].due < flight'[d][j].due
      <4>1. SUFFICES ASSUME NEW i \in 1..(Len(flight[d]) + 1), NEW j \in 1..(Len(flight[d]) + 1), i < j
                     PROVE  Append(flight[d], ev)[i].due < Append(flight[d], ev)[j].due
        BY <3>0, <3>4
      <4>2. i \in 1..Len(flight[d]) /\ Append(flight[d], ev)[i] = flight[d][i]
        BY <4>1, <1>4, <3>3
      <4>3. CASE j \in 1..Len(flight[d])
        BY <4>1, <4>2, <4>3, <1>4, <2>2, <2>4, <3>3 DEF Ordered
      <4>4. CASE j = Len(flight[d]) + 1
        BY <4>2, <4>4, <1>4, <3>2, <3>3, <3>5
      <4> QED
        BY <4>3, <4>4, <3>3
    <3>7. \A i \in DOMAIN flight'[d] : flight'[d][i].due <= nextFree'[d]
      <4>1. SUFFICES ASSUME NEW i \in 1..(Len(flight[d]) + 1)
                     PROVE  Append(flight[d], ev)[i].due <= end
        BY <3>0, <3>4
      <4>2. CASE i \in 1..Len(flight[d])
        BY <4>2, <1>4, <3>1, <3>2, <3>3, <1>1
      <4>3. CASE i = Len(flight[d]) + 1
        BY <4>3, <1>4, <3>5, <1>1
      <4> QED
        BY <4>2, <4>3, <3>3
    <3> QED
      BY <2>4, <3>6, <3>7 DEF Ordered
  <2> QED
    BY <2>3, <2>4
<1> QED
  BY <1>5, <1>7, <1>8 DEF IInv

LEMMA DeliverKeepsIInv ==
  ASSUME IInv, NEW d \in Dirs, NEW i \in DOMAIN flight[d], Deliver(d, i)
  PROVE  IInv'
<1>1. /\ flight[d] \in Seq(Event) /\ flight[d] # <<>>
      /\ flight' = [flight EXCEPT ![d] = Tail(flight[d])]
  BY DeliverTakesHead
<1>2. /\ Tail(flight[d]) \in Seq(Event)
      /\ Len(Tail(flight[d])) = Len(flight[d]) - 1
      /\ Len(flight[d]) \in Nat \ {0}
      /\ \A k \in 1..Len(Tail(flight[d])) : Tail(flight[d])[k] = flight[d][k + 1]
  BY <1>1, HeadTailProperties, EmptySeq
<1>3. QueueLimit \in Nat /\ queue \in [Dirs -> 0..QueueLimit + 1] /\ queue[d] >= 1
  BY <1>2, LinkAssumption DEF IInv, TypeOK, QueueCoversFlight
<1>4. TypeOK'
  <2>1. queue' \in [Dirs -> 0..QueueLimit + 1]
    <3>1. queue[d] - 1 \in 0..QueueLimit + 1
      BY <1>3
    <3> QED
      BY <1>3, <3>1 DEF Deliver
  <2>2. flight' \in [Dirs -> Seq(Event)]
    BY <1>1, <1>2 DEF IInv, TypeOK
  <2> QED
    BY <2>1, <2>2 DEF Deliver, IInv, TypeOK
<1>5. \A e \in Dirs : /\ e # d => Len(flight'[e]) = Len(flight[e]) /\ queue'[e] = queue[e]
                      /\ e = d => /\ Len(flight'[e]) = Len(flight[e]) - 1
                                  /\ queue'[e] \in {queue[e], queue[e] - 1}
                                  /\ e = "A" => queue'[e] = queue[e] - 1
  BY <1>1, <1>2, <1>3 DEF Deliver, LeavesQueue, IInv, TypeOK
<1>6. \A e \in Dirs : Len(flight[e]) \in Nat /\ queue[e] \in Int
  BY LenProperties, LinkAssumption DEF IInv, TypeOK
<1>7. QueueCoversFlight' /\ AQueueExact'
  BY <1>5, <1>6 DEF IInv, QueueCoversFlight, AQueueExact, Dirs
<1>8. DueOrdered'
  <2>1. SUFFICES ASSUME NEW e \in Dirs PROVE Ordered(e)'
    BY DEF DueOrdered
  <2>2. Ordered(e)
    BY DEF IInv, DueOrdered
  <2>3. CASE e # d
    BY <2>2, <2>3, <1>1 DEF Ordered, Deliver, IInv, TypeOK
  <2>4. CASE e = d
    <3>1. flight'[d] = Tail(flight[d]) /\ nextFree' = nextFree
      BY <1>1 DEF Deliver, IInv, TypeOK
    <3>2. /\ DOMAIN flight[d] = 1..Len(flight[d])
          /\ DOMAIN flight'[d] = 1..(Len(flight[d]) - 1)
      BY <1>1, <1>2, <3>1, LenProperties
    <3>3. \A k \in DOMAIN flight'[d] : k + 1 \in DOMAIN flight[d] /\ flight'[d][k] = flight[d][k + 1]
      BY <1>2, <3>1, <3>2
    <3>4. \A k, m \in DOMAIN flight'[d] : k < m => flight'[d][k].due < flight'[d][m].due
      <4>1. SUFFICES ASSUME NEW k \in DOMAIN flight'[d], NEW m \in DOMAIN flight'[d], k < m
                     PROVE  flight'[d][k].due < flight'[d][m].due
        OBVIOUS
      <4>2. k \in Int /\ m \in Int /\ k + 1 < m + 1
        BY <4>1, <3>2
      <4> QED
        BY <4>2, <3>3, <2>2, <2>4 DEF Ordered
    <3> QED
      BY <2>2, <2>4, <3>1, <3>3, <3>4 DEF Ordered
  <2> QED
    BY <2>3, <2>4
<1> QED
  BY <1>4, <1>7, <1>8 DEF IInv

LEMMA TickKeepsIInv == IInv /\ Tick => IInv'
<1>1. SUFFICES ASSUME IInv, Tick PROVE IInv'
  OBVIOUS
<1> DEFINE aged(d) == [i \in DOMAIN flight[d] |-> [flight[d][i] EXCEPT !.due = @ - 1]]
<1>2. /\ flight \in [Dirs -> Seq(Event)] /\ nextFree \in [Dirs -> Nat]
      /\ flight' = [d \in Dirs |-> aged(d)]
      /\ nextFree' = [d \in Dirs |-> NotBefore(nextFree[d] - 1)]
  BY <1>1 DEF IInv, TypeOK, Tick
<1>3. ASSUME NEW d \in Dirs
      PROVE  /\ DOMAIN flight[d] = 1..Len(flight[d]) /\ Len(flight[d]) \in Nat
             /\ aged(d) \in Seq(Event)
             /\ Len(aged(d)) = Len(flight[d])
             /\ DOMAIN aged(d) = DOMAIN flight[d]
             /\ \A i \in DOMAIN flight[d] : /\ flight[d][i].due \in Nat
                                            /\ aged(d)[i].due = flight[d][i].due - 1
  <2>1. flight[d] \in Seq(Event) /\ DOMAIN flight[d] = 1..Len(flight[d]) /\ Len(flight[d]) \in Nat
    BY <1>2, LenProperties
  <2>2. ASSUME NEW i \in DOMAIN flight[d]
        PROVE  /\ [flight[d][i] EXCEPT !.due = @ - 1] \in Event
               /\ flight[d][i].due \in Nat
               /\ [flight[d][i] EXCEPT !.due = @ - 1].due = flight[d][i].due - 1
    <3>1. flight[d][i] \in Event /\ flight[d][i].due > 0
      BY <1>1, <2>1, ElementOfSeq DEF Tick
    <3> QED
      BY <3>1 DEF Event
  <2>3. aged(d) \in [1..Len(flight[d]) -> Event]
    BY <2>1, <2>2
  <2>4. aged(d) \in Seq(Event)
    BY <2>1, <2>3, SeqDef
  <2>5. DOMAIN aged(d) = 1..Len(flight[d]) /\ DOMAIN aged(d) = 1..Len(aged(d)) /\ Len(aged(d)) \in Nat
    BY <2>1, <2>4, LenProperties
  <2>6. Len(aged(d)) = Len(flight[d])
    BY <2>1, <2>5
  <2> QED
    BY <2>1, <2>2, <2>4, <2>5, <2>6
<1> HIDE DEF aged
<1>4. TypeOK'
  <2>1. flight' \in [Dirs -> Seq(Event)]
    BY <1>2, <1>3
  <2>2. \A d \in Dirs : NotBefore(nextFree[d] - 1) \in Nat
    BY <1>2 DEF NotBefore
  <2>3. nextFree' \in [Dirs -> Nat]
    BY <1>2, <2>2
  <2> QED
    BY <1>1, <2>1, <2>3 DEF IInv, TypeOK, Tick
<1>5. QueueCoversFlight' /\ AQueueExact'
  BY <1>1, <1>2, <1>3 DEF IInv, QueueCoversFlight, AQueueExact, Tick, Dirs
<1>6. DueOrdered'
  <2>1. SUFFICES ASSUME NEW d \in Dirs PROVE Ordered(d)'
    BY DEF DueOrdered
  <2>2. Ordered(d)
    BY <1>1 DEF IInv, DueOrdered
  <2>3. flight'[d] = aged(d) /\ nextFree'[d] = NotBefore(nextFree[d] - 1) /\ nextFree[d] \in Nat
    BY <1>2
  <2>4. \A i \in DOMAIN flight[d] : flight[d][i].due > 0
    BY <1>1 DEF Tick
  <2>5. \A i, j \in DOMAIN flight'[d] : i < j => flight'[d][i].due < flight'[d][j].due
    <3>1. SUFFICES ASSUME NEW i \in DOMAIN flight[d], NEW j \in DOMAIN flight[d], i < j
                   PROVE  aged(d)[i].due < aged(d)[j].due
      BY <1>3, <2>3
    <3>2. flight[d][i].due < flight[d][j].due
      BY <2>2, <3>1 DEF Ordered
    <3>3. /\ flight[d][i].due \in Nat /\ aged(d)[i].due = flight[d][i].due - 1
          /\ flight[d][j].due \in Nat /\ aged(d)[j].due = flight[d][j].due - 1
      BY <1>3
    <3> QED
      BY <3>2, <3>3
  <2>6. \A i \in DOMAIN flight'[d] : flight'[d][i].due <= nextFree'[d]
    BY <1>3, <2>2, <2>3, <2>4 DEF Ordered, NotBefore
  <2> QED
    BY <2>5, <2>6 DEF Ordered
<1> QED
  BY <1>4, <1>5, <1>6 DEF IInv

LEMMA SetStateKeepsIInv == IInv /\ (SetUp \/ SetDown) => IInv'
  BY LinkAssumption
  DEF IInv, SetUp, SetDown, SetState, TypeOK, QueueCoversFlight, AQueueExact, DueOrdered, Ordered

LEMMA ConvergeKeepsIInv == IInv /\ Converge => IInv'
<1>1. <<>> \in Seq(Event) /\ Len(<<>>) = 0 /\ DOMAIN <<>> = {}
  BY EmptySeq
<1> QED
  BY <1>1, LinkAssumption
  DEF IInv, Converge, TypeOK, QueueCoversFlight, AQueueExact, DueOrdered, Ordered, Dirs

LEMMA NextKeepsIInv == IInv /\ [Next]_vars => IInv'
<1>1. CASE Next
  BY <1>1, SendKeepsIInv, DeliverKeepsIInv, SetStateKeepsIInv, ConvergeKeepsIInv, TickKeepsIInv
  DEF Next
<1>2. CASE UNCHANGED vars
  BY <1>2 DEF vars, IInv, TypeOK, QueueCoversFlight, AQueueExact, DueOrdered, Ordered
<1> QED
  BY <1>1, <1>2

\* In every reachable state of a link its variables have their types, the
\* queue counters cover the scheduled deliveries (link.cc:51-61, 69-80) and
\* the deliveries of one direction are ordered in time.
THEOREM InvariantHolds == Spec => []IInv
<1> QED
  BY InitIInv, NextKeepsIInv, PTL DEF Spec

\* The unsigned counters never wrap and stay within the limit.
THEOREM TypeCorrect == Spec => []TypeOK
<1>1. IInv => TypeOK
  BY DEF IInv
<1> QED
  BY InvariantHolds, <1>1, PTL

\* The limit of link.cc:51 and :69 bounds the scheduled delivery events.
THEOREM CoversFlight == Spec => []QueueCoversFlight
<1>1. IInv => QueueCoversFlight
  BY DEF IInv
<1> QED
  BY InvariantHolds, <1>1, PTL

\* Deliveries are due in the order the packets were sent, also with negative latency
\* samples (link.cc:52, link.cc:70) and over failures and resets.
THEOREM DueInOrder == Spec => []DueOrdered
<1>1. IInv => DueOrdered
  BY DEF IInv
<1> QED
  BY InvariantHolds, <1>1, PTL

\* The counter of direction A equals the number of scheduled deliveries.
THEOREM AExact == Spec => []AQueueExact
<1>1. IInv => AQueueExact
  BY DEF IInv
<1> QED
  BY InvariantHolds, <1>1, PTL

-----------------------------------------------------------------------------
(* A link implements LossyFifo.                                            *)

ChanBar == [d \in Dirs |-> Payloads(flight[d])]

\* Forgetting the due times of a sequence of events leaves a sequence of
\* packets of the same length.
LEMMA PayloadsType ==
  ASSUME NEW s \in Seq(Event)
  PROVE  /\ Payloads(s) \in Seq(Packets)
         /\ Len(Payloads(s)) = Len(s)
         /\ \A i \in 1..Len(s) : Payloads(s)[i] = s[i].pkt
<1>1. DOMAIN s = 1..Len(s) /\ Len(s) \in Nat
  BY LenProperties
<1>2. \A i \in 1..Len(s) : s[i].pkt \in Packets
  <2>1. SUFFICES ASSUME NEW i \in 1..Len(s) PROVE s[i].pkt \in Packets
    OBVIOUS
  <2>2. s[i] \in Event
    BY ElementOfSeq
  <2> QED
    BY <2>2 DEF Event
<1>3. Payloads(s) \in [1..Len(s) -> Packets]
  BY <1>1, <1>2 DEF Payloads
<1>4. Payloads(s) \in Seq(Packets)
  BY <1>1, <1>3, SeqDef
<1>5. DOMAIN Payloads(s) = 1..Len(Payloads(s)) /\ Len(Payloads(s)) \in Nat
  BY <1>4, LenProperties
<1>6. DOMAIN Payloads(s) = 1..Len(s)
  BY <1>1 DEF Payloads
<1> QED
  BY <1>1, <1>4, <1>5, <1>6 DEF Payloads

LEMMA PayloadsEmpty == Payloads(<<>>) = <<>>
<1>1. <<>> \in Seq(Event) /\ Len(<<>>) = 0
  BY EmptySeq
<1>2. Payloads(<<>>) \in Seq(Packets) /\ Len(Payloads(<<>>)) = 0
  BY <1>1, PayloadsType
<1> QED
  BY <1>2, EmptySeq

LEMMA PayloadsAppend ==
  ASSUME NEW s \in Seq(Event), NEW e \in Event
  PROVE  Payloads(Append(s, e)) = Append(Payloads(s), e.pkt)
<1>1. /\ Append(s, e) \in Seq(Event) /\ Len(Append(s, e)) = Len(s) + 1
      /\ \A i \in 1..Len(s) : Append(s, e)[i] = s[i]
      /\ Append(s, e)[Len(s) + 1] = e
  BY AppendProperties
<1>2. /\ Payloads(s) \in Seq(Packets) /\ Len(Payloads(s)) = Len(s)
      /\ \A i \in 1..Len(s) : Payloads(s)[i] = s[i].pkt
  BY PayloadsType
<1>3. /\ Payloads(Append(s, e)) \in Seq(Packets)
      /\ Len(Payloads(Append(s, e))) = Len(s) + 1
      /\ \A i \in 1..(Len(s) + 1) : Payloads(Append(s, e))[i] = Append(s, e)[i].pkt
  BY <1>1, PayloadsType
<1>4. e.pkt \in Packets /\ Len(s) \in Nat
  BY LenProperties DEF Event
<1>5. /\ Append(Payloads(s), e.pkt) \in Seq(Packets)
      /\ Len(Append(Payloads(s), e.pkt)) = Len(s) + 1
      /\ \A i \in 1..Len(s) : Append(Payloads(s), e.pkt)[i] = s[i].pkt
      /\ Append(Payloads(s), e.pkt)[Len(s) + 1] = e.pkt
  BY <1>2, <1>4, AppendProperties
<1>6. \A i \in 1..(Len(s) + 1) : Payloads(Append(s, e))[i] = Append(Payloads(s), e.pkt)[i]
  BY <1>1, <1>3, <1>4, <1>5
<1> QED
  BY <1>3, <1>5, <1>6, SeqEqual

LEMMA PayloadsTail ==
  ASSUME NEW s \in Seq(Event), s # <<>>
  PROVE  /\ Payloads(s) # <<>>
         /\ Payloads(Tail(s)) = Tail(Payloads(s))
<1>1. /\ Tail(s) \in Seq(Event) /\ Len(Tail(s)) = Len(s) - 1
      /\ \A i \in 1..Len(Tail(s)) : Tail(s)[i] = s[i + 1]
      /\ Len(s) \in Nat \ {0}
  BY HeadTailProperties, EmptySeq
<1>2. /\ Payloads(s) \in Seq(Packets) /\ Len(Payloads(s)) = Len(s)
      /\ \A i \in 1..Len(s) : Payloads(s)[i] = s[i].pkt
  BY PayloadsType
<1>3. Payloads(s) # <<>>
  BY <1>1, <1>2, EmptySeq
<1>4. /\ Tail(Payloads(s)) \in Seq(Packets) /\ Len(Tail(Payloads(s))) = Len(s) - 1
      /\ \A i \in 1..(Len(s) - 1) : Tail(Payloads(s))[i] = Payloads(s)[i + 1]
  BY <1>2, <1>3, HeadTailProperties
<1>5. /\ Payloads(Tail(s)) \in Seq(Packets) /\ Len(Payloads(Tail(s))) = Len(s) - 1
      /\ \A i \in 1..(Len(s) - 1) : Payloads(Tail(s))[i] = Tail(s)[i].pkt
  BY <1>1, PayloadsType
<1>6. \A i \in 1..(Len(s) - 1) : Payloads(Tail(s))[i] = Tail(Payloads(s))[i]
  BY <1>1, <1>2, <1>4, <1>5
<1> QED
  BY <1>3, <1>4, <1>5, <1>6, SeqEqual

LEMMA InitRefines == Init => Fifo!Init
  BY PayloadsEmpty DEF Init, Fifo!Init

LEMMA StepRefines == IInv /\ [Next]_vars => [Fifo!Next]_ChanBar
<1>1. SUFFICES ASSUME IInv, [Next]_vars PROVE [Fifo!Next]_ChanBar
  OBVIOUS
<1>2. flight \in [Dirs -> Seq(Event)]
  BY <1>1 DEF IInv, TypeOK
<1>3. ASSUME NEW d \in Dirs, NEW p \in Packets, NEW tx \in TxTimes, NEW lat \in Latencies,
             Send(d, p, tx, lat)
      PROVE  Fifo!Put(d, p)
  <2> DEFINE ev == [pkt |-> p, due |-> NotBefore(EndTime(d, tx, lat))]
  <2>1. flight' = [flight EXCEPT ![d] = Append(flight[d], ev)]
    BY <1>3 DEF Send
  <2>2. flight'[d] \in Seq(Event) /\ flight'[d] = Append(flight[d], ev) /\ flight[d] \in Seq(Event)
    <3>1. IInv'
      BY <1>1, <1>3, SendKeepsIInv
    <3> QED
      BY <3>1, <2>1, <1>2 DEF IInv, TypeOK
  <2>3. ev \in Event
    <3>1. /\ Len(flight[d]) \in Nat
          /\ Append(flight[d], ev)[Len(flight[d]) + 1] = ev
          /\ Len(flight'[d]) = Len(flight[d]) + 1
      BY <2>2, LenProperties, AppendProperties
    <3> QED
      BY <3>1, <2>2, ElementOfSeq
  <2>4. Payloads(flight'[d]) = Append(Payloads(flight[d]), p)
    BY <2>2, <2>3, PayloadsAppend
  <2>5. Len(Payloads(flight[d])) < QueueLimit + 1
    <3>1. Len(Payloads(flight[d])) = Len(flight[d]) /\ Len(flight[d]) \in Nat
      BY <2>2, PayloadsType, LenProperties
    <3>2. Len(flight[d]) <= queue[d] /\ queue[d] <= QueueLimit /\ queue[d] \in 0..QueueLimit + 1
      BY <1>1, <1>3 DEF IInv, QueueCoversFlight, TypeOK, Send
    <3> QED
      BY <3>1, <3>2, LinkAssumption
  <2>6. ChanBar' = [ChanBar EXCEPT ![d] = Append(Payloads(flight[d]), p)]
    BY <2>1, <2>4, <1>2 DEF ChanBar
  <2> QED
    BY <2>5, <2>6 DEF Fifo!Put, ChanBar
<1>4. ASSUME NEW d \in Dirs, NEW i \in DOMAIN flight[d], Deliver(d, i)
      PROVE  Fifo!Take(d)
  <2>1. /\ flight[d] \in Seq(Event) /\ flight[d] # <<>>
        /\ flight' = [flight EXCEPT ![d] = Tail(flight[d])]
    BY <1>1, <1>4, DeliverTakesHead
  <2>2. Payloads(flight[d]) # <<>> /\ Payloads(Tail(flight[d])) = Tail(Payloads(flight[d]))
    BY <2>1, PayloadsTail
  <2>3. ChanBar' = [ChanBar EXCEPT ![d] = Tail(Payloads(flight[d]))]
    BY <2>1, <2>2, <1>2 DEF ChanBar
  <2> QED
    BY <2>2, <2>3 DEF Fifo!Take, ChanBar
<1>5. CASE Converge
  BY <1>5, PayloadsEmpty DEF Converge, Fifo!Next, Fifo!Clear, ChanBar
<1>6. ASSUME Tick PROVE ChanBar' = ChanBar
  <2>1. ASSUME NEW d \in Dirs
        PROVE  Payloads(flight'[d]) = Payloads(flight[d])
    <3>1. flight'[d] = [i \in DOMAIN flight[d] |-> [flight[d][i] EXCEPT !.due = @ - 1]]
      BY <1>6 DEF Tick
    <3>2. \A i \in DOMAIN flight[d] : flight'[d][i].pkt = flight[d][i].pkt
      <4>1. SUFFICES ASSUME NEW i \in DOMAIN flight[d] PROVE flight'[d][i].pkt = flight[d][i].pkt
        OBVIOUS
      <4>2. flight[d][i] \in Event
        BY <1>2, ElementOfSeq, LenProperties
      <4> QED
        BY <3>1, <4>2 DEF Event
    <3>3. DOMAIN flight'[d] = DOMAIN flight[d]
      BY <3>1
    <3> QED
      BY <3>2, <3>3 DEF Payloads
  <2> QED
    BY <2>1 DEF ChanBar
<1>7. CASE UNCHANGED vars
  BY <1>7 DEF vars, ChanBar
<1>8. CASE SetUp \/ SetDown
  BY <1>8 DEF SetUp, SetDown, SetState, ChanBar
<1> QED
  BY <1>1, <1>3, <1>4, <1>5, <1>6, <1>7, <1>8 DEF Next, Fifo!Next

\* Whatever the queue limit, the transmission times and the latencies (even
\* negative ones), a link is in each direction a bounded lossy FIFO channel.
THEOREM LinkIsFifo == Spec => ImplementsFifo
<1>1. IInv /\ [Next]_vars => [Fifo!Next]_([d \in Dirs |-> Payloads(flight[d])])
  BY StepRefines DEF ChanBar
<1> QED
  BY InitRefines, InvariantHolds, <1>1, PTL DEF Spec, ImplementsFifo, Fifo!Spec
=============================================================================
