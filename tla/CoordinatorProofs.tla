------------------------- MODULE CoordinatorProofs --------------------------
(***************************************************************************)
(* Proofs about the coordinator, for every topology, every number of       *)
(* controllers and of packets, and every delay: it is a broadcast that     *)
(* hands all controllers the packets in the same order, and so once        *)
(* nothing is scheduled they only disagree on what one of them dropped or  *)
(* a switch told one of them alone.                                        *)
(***************************************************************************)
EXTENDS CoordinatorProps, ListLemmas

\* Only controllers ask.
Requests == IsFiniteSet(sent) /\ \A p \in sent : p.asks => p.src \in Controllers

\* An identifier that was accepted is not accepted again.
Remembered == \A p \in sent : p.id \in Accepted => p.id <= lastSeen[p.dst]

\* An identifier is accepted at one instant.
OneBatch == \A i, j \in DOMAIN log : \A m \in log[i] : m \in log[j] => i = j

\* Whatever is scheduled or handled was accepted.
OnlyAccepted ==
  /\ \A e \in agenda : e.pkt.id \in Accepted
  /\ \A x \in outbox : x[2].id \in Accepted
  /\ \A c \in Controllers : filter[c] \subseteq Accepted
  /\ \A m \in Accepted : m < pid

\* Whatever was accepted is handled, or scheduled for the coordinator or the controller.
Covered ==
  \A c \in Controllers, m \in Accepted :
    \/ m \in filter[c]
    \/ \E e \in agenda : e.pkt.id = m
    \/ \E x \in outbox : x[1] = c /\ x[2].id = m

\* Packets accepted at different instants are never due at the same time.
DueGrows ==
  \A i, j \in DOMAIN log : \A e, f \in agenda :
    i < j /\ e.pkt.id \in log[i] /\ f.pkt.id \in log[j] => e.due < f.due

\* Only what was accepted at this instant has the whole delay before it.
NewestLast ==
  \A e \in agenda :
    /\ e.due <= 2 * Rtt
    /\ ~fresh /\ e.pkt.id \in log[Len(log)] => e.due = 2 * Rtt
    /\ e.due = 2 * Rtt => ~fresh /\ e.pkt.id \in log[Len(log)]

\* Nobody has been handed what was accepted at this instant.
Unheard ==
  ~fresh =>
    /\ log # <<>>
    /\ \A c \in Controllers : \A m \in log[Len(log)] : m \notin filter[c]
    /\ \A x \in outbox : x[2].id \notin log[Len(log)]

\* A controller is only handed a packet when it has all that came before it.
InTurn ==
  \A x \in outbox : \A i, j \in DOMAIN log :
    i < j /\ x[2].id \in log[j] => log[i] \subseteq filter[x[1]]

\* The coordinator waits for the controllers before it hands on a later packet.
OutFirst ==
  \A x \in outbox : \A e \in agenda : \A i, j \in DOMAIN log :
    i < j /\ x[2].id \in log[i] /\ e.pkt.id \in log[j] => e.due > 0

\* The inductive invariant.
IInv ==
  /\ TypeOK /\ Requests /\ Remembered /\ OneBatch /\ OnlyAccepted /\ Covered
  /\ DueGrows /\ NewestLast /\ Unheard /\ InTurn /\ OutFirst

-----------------------------------------------------------------------------
\* Sending.

\* Packets with the next identifiers leave identifiers unique.
LEMMA SendType ==
  ASSUME TypeOK, Requests, NEW n \in Nat, NEW N, IsFiniteSet(N), Cardinality(N) = n,
         \A p \in N : IsPacket(p) /\ p.id >= pid /\ p.id < pid + n /\ (p.asks => p.src \in Controllers),
         \A p, q \in N : p.id = q.id => p = q,
         sent' = sent \cup N
  PROVE  /\ Requests' /\ pid \in Nat /\ pid' = pid + n
         /\ \A p \in sent' : IsPacket(p) /\ p.id < pid'
         /\ \A p, q \in sent' : p.id = q.id => p = q
<1>1. IsFiniteSet(sent) /\ pid \in Nat
  BY FS_CardinalityType DEF Requests, pid
<1>2. \A p \in sent : IsPacket(p) /\ p.id < pid /\ p.id \in Nat
  BY DEF TypeOK, IsPacket, Ids
<1>3. \A p \in N : p.id \in Nat
  BY DEF IsPacket, Ids
<1>4. sent \cap N = {}
  BY <1>1, <1>2, <1>3
<1>5. IsFiniteSet(sent') /\ pid' = pid + n
  <2>1. /\ IsFiniteSet(sent \cup N)
        /\ Cardinality(sent \cup N) = Cardinality(sent) + Cardinality(N) - Cardinality(sent \cap N)
    BY <1>1, FS_Union
  <2>2. Cardinality(sent \cap N) = 0
    BY <1>4, FS_EmptySet
  <2> QED
    BY <1>1, <2>1, <2>2 DEF pid
<1>6. \A p \in sent' : p.id < pid'
  BY <1>1, <1>2, <1>3, <1>5
<1>7. \A p, q \in sent' : p.id = q.id => p = q
  BY <1>1, <1>2, <1>3 DEF TypeOK
<1> QED
  BY <1>1, <1>2, <1>5, <1>6, <1>7 DEF Requests

\* What a packet tells of some links is well-formed.
LEMMA TruthType ==
  ASSUME NEW h \in [Links -> Seq({"UP", "DOWN"})], \A l \in Links : Len(h[l]) \in 1..MaxVersion,
         NEW ls \in SUBSET Links
  PROVE  /\ DOMAIN Truth(h, ls) \subseteq Links
         /\ \A l \in DOMAIN Truth(h, ls) :
              Truth(h, ls)[l] \in [state : {"UP", "DOWN"}, version : 1..MaxVersion]
<1>1. SUFFICES ASSUME NEW l \in ls
               PROVE  [state |-> Last(h[l]), version |-> Len(h[l])]
                        \in [state : {"UP", "DOWN"}, version : 1..MaxVersion]
  BY DEF Truth
<1>2. h[l] \in Seq({"UP", "DOWN"}) /\ Len(h[l]) \in 1..MaxVersion /\ Len(h[l]) > 0
  BY CoordinatorAssumption
<1>3. Last(h[l]) \in {"UP", "DOWN"}
  BY <1>2, LastType
<1> QED
  BY <1>2, <1>3

\* One packet is sent.
LEMMA SendOneType ==
  ASSUME TypeOK, Requests, NEW p, sent' = sent \cup {p}, IsPacket(p), p.id = pid,
         p.asks => p.src \in Controllers
  PROVE  /\ Requests' /\ pid \in Nat /\ pid' = pid + 1
         /\ \A q \in sent' : IsPacket(q) /\ q.id < pid'
         /\ \A q, r \in sent' : q.id = r.id => q = r
<1>1. IsFiniteSet({p}) /\ Cardinality({p}) = 1
  BY FS_Singleton
<1>2. pid \in Nat
  BY FS_CardinalityType DEF Requests, pid
<1> DEFINE N == {p}
<1>3. /\ \A q \in N : IsPacket(q) /\ q.id >= pid /\ q.id < pid + 1 /\ (q.asks => q.src \in Controllers)
      /\ \A q, r \in N : q.id = r.id => q = r
      /\ IsFiniteSet(N) /\ Cardinality(N) = 1 /\ sent' = sent \cup N
  BY <1>1, <1>2
<1> HIDE DEF N
<1> QED
  BY <1>3, SendType

\* The order of the coordinator's calls does not depend on what is sent.
LEMMA SendingKeepsIInv ==
  ASSUME IInv, UNCHANGED coordinator, UNCHANGED controllers, sent \subseteq sent',
         TypeOK', Requests', pid \in Nat, pid' \in Nat, pid <= pid',
         \A p \in sent' \ sent : p.id >= pid
  PROVE  IInv'
<1>1. UNCHANGED <<lastSeen, agenda, outbox, filter, log, fresh>> /\ Accepted' = Accepted
  BY DEF coordinator, controllers, Accepted
<1>2. Remembered'
  <2>1. SUFFICES ASSUME NEW p \in sent', p.id \in Accepted PROVE p.id <= lastSeen[p.dst]
    BY <1>1 DEF Remembered
  <2>2. p.id \in Nat /\ p.id < pid
    BY <2>1 DEF IInv, OnlyAccepted, TypeOK, IsPacket, Ids
  <2>3. p \in sent
    BY <2>2
  <2> QED
    BY <2>1, <2>3 DEF IInv, Remembered
<1>3. OnlyAccepted'
  <2>1. \A m \in Accepted : m \in Nat
    BY DEF IInv, TypeOK, Accepted, Ids
  <2> QED
    BY <1>1, <2>1 DEF IInv, OnlyAccepted
<1>4. OneBatch' /\ Covered' /\ DueGrows' /\ NewestLast' /\ Unheard' /\ InTurn' /\ OutFirst'
  BY <1>1 DEF IInv, OneBatch, Covered, DueGrows, NewestLast, Unheard, InTurn, OutFirst
<1> QED
  BY <1>2, <1>3, <1>4 DEF IInv

LEMMA SendSwitchInfoRequestKeepsIInv ==
  ASSUME IInv, NEW c \in Controllers, SendSwitchInfoRequest(c)
  PROVE  IInv'
<1> DEFINE p == [id |-> pid, src |-> c, dst |-> ALL, asks |-> TRUE, news |-> Truth(hist, {})]
<1>1. TypeOK /\ Requests /\ hist \in [Links -> Seq({"UP", "DOWN"})]
  BY DEF IInv, TypeOK
<1>2. pid \in Nat
  BY FS_CardinalityType DEF IInv, Requests, pid
<1>3. IsPacket(p) /\ p.id = pid /\ (p.asks => p.src \in Controllers) /\ sent' = sent \cup {p}
  <2>1. pid \in Ids
    BY <1>2, CoordinatorAssumption DEF SendSwitchInfoRequest, Ids
  <2> QED
    BY <2>1 DEF SendSwitchInfoRequest, IsPacket, Truth, Nodes, Endpoints
<1> HIDE DEF p
<1>4. /\ Requests' /\ pid' = pid + 1
      /\ \A q \in sent' : IsPacket(q) /\ q.id < pid'
      /\ \A q, r \in sent' : q.id = r.id => q = r
  BY <1>1, <1>3, SendOneType
<1>5. UNCHANGED <<hist, lastSeen, ahead, agenda, outbox, log, fresh, filter, known, existing, missed>>
  BY DEF SendSwitchInfoRequest, coordinator, controllers
<1>6. TypeOK'
  BY <1>1, <1>3, <1>4, <1>5 DEF TypeOK
<1> QED
  BY <1>2, <1>3, <1>4, <1>5, <1>6, SendingKeepsIInv DEF coordinator, controllers

LEMMA AnswerKeepsIInv ==
  ASSUME IInv, NEW s \in Switches, NEW req \in sent, Answer(s, req)
  PROVE  IInv'
<1> DEFINE p == [id |-> pid, src |-> s, dst |-> req.src, asks |-> FALSE,
                 news |-> Truth(hist, LinksOf(s))]
<1>1. /\ TypeOK /\ Requests /\ hist \in [Links -> Seq({"UP", "DOWN"})]
      /\ \A l \in Links : Len(hist[l]) \in 1..MaxVersion
  BY DEF IInv, TypeOK
<1>2. pid \in Nat
  BY FS_CardinalityType DEF IInv, Requests, pid
<1>3. IsPacket(p) /\ p.id = pid /\ (p.asks => p.src \in Controllers) /\ sent' = sent \cup {p}
  <2>1. pid \in Ids /\ req.src \in Controllers
    BY <1>1, <1>2, CoordinatorAssumption DEF Answer, Ids, Requests
  <2>2. /\ DOMAIN Truth(hist, LinksOf(s)) \subseteq Links
        /\ \A l \in DOMAIN Truth(hist, LinksOf(s)) :
             Truth(hist, LinksOf(s))[l] \in [state : {"UP", "DOWN"}, version : 1..MaxVersion]
    BY <1>1, TruthType DEF LinksOf
  <2> QED
    BY <2>1, <2>2 DEF Answer, IsPacket, Nodes
<1> HIDE DEF p
<1>4. /\ Requests' /\ pid' = pid + 1
      /\ \A q \in sent' : IsPacket(q) /\ q.id < pid'
      /\ \A q, r \in sent' : q.id = r.id => q = r
  BY <1>1, <1>3, SendOneType
<1>5. UNCHANGED <<hist, lastSeen, ahead, agenda, outbox, log, fresh, filter, known, existing, missed>>
  BY DEF Answer, coordinator, controllers
<1>6. TypeOK'
  BY <1>1, <1>3, <1>4, <1>5 DEF TypeOK
<1> QED
  BY <1>2, <1>3, <1>4, <1>5, <1>6, SendingKeepsIInv DEF coordinator, controllers

\* The switches at a link get consecutive identifiers.
LEMMA SetLinkKeepsIInv ==
  ASSUME IInv, NEW l \in Links, NEW st \in {"UP", "DOWN"}, SetLink(l, st)
  PROVE  IInv'
<1> DEFINE ends == IF st = Last(hist[l]) THEN <<>> ELSE SetToSeq(Ends[l] \cap Switches)
           pkt(i) == [id |-> pid + i - 1, src |-> ends[i], dst |-> ALL, asks |-> FALSE,
                      news |-> Truth(hist', {l})]
           N == {pkt(i) : i \in DOMAIN ends}
<1>1. /\ TypeOK /\ Requests /\ hist \in [Links -> Seq({"UP", "DOWN"})]
      /\ \A m \in Links : Len(hist[m]) \in 1..MaxVersion
  BY DEF IInv, TypeOK
<1>2. pid \in Nat
  BY FS_CardinalityType DEF IInv, Requests, pid
<1>3. /\ Len(hist[l]) < MaxVersion /\ hist' = [hist EXCEPT ![l] = Append(hist[l], st)]
      /\ pid + Len(ends) <= MaxPid + 1 /\ sent' = sent \cup N
  BY DEF SetLink
<1>4. hist' \in [Links -> Seq({"UP", "DOWN"})] /\ \A m \in Links : Len(hist'[m]) \in 1..MaxVersion
  <2>1. Append(hist[l], st) \in Seq({"UP", "DOWN"}) /\ Len(Append(hist[l], st)) = Len(hist[l]) + 1
    BY <1>1, AppendProperties
  <2>2. Len(Append(hist[l], st)) \in 1..MaxVersion
    BY <1>1, <1>3, <2>1, CoordinatorAssumption
  <2> QED
    BY <1>1, <1>3, <2>1, <2>2
<1>5. ends \in Seq(Switches) /\ Len(ends) \in Nat /\ DOMAIN ends = 1..Len(ends)
  <2>1. IsFiniteSet(Ends[l] \cap Switches)
    <3>1. (Ends[l] \cap Switches) \in SUBSET Nodes
      BY DEF Nodes
    <3> QED
      BY <3>1, TopologyAssumption, FS_Subset
  <2>2. SetToSeq(Ends[l] \cap Switches) \in Seq(Switches)
    BY <2>1, SetToSeqType, SeqMonotonic
  <2>3. <<>> \in Seq(Switches)
    BY EmptySeq
  <2>4. ends \in Seq(Switches)
    BY <2>2, <2>3
  <2> QED
    BY <2>4, LenProperties
<1> HIDE DEF ends
<1>6. \A i \in DOMAIN ends : IsPacket(pkt(i)) /\ pkt(i).id = pid + i - 1 /\ ~pkt(i).asks
  <2>1. SUFFICES ASSUME NEW i \in DOMAIN ends PROVE IsPacket(pkt(i))
    OBVIOUS
  <2>2. ends[i] \in Nodes
    BY <1>5, ElementOfSeq DEF Nodes
  <2>3. pid + i - 1 \in Ids
    BY <1>2, <1>3, <1>5, CoordinatorAssumption DEF Ids
  <2>4. /\ DOMAIN Truth(hist', {l}) \subseteq Links
        /\ \A m \in DOMAIN Truth(hist', {l}) :
             Truth(hist', {l})[m] \in [state : {"UP", "DOWN"}, version : 1..MaxVersion]
    BY <1>4, TruthType
  <2> QED
    BY <2>2, <2>3, <2>4 DEF IsPacket
<1>7. IsFiniteSet(N) /\ Cardinality(N) = Len(ends)
  <2> DEFINE D == 1..Len(ends)
             f == [i \in D |-> pkt(i)]
  <2>1. f \in Bijection(D, N)
    <3>1. f \in [D -> N] /\ \A q \in N : \E i \in D : f[i] = q
      BY <1>5
    <3>2. \A i, j \in D : f[i] = f[j] => i = j
      <4>1. SUFFICES ASSUME NEW i \in D, NEW j \in D, f[i] = f[j] PROVE i = j
        OBVIOUS
      <4>2. pid + i - 1 = pid + j - 1
        BY <4>1, <1>5, <1>6
      <4> QED
        BY <1>2, <4>2
    <3> HIDE DEF f, N
    <3> QED
      BY <3>1, <3>2 DEF Bijection, Injection, Surjection, IsInjective
  <2>2. IsFiniteSet(D) /\ Cardinality(D) = Len(ends)
    BY <1>5, FS_Interval
  <2> HIDE DEF f, N, D
  <2> QED
    BY <2>1, <2>2, FS_Bijection DEF ExistsBijection
<1>8. /\ \A p \in N : IsPacket(p) /\ p.id >= pid /\ p.id < pid + Len(ends) /\ ~p.asks
      /\ \A p, q \in N : p.id = q.id => p = q
  <2>1. ASSUME NEW i \in DOMAIN ends PROVE pkt(i).id >= pid /\ pkt(i).id < pid + Len(ends)
    BY <1>2, <1>5, <1>6
  <2>2. ASSUME NEW i \in DOMAIN ends, NEW j \in DOMAIN ends, pkt(i).id = pkt(j).id
        PROVE  pkt(i) = pkt(j)
    <3>1. i = j
      BY <1>2, <1>5, <1>6, <2>2
    <3> QED
      BY <3>1
  <2> HIDE DEF pkt
  <2> QED
    BY <1>6, <2>1, <2>2 DEF N
<1> HIDE DEF N
<1>9. /\ Requests' /\ pid' = pid + Len(ends)
      /\ \A p \in sent' : IsPacket(p) /\ p.id < pid'
      /\ \A p, q \in sent' : p.id = q.id => p = q
  BY <1>1, <1>3, <1>5, <1>7, <1>8, SendType
<1>10. UNCHANGED <<lastSeen, ahead, agenda, outbox, log, fresh, filter, known, existing, missed>>
  BY DEF SetLink, coordinator, controllers
<1>11. TypeOK'
  BY <1>1, <1>3, <1>4, <1>9, <1>10 DEF TypeOK
<1>12. \A p \in sent' \ sent : p.id >= pid
  BY <1>3, <1>8
<1>13. sent \subseteq sent' /\ pid' \in Nat /\ pid <= pid'
  BY <1>2, <1>3, <1>5, <1>9
<1> QED
  BY <1>2, <1>9, <1>10, <1>11, <1>12, <1>13, SendingKeepsIInv DEF coordinator, controllers

-----------------------------------------------------------------------------
\* The coordinator and its controllers.

\* A time that is still to come is forgotten, so the delay is always the same.
LEMMA DueIsConstant == ahead \in Nat => Due = 2 * Rtt /\ Due \in Nat /\ Due > 0
BY CoordinatorAssumption DEF Due, Spaced

LEMMA InitIInv == Init => IInv
<1>1. SUFFICES ASSUME Init PROVE IInv
  OBVIOUS
<1>2. pid = 0 /\ IsFiniteSet(sent)
  BY <1>1, FS_EmptySet DEF Init, pid
<1>3. log = <<>> /\ DOMAIN log = {} /\ log \in Seq(SUBSET Ids) /\ Accepted = {}
  BY <1>1, EmptySeq DEF Init, Accepted
<1>4. <<"UP">> \in Seq({"UP", "DOWN"}) /\ Len(<<"UP">>) = 1 /\ 1 \in 1..MaxVersion /\ 0 \in Ids
  BY CoordinatorAssumption DEF Ids
<1>5. TypeOK
  <2>1. hist \in [Links -> Seq({"UP", "DOWN"})] /\ \A l \in Links : Len(hist[l]) \in 1..MaxVersion
    BY <1>1, <1>4 DEF Init
  <2>2. known \in [Controllers -> [Links -> 1..MaxVersion]]
    BY <1>1, <1>4 DEF Init
  <2> QED
    BY <1>1, <1>3, <1>4, <2>1, <2>2 DEF Init, TypeOK
<1> QED
  BY <1>1, <1>2, <1>3, <1>5 DEF Init, IInv, Requests, Remembered, OneBatch, OnlyAccepted, Covered,
     DueGrows, NewestLast, Unheard, InTurn, OutFirst

\* Receive puts the identifier into the last batch of the log: a new one, if time
\* has passed since the last.
LEMMA ReceiveLogs ==
  ASSUME IInv, NEW p \in sent, Receive(p)
  PROVE  /\ log' \in Seq(SUBSET Ids) /\ log' # <<>>
         /\ DOMAIN log \subseteq DOMAIN log' /\ Len(log') \in DOMAIN log'
         /\ \A i \in DOMAIN log' : i \in Nat /\ i <= Len(log')
         /\ \A i \in DOMAIN log : log'[i] = log[i] \/ (~fresh /\ i = Len(log))
         /\ \A i \in DOMAIN log' : \A m : m \in log'[i] <=>
              (m = p.id /\ i = Len(log')) \/ (i \in DOMAIN log /\ m \in log[i])
         /\ fresh => Len(log') \notin DOMAIN log
         /\ ~fresh => Len(log') = Len(log) /\ Len(log) \in DOMAIN log
         /\ \A m : m \in Accepted' <=> m = p.id \/ m \in Accepted
<1>1. log \in Seq(SUBSET Ids) /\ DOMAIN log = 1..Len(log) /\ Len(log) \in Nat
  BY LenProperties DEF IInv, TypeOK
<1>2. p.id \in Ids /\ {p.id} \in SUBSET Ids
  BY DEF IInv, TypeOK, IsPacket
<1>3. CASE fresh
  <2>1. log' = Append(log, {p.id})
    BY <1>3 DEF Receive
  <2>2. /\ log' \in Seq(SUBSET Ids) /\ Len(log') = Len(log) + 1
        /\ \A i \in 1..Len(log) : log'[i] = log[i]
        /\ log'[Len(log) + 1] = {p.id}
    BY <1>1, <1>2, <2>1, AppendProperties
  <2>3. DOMAIN log' = 1..(Len(log) + 1)
    BY <2>2, LenProperties
  <2>4. \A i \in DOMAIN log' : \A m : m \in log'[i] <=>
           (m = p.id /\ i = Len(log')) \/ (i \in DOMAIN log /\ m \in log[i])
    BY <1>1, <2>2, <2>3
  <2>5. \A m : m \in Accepted' <=> m = p.id \/ m \in Accepted
    <3>1. \A m : m \in Accepted' <=> \E i \in DOMAIN log' : m \in log'[i]
      BY DEF Accepted
    <3>2. \A m : m \in Accepted <=> \E i \in DOMAIN log : m \in log[i]
      BY DEF Accepted
    <3>3. Len(log') \in DOMAIN log' /\ DOMAIN log \subseteq DOMAIN log'
      BY <1>1, <2>2, <2>3
    <3> QED
      BY <2>4, <3>1, <3>2, <3>3
  <2>6. log' # <<>>
    BY <1>1, <2>2, EmptySeq
  <2>7. /\ DOMAIN log \subseteq DOMAIN log' /\ Len(log') \in DOMAIN log'
        /\ \A i \in DOMAIN log' : i \in Nat /\ i <= Len(log')
        /\ Len(log') \notin DOMAIN log
    BY <1>1, <2>2, <2>3
  <2>8. \A i \in DOMAIN log : log'[i] = log[i]
    BY <1>1, <2>2
  <2>9. \A i \in DOMAIN log : log'[i] = log[i] \/ (~fresh /\ i = Len(log))
    BY <2>8
  <2>10. ~fresh => Len(log') = Len(log) /\ Len(log) \in DOMAIN log
    BY <1>3
  <2> QED
    BY <2>2, <2>4, <2>5, <2>6, <2>7, <2>9, <2>10
<1>4. CASE ~fresh
  <2>1. log' = [log EXCEPT ![Len(log)] = log[Len(log)] \cup {p.id}]
    BY <1>4 DEF Receive
  <2>2. log # <<>> /\ Len(log) \in DOMAIN log
    BY <1>1, <1>4, EmptySeq DEF IInv, Unheard
  <2>3. (log[Len(log)] \cup {p.id}) \in SUBSET Ids
    BY <1>1, <1>2, <2>2, ElementOfSeq
  <2>4. /\ log' \in Seq(SUBSET Ids) /\ Len(log') = Len(log)
        /\ \A i \in 1..Len(log) :
             log'[i] = IF i = Len(log) THEN log[Len(log)] \cup {p.id} ELSE log[i]
    BY <1>1, <2>1, <2>2, <2>3, ExceptSeq
  <2>5. DOMAIN log' = DOMAIN log
    BY <1>1, <2>4, LenProperties
  <2>6. \A i \in DOMAIN log' : \A m : m \in log'[i] <=>
           (m = p.id /\ i = Len(log')) \/ (i \in DOMAIN log /\ m \in log[i])
    BY <1>1, <2>2, <2>4, <2>5
  <2>7. \A m : m \in Accepted' <=> m = p.id \/ m \in Accepted
    <3>1. \A m : m \in Accepted' <=> \E i \in DOMAIN log' : m \in log'[i]
      BY DEF Accepted
    <3>2. \A m : m \in Accepted <=> \E i \in DOMAIN log : m \in log[i]
      BY DEF Accepted
    <3>3. Len(log') \in DOMAIN log'
      BY <2>2, <2>4, <2>5
    <3> QED
      BY <2>5, <2>6, <3>1, <3>2, <3>3
  <2>8. log' # <<>>
    BY <1>1, <2>2, <2>4, EmptySeq
  <2>9. /\ DOMAIN log \subseteq DOMAIN log' /\ Len(log') \in DOMAIN log'
        /\ \A i \in DOMAIN log' : i \in Nat /\ i <= Len(log')
    <3>1. DOMAIN log' = 1..Len(log) /\ Len(log') = Len(log) /\ Len(log) \in 1..Len(log)
      BY <1>1, <2>2, <2>4, <2>5
    <3> QED
      BY <1>1, <3>1
  <2>10. \A i \in DOMAIN log : log'[i] = log[i] \/ (~fresh /\ i = Len(log))
    BY <1>1, <1>4, <2>4
  <2> QED
    BY <1>4, <2>2, <2>4, <2>6, <2>7, <2>8, <2>9, <2>10
<1> QED
  BY <1>3, <1>4

\* A packet that the coordinator takes was not accepted before.
LEMMA ReceiveIsNew ==
  ASSUME IInv, NEW p \in sent, Receive(p)
  PROVE  p.id \notin Accepted /\ p.id \in Ids
<1>1. p.id \in Nat /\ p.dst \in Controllers \cup {ALL} /\ p.id \in Ids
  BY DEF IInv, TypeOK, IsPacket, Ids
<1>2. lastSeen[p.dst] \in Nat /\ lastSeen[p.dst] < p.id
  BY <1>1 DEF IInv, TypeOK, Ids, Receive, Newer
<1> QED
  BY <1>1, <1>2 DEF IInv, Remembered

LEMMA ReceiveKeepsIInv ==
  ASSUME IInv, NEW p \in sent, Receive(p)
  PROVE  IInv'
<1> DEFINE e0 == [pkt |-> p, due |-> Due]
           n == Len(log')
<1>1. /\ TypeOK /\ Requests /\ Remembered /\ OneBatch /\ OnlyAccepted /\ Covered
      /\ DueGrows /\ NewestLast /\ Unheard /\ InTurn /\ OutFirst
  BY DEF IInv
<1>2. /\ lastSeen' = [lastSeen EXCEPT ![p.dst] = p.id] /\ ahead' = Due
      /\ agenda' = agenda \cup {e0} /\ fresh' = FALSE
      /\ UNCHANGED <<hist, sent, outbox, filter, known, existing, missed>> /\ pid' = pid
  BY DEF Receive, controllers, pid
<1>3. p.id \notin Accepted /\ p.id \in Ids
  BY ReceiveIsNew
<1>4. /\ log' \in Seq(SUBSET Ids) /\ log' # <<>>
      /\ DOMAIN log \subseteq DOMAIN log' /\ n \in DOMAIN log'
      /\ \A i \in DOMAIN log' : i \in Nat /\ i <= n
      /\ \A i \in DOMAIN log' : \A m : m \in log'[i] <=> (m = p.id /\ i = n) \/ (i \in DOMAIN log /\ m \in log[i])
      /\ fresh => n \notin DOMAIN log
      /\ ~fresh => n = Len(log) /\ Len(log) \in DOMAIN log
      /\ \A m : m \in Accepted' <=> m = p.id \/ m \in Accepted
  BY ReceiveLogs
<1> HIDE DEF n
<1>5. Due = 2 * Rtt /\ Due \in Nat /\ Due > 0
  BY <1>1, DueIsConstant DEF TypeOK
<1>6. e0.pkt = p /\ e0.due = 2 * Rtt /\ e0.due > 0 /\ e0 \in [pkt : sent, due : Nat]
  BY <1>5
<1> HIDE DEF e0
<1>7. TypeOK'
  <2>1. lastSeen' \in [Controllers \cup {ALL} -> Ids]
    BY <1>1, <1>2, <1>3 DEF TypeOK
  <2> QED
    BY <1>1, <1>2, <1>4, <1>5, <1>6, <2>1 DEF TypeOK
<1>8. Requests'
  BY <1>1, <1>2 DEF Requests
<1>9. Remembered'
  <2>1. SUFFICES ASSUME NEW q \in sent, q.id \in Accepted' PROVE q.id <= lastSeen'[q.dst]
    BY <1>2 DEF Remembered
  <2>2. p.id \in Nat /\ q.id \in Nat /\ p.dst \in Controllers \cup {ALL} /\ q.dst \in Controllers \cup {ALL}
    BY <1>1 DEF TypeOK, IsPacket, Ids
  <2>3. lastSeen \in [Controllers \cup {ALL} -> Nat] /\ lastSeen[p.dst] < p.id
    BY <1>1 DEF TypeOK, Ids, Receive, Newer
  <2>4. CASE q = p
    BY <1>2, <2>2, <2>3, <2>4
  <2>5. CASE q # p
    <3>1. q.id # p.id
      BY <1>1, <2>5 DEF TypeOK
    <3>2. q.id <= lastSeen[q.dst]
      BY <1>1, <1>4, <2>1, <3>1 DEF Remembered
    <3>3. lastSeen[q.dst] <= lastSeen'[q.dst]
      BY <1>2, <2>2, <2>3
    <3>4. lastSeen[q.dst] \in Nat /\ lastSeen'[q.dst] \in Nat
      BY <1>2, <2>2, <2>3
    <3> QED
      BY <2>2, <3>2, <3>3, <3>4
  <2> QED
    BY <2>4, <2>5
<1>10. \A i \in DOMAIN log : \A m \in log[i] : m \in Accepted
  BY DEF Accepted
<1>11. OneBatch'
  BY <1>1, <1>3, <1>4, <1>10 DEF OneBatch
<1>12. OnlyAccepted'
  BY <1>1, <1>2, <1>4, <1>6 DEF OnlyAccepted, TypeOK
<1>13. Covered'
  BY <1>1, <1>2, <1>4, <1>6 DEF Covered
<1>14. \A e \in agenda : e.pkt.id \in Accepted /\ e.pkt.id # p.id /\ e.due \in Nat
  BY <1>1, <1>3 DEF OnlyAccepted, TypeOK
<1>15. \A x \in outbox : x[2].id \in Accepted /\ x[2].id # p.id
  BY <1>1, <1>3 DEF OnlyAccepted
<1>16. DueGrows'
  <2>1. SUFFICES ASSUME NEW i \in DOMAIN log', NEW j \in DOMAIN log', NEW e \in agenda', NEW f \in agenda',
                        i < j, e.pkt.id \in log'[i], f.pkt.id \in log'[j]
                 PROVE  e.due < f.due
    BY DEF DueGrows
  <2>2. i # n /\ i \in DOMAIN log /\ e.pkt.id \in log[i] /\ i \in Nat /\ j \in Nat /\ n \in Nat
    BY <1>4, <2>1
  <2>3. e \in agenda
    BY <1>2, <1>3, <1>6, <1>10, <2>2
  <2>4. CASE f = e0
    <3>1. e.due # 2 * Rtt
      BY <1>1, <1>4, <2>2, <2>3 DEF NewestLast, OneBatch
    <3> QED
      BY <1>1, <1>6, <1>14, <2>3, <2>4, <3>1, CoordinatorAssumption DEF NewestLast
  <2>5. CASE f # e0
    <3>1. f \in agenda /\ j \in DOMAIN log /\ f.pkt.id \in log[j]
      BY <1>2, <1>4, <1>14, <2>1, <2>5
    <3> QED
      BY <1>1, <2>1, <2>2, <2>3, <3>1 DEF DueGrows
  <2> QED
    BY <2>4, <2>5
<1>17. NewestLast'
  <2>1. SUFFICES ASSUME NEW e \in agenda'
                 PROVE  e.due <= 2 * Rtt /\ (e.pkt.id \in log'[n] <=> e.due = 2 * Rtt)
    BY <1>2 DEF NewestLast, n
  <2>2. CASE e = e0
    BY <1>4, <1>6, <2>2
  <2>3. CASE e # e0
    <3>1. e \in agenda /\ e.pkt.id # p.id
      BY <1>2, <1>14, <2>3
    <3>2. e.pkt.id \in log'[n] <=> ~fresh /\ e.pkt.id \in log[Len(log)]
      BY <1>4, <3>1
    <3> QED
      BY <1>1, <3>1, <3>2 DEF NewestLast
  <2> QED
    BY <2>2, <2>3
<1>18. Unheard'
  <2>1. SUFFICES /\ \A c \in Controllers : \A m \in log'[n] : m \notin filter[c]
                 /\ \A x \in outbox : x[2].id \notin log'[n]
    BY <1>2, <1>4 DEF Unheard, n
  <2>2. \A m \in log'[n] : m = p.id \/ (~fresh /\ m \in log[Len(log)])
    BY <1>4
  <2>3. \A c \in Controllers : p.id \notin filter[c]
    BY <1>1, <1>3 DEF OnlyAccepted
  <2> QED
    BY <1>1, <1>15, <2>2, <2>3 DEF Unheard
<1>19. InTurn'
  <2>1. SUFFICES ASSUME NEW x \in outbox, NEW i \in DOMAIN log', NEW j \in DOMAIN log',
                        i < j, x[2].id \in log'[j], NEW m \in log'[i]
                 PROVE  m \in filter[x[1]]
    BY <1>2 DEF InTurn
  <2>2. j \in DOMAIN log /\ x[2].id \in log[j]
    BY <1>4, <1>15, <2>1
  <2>3. i # n /\ i \in DOMAIN log /\ m \in log[i]
    BY <1>4, <2>1
  <2> QED
    BY <1>1, <2>1, <2>2, <2>3 DEF InTurn
<1>20. OutFirst'
  <2>1. SUFFICES ASSUME NEW x \in outbox, NEW e \in agenda', NEW i \in DOMAIN log', NEW j \in DOMAIN log',
                        i < j, x[2].id \in log'[i], e.pkt.id \in log'[j]
                 PROVE  e.due > 0
    BY <1>2 DEF OutFirst
  <2>2. CASE e = e0
    BY <1>6, <2>2
  <2>3. CASE e # e0
    <3>1. e \in agenda /\ e.pkt.id # p.id
      BY <1>2, <1>14, <2>3
    <3>2. j \in DOMAIN log /\ e.pkt.id \in log[j] /\ i \in DOMAIN log /\ x[2].id \in log[i]
      BY <1>4, <1>15, <2>1, <3>1
    <3> QED
      BY <1>1, <2>1, <3>1, <3>2 DEF OutFirst
  <2> QED
    BY <2>2, <2>3
<1> QED
  BY <1>7, <1>8, <1>9, <1>11, <1>12, <1>13, <1>16, <1>17, <1>18, <1>19, <1>20 DEF IInv

LEMMA SendToControllerKeepsIInv ==
  ASSUME IInv, NEW e \in agenda, SendToController(e)
  PROVE  IInv'
<1>1. /\ TypeOK /\ Requests /\ Remembered /\ OneBatch /\ OnlyAccepted /\ Covered
      /\ DueGrows /\ NewestLast /\ Unheard /\ InTurn /\ OutFirst
  BY DEF IInv
<1>2. /\ e.due = 0 /\ agenda' = agenda \ {e}
      /\ outbox' = outbox \cup {<<c, e.pkt>> : c \in Controllers}
      /\ UNCHANGED <<hist, sent, lastSeen, ahead, log, fresh, filter, known, existing, missed>>
      /\ pid' = pid /\ Accepted' = Accepted
  BY DEF SendToController, Audience, controllers, pid, Accepted
<1>3. e.pkt \in sent /\ e.pkt.id \in Accepted
  BY <1>1 DEF TypeOK, OnlyAccepted
<1>4. \A x \in outbox' : x \in outbox \/ (x[1] \in Controllers /\ x[2] = e.pkt)
  BY <1>2
<1>5. TypeOK' /\ Requests' /\ Remembered' /\ OneBatch'
  <2>1. outbox' \subseteq Controllers \X sent
    BY <1>1, <1>2, <1>3 DEF TypeOK
  <2> QED
    BY <1>1, <1>2, <2>1 DEF TypeOK, Requests, Remembered, OneBatch
<1>6. OnlyAccepted' /\ DueGrows' /\ NewestLast'
  BY <1>1, <1>2, <1>3, <1>4 DEF OnlyAccepted, DueGrows, NewestLast
<1>7. Covered'
  <2>1. SUFFICES ASSUME NEW c \in Controllers, NEW m \in Accepted
                 PROVE  \/ m \in filter[c]
                        \/ \E f \in agenda' : f.pkt.id = m
                        \/ \E x \in outbox' : x[1] = c /\ x[2].id = m
    BY <1>2 DEF Covered
  <2>2. CASE m = e.pkt.id
    <3>1. <<c, e.pkt>> \in outbox'
      BY <1>2
    <3> QED
      BY <2>2, <3>1
  <2>3. CASE m # e.pkt.id
    BY <1>1, <1>2, <2>3 DEF Covered
  <2> QED
    BY <2>2, <2>3
<1>8. Unheard'
  <2>1. ~fresh => e.pkt.id \notin log[Len(log)]
    BY <1>1, <1>2, CoordinatorAssumption DEF NewestLast
  <2> QED
    BY <1>1, <1>2, <1>4, <2>1 DEF Unheard
<1>9. InTurn'
  <2>1. SUFFICES ASSUME NEW c \in Controllers, NEW i \in DOMAIN log, NEW j \in DOMAIN log,
                        i < j, e.pkt.id \in log[j], NEW m \in log[i]
                 PROVE  m \in filter[c]
    BY <1>1, <1>2, <1>4 DEF InTurn
  <2>2. m \in Accepted
    BY DEF Accepted
  <2>3. ASSUME NEW f \in agenda, f.pkt.id = m PROVE FALSE
    <3>1. f.due < e.due
      BY <1>1, <2>1, <2>3 DEF DueGrows
    <3> QED
      BY <1>1, <1>2, <3>1 DEF TypeOK
  <2>4. ASSUME NEW x \in outbox, x[2].id = m PROVE FALSE
    BY <1>1, <1>2, <2>1, <2>4 DEF OutFirst
  <2> QED
    BY <1>1, <2>2, <2>3, <2>4 DEF Covered
<1>10. OutFirst'
  <2>1. SUFFICES ASSUME NEW f \in agenda, NEW i \in DOMAIN log, NEW j \in DOMAIN log,
                        i < j, e.pkt.id \in log[i], f.pkt.id \in log[j]
                 PROVE  f.due > 0
    BY <1>1, <1>2, <1>4 DEF OutFirst
  <2>2. e.due < f.due
    BY <1>1, <2>1 DEF DueGrows
  <2> QED
    BY <1>2, <2>2
<1> QED
  BY <1>5, <1>6, <1>7, <1>8, <1>9, <1>10 DEF IInv

LEMMA HandleKeepsIInv ==
  ASSUME IInv, NEW c \in Controllers, NEW p \in sent, Handle(c, p)
  PROVE  IInv'
<1>1. /\ TypeOK /\ Requests /\ Remembered /\ OneBatch /\ OnlyAccepted /\ Covered
      /\ DueGrows /\ NewestLast /\ Unheard /\ InTurn /\ OutFirst
  BY DEF IInv
<1>2. /\ <<c, p>> \in outbox /\ outbox' = outbox \ {<<c, p>>}
      /\ filter' = [filter EXCEPT ![c] = filter[c] \cup {p.id}]
      /\ UNCHANGED <<hist, sent, lastSeen, ahead, agenda, log, fresh>>
      /\ pid' = pid /\ Accepted' = Accepted
  BY DEF Handle, pid, Accepted
<1>3. p.id \in Accepted /\ p.id \in Ids
  BY <1>1, <1>2 DEF OnlyAccepted, TypeOK, IsPacket
<1>4. /\ filter' \in [Controllers -> SUBSET Ids]
      /\ \A d \in Controllers : filter[d] \subseteq filter'[d]
      /\ \A d \in Controllers : \A m \in filter'[d] : m \in filter[d] \/ (d = c /\ m = p.id)
      /\ p.id \in filter'[c]
  BY <1>1, <1>2, <1>3 DEF TypeOK
<1>5. TypeOK'
  <2>1. known' \in [Controllers -> [Links -> 1..MaxVersion]]
    <3>1. CASE UNCHANGED <<known, existing>>
      BY <1>1, <3>1 DEF TypeOK
    <3>2. CASE known' = [known EXCEPT ![c] =
                  [l \in Links |-> IF l \in Learns(c, p) THEN p.news[l].version ELSE known[c][l]]]
      <4>1. \A l \in Learns(c, p) : p.news[l].version \in 1..MaxVersion
        BY <1>1 DEF Learns, TypeOK, IsPacket
      <4>2. [l \in Links |-> IF l \in Learns(c, p) THEN p.news[l].version ELSE known[c][l]]
              \in [Links -> 1..MaxVersion]
        BY <1>1, <4>1 DEF TypeOK
      <4> QED
        BY <1>1, <3>2, <4>2 DEF TypeOK
    <3> QED
      BY <3>1, <3>2 DEF Handle, Process, Discard
  <2>2. existing' \in [Controllers -> SUBSET Links]
    <3>1. Learns(c, p) \subseteq Links
      BY <1>1 DEF Learns, TypeOK, IsPacket
    <3>2. CASE UNCHANGED <<known, existing>>
      BY <1>1, <3>2 DEF TypeOK
    <3>3. CASE existing' = [existing EXCEPT ![c] =
                  (existing[c] \ Learns(c, p)) \cup {l \in Learns(c, p) : p.news[l].state = "UP"}]
      BY <1>1, <3>1, <3>3 DEF TypeOK
    <3> QED
      BY <3>2, <3>3 DEF Handle, Process, Discard
  <2>3. outbox' \subseteq Controllers \X sent
    BY <1>1, <1>2 DEF TypeOK
  <2>4. missed' \in [Controllers -> SUBSET Ids] /\ \A d \in Controllers : missed'[d] \subseteq filter'[d]
    <3>1. /\ missed \in [Controllers -> SUBSET Ids]
          /\ \A d \in Controllers : missed[d] \subseteq filter'[d]
      BY <1>1, <1>4 DEF TypeOK
    <3>2. CASE UNCHANGED missed
      BY <3>1, <3>2
    <3>3. CASE missed' = [missed EXCEPT ![c] = missed[c] \cup {p.id}]
      BY <1>3, <1>4, <3>1, <3>3
    <3> QED
      BY <3>2, <3>3 DEF Handle, Process, Discard
  <2> QED
    BY <1>1, <1>2, <1>4, <2>1, <2>2, <2>3, <2>4 DEF TypeOK
<1>6. Requests' /\ Remembered' /\ OneBatch' /\ DueGrows' /\ NewestLast' /\ OutFirst'
  BY <1>1, <1>2 DEF Requests, Remembered, OneBatch, DueGrows, NewestLast, OutFirst
<1>7. OnlyAccepted'
  BY <1>1, <1>2, <1>3, <1>4 DEF OnlyAccepted
<1>8. Covered'
  <2>1. SUFFICES ASSUME NEW d \in Controllers, NEW m \in Accepted, m \notin filter'[d],
                        ~\E e \in agenda : e.pkt.id = m
                 PROVE  \E x \in outbox' : x[1] = d /\ x[2].id = m
    BY <1>2 DEF Covered
  <2>2. PICK x \in outbox : x[1] = d /\ x[2].id = m
    BY <1>1, <1>4, <2>1 DEF Covered
  <2>3. x # <<c, p>>
    BY <1>4, <2>1, <2>2
  <2> QED
    BY <1>2, <2>2, <2>3
<1>9. Unheard'
  <2>1. ~fresh => p.id \notin log[Len(log)]
    BY <1>1, <1>2 DEF Unheard
  <2> QED
    BY <1>1, <1>2, <1>4, <2>1 DEF Unheard
<1>10. InTurn'
  <2>1. \A x \in outbox : x[1] \in Controllers
    BY <1>1 DEF TypeOK
  <2> QED
    BY <1>1, <1>2, <1>4, <2>1 DEF InTurn
<1> QED
  BY <1>5, <1>6, <1>7, <1>8, <1>9, <1>10 DEF IInv

LEMMA TickKeepsIInv == IInv /\ Tick => IInv'
<1>1. SUFFICES ASSUME IInv, Tick PROVE IInv'
  OBVIOUS
<1>2. /\ TypeOK /\ Requests /\ Remembered /\ OneBatch /\ OnlyAccepted /\ Covered
      /\ DueGrows /\ NewestLast /\ Unheard /\ InTurn /\ OutFirst
  BY <1>1 DEF IInv
<1> DEFINE later(e) == [e EXCEPT !.due = e.due - 1]
<1>3. /\ outbox = {} /\ \A e \in agenda : e.due > 0
      /\ ahead' = IF ahead > 0 THEN ahead - 1 ELSE 0
      /\ agenda' = {later(e) : e \in agenda} /\ fresh' = TRUE
      /\ UNCHANGED <<hist, sent, lastSeen, outbox, filter, known, existing, missed, log>>
      /\ pid' = pid /\ Accepted' = Accepted
  BY <1>1 DEF Tick, Calm, controllers, pid, Accepted
<1>4. \A e \in agenda : e \in [pkt : sent, due : Nat]
  BY <1>2 DEF TypeOK
<1>5. \A e \in agenda : later(e).pkt = e.pkt /\ later(e).due = e.due - 1 /\ later(e).due \in Nat
  BY <1>3, <1>4
<1> HIDE DEF later
<1>6. TypeOK'
  <2>1. agenda' \subseteq [pkt : sent, due : Nat]
    BY <1>3, <1>4 DEF later
  <2>2. ahead' \in Nat
    BY <1>2, <1>3 DEF TypeOK
  <2> QED
    BY <1>2, <1>3, <2>1, <2>2 DEF TypeOK
<1>7. Requests' /\ Remembered' /\ OneBatch' /\ Unheard' /\ InTurn' /\ OutFirst'
  BY <1>2, <1>3 DEF Requests, Remembered, OneBatch, Unheard, InTurn, OutFirst
<1>8. OnlyAccepted'
  BY <1>2, <1>3, <1>5 DEF OnlyAccepted
<1>9. Covered'
  BY <1>2, <1>3, <1>5 DEF Covered
<1>10. DueGrows'
  <2>1. SUFFICES ASSUME NEW i \in DOMAIN log, NEW j \in DOMAIN log, NEW e \in agenda, NEW f \in agenda,
                        i < j, e.pkt.id \in log[i], f.pkt.id \in log[j]
                 PROVE  e.due - 1 < f.due - 1
    BY <1>3, <1>5 DEF DueGrows
  <2>2. e.due < f.due /\ e.due \in Nat /\ f.due \in Nat
    BY <1>2, <1>4, <2>1 DEF DueGrows
  <2> QED
    BY <2>2
<1>11. NewestLast'
  <2>1. SUFFICES ASSUME NEW e \in agenda PROVE later(e).due <= 2 * Rtt /\ later(e).due # 2 * Rtt
    BY <1>3 DEF NewestLast
  <2>2. e.due <= 2 * Rtt /\ e.due \in Nat /\ later(e).due = e.due - 1
    BY <1>2, <1>4, <1>5 DEF NewestLast
  <2> QED
    BY <2>2, CoordinatorAssumption
<1> QED
  BY <1>6, <1>7, <1>8, <1>9, <1>10, <1>11 DEF IInv

LEMMA NextKeepsIInv == IInv /\ [Next]_vars => IInv'
<1>1. SUFFICES ASSUME IInv, [Next]_vars PROVE IInv'
  OBVIOUS
<1>2. ASSUME NEW l \in Links, NEW st \in {"UP", "DOWN"}, SetLink(l, st) PROVE IInv'
  BY <1>1, <1>2, SetLinkKeepsIInv
<1>3. ASSUME NEW c \in Controllers, SendSwitchInfoRequest(c) PROVE IInv'
  BY <1>1, <1>3, SendSwitchInfoRequestKeepsIInv
<1>4. ASSUME NEW s \in Switches, NEW req \in sent, Answer(s, req) PROVE IInv'
  BY <1>1, <1>4, AnswerKeepsIInv
<1>5. ASSUME NEW p \in sent, Receive(p) PROVE IInv'
  BY <1>1, <1>5, ReceiveKeepsIInv
<1>6. ASSUME NEW e \in agenda, SendToController(e) PROVE IInv'
  BY <1>1, <1>6, SendToControllerKeepsIInv
<1>7. ASSUME NEW call \in outbox, Handle(call[1], call[2]) PROVE IInv'
  <2>1. call[1] \in Controllers /\ call[2] \in sent
    BY <1>1 DEF IInv, TypeOK
  <2> QED
    BY <1>1, <1>7, <2>1, HandleKeepsIInv
<1>8. CASE Tick
  BY <1>1, <1>8, TickKeepsIInv
<1>9. CASE UNCHANGED vars
  <2>1. /\ UNCHANGED <<hist, sent, lastSeen, ahead, agenda, outbox, filter, known, existing,
                       missed, log, fresh>>
        /\ pid' = pid /\ Accepted' = Accepted
    BY <1>9 DEF vars, pid, Accepted
  <2> QED
    BY <1>1, <2>1 DEF IInv, TypeOK, Requests, Remembered, OneBatch, OnlyAccepted, Covered,
       DueGrows, NewestLast, Unheard, InTurn, OutFirst
<1> QED
  BY <1>1, <1>2, <1>3, <1>4, <1>5, <1>6, <1>7, <1>8, <1>9 DEF Next

-----------------------------------------------------------------------------
\* The inductive invariant: how far each accepted packet has come.
THEOREM InvariantHolds == Spec => []IInv
BY InitIInv, NextKeepsIInv, PTL DEF Spec

\* What is sent, scheduled and believed is well-formed, and no identifier is used
\* twice although both ends of a link send at once (packet.cc:5, switch.cc:29-37).
THEOREM TypeCorrect == Spec => []TypeOK
<1>1. IInv => TypeOK
  BY DEF IInv
<1> QED
  BY <1>1, InvariantHolds, PTL

\* No packet waits longer than 2 * _rtt at the coordinator, however many came
\* before it (coord_controller.cc:21-25).
THEOREM DelayIsBounded == Spec => []DelayBounded
<1>1. IInv => DelayBounded
  BY DEF IInv, NewestLast, DelayBounded
<1> QED
  BY <1>1, InvariantHolds, PTL

LEMMA InitRefines == Init => Ordered!Init
BY DEF Init, Ordered!Init

LEMMA StepRefines == IInv /\ [Next]_vars => [Ordered!Next]_<<log, filter>>
<1>1. SUFFICES ASSUME IInv, [Next]_vars PROVE [Ordered!Next]_<<log, filter>>
  OBVIOUS
<1>2. ASSUME UNCHANGED <<log, filter>> PROVE [Ordered!Next]_<<log, filter>>
  BY <1>2
<1>3. ASSUME NEW p \in sent, Receive(p) PROVE Ordered!Next
  <2>1. p.id \notin Accepted /\ p.id \in Ids
    BY <1>1, <1>3, ReceiveIsNew
  <2>2. UNCHANGED filter
    BY <1>3 DEF Receive, controllers
  <2>3. CASE fresh
    <3>1. log' = Append(log, {p.id})
      BY <1>3, <2>3 DEF Receive
    <3> QED
      BY <2>1, <2>2, <3>1 DEF Ordered!Next, Ordered!Accept, Ordered!Logged, Accepted
  <2>4. CASE ~fresh
    <3>1. log' = [log EXCEPT ![Len(log)] = log[Len(log)] \cup {p.id}]
      BY <1>3, <2>4 DEF Receive
    <3>2. log # <<>> /\ \A c \in Controllers : filter[c] \cap log[Len(log)] = {}
      BY <1>1, <2>4 DEF IInv, Unheard
    <3> QED
      BY <2>1, <2>2, <3>1, <3>2 DEF Ordered!Next, Ordered!Accept, Ordered!Logged, Accepted
  <2> QED
    BY <2>3, <2>4
<1>4. ASSUME NEW c \in Controllers, NEW p \in sent, Handle(c, p)
      PROVE  [Ordered!Next]_<<log, filter>>
  <2>1. /\ <<c, p>> \in outbox /\ filter' = [filter EXCEPT ![c] = filter[c] \cup {p.id}]
        /\ UNCHANGED log
    BY <1>4 DEF Handle
  <2>2. CASE p.id \in filter[c]
    <3>1. filter \in [Controllers -> SUBSET Ids] /\ filter[c] \cup {p.id} = filter[c]
      BY <1>1, <2>2 DEF IInv, TypeOK
    <3>2. UNCHANGED <<log, filter>>
      BY <2>1, <3>1
    <3> QED
      BY <1>2, <3>2
  <2>3. CASE p.id \notin filter[c]
    <3>1. p.id \in Ids /\ p.id \in Accepted
      BY <1>1, <2>1 DEF IInv, TypeOK, IsPacket, OnlyAccepted
    <3>2. PICK j \in DOMAIN log : p.id \in log[j]
      BY <3>1 DEF Accepted
    <3>3. DOMAIN log = 1..Len(log) /\ Len(log) \in Nat
      BY <1>1, LenProperties DEF IInv, TypeOK
    <3>4. \A i \in 1..j - 1 : i \in DOMAIN log /\ i < j
      BY <3>2, <3>3
    <3>5. \A i \in 1..j - 1 : log[i] \subseteq filter[c]
      BY <1>1, <2>1, <3>2, <3>4 DEF IInv, InTurn
    <3>6. Ordered!Hand(c, p.id)
      BY <2>1, <2>3, <3>2, <3>5 DEF Ordered!Hand
    <3> QED
      BY <3>1, <3>6 DEF Ordered!Next
  <2> QED
    BY <2>2, <2>3
<1>5. ASSUME NEW call \in outbox, Handle(call[1], call[2]) PROVE [Ordered!Next]_<<log, filter>>
  <2>1. call[1] \in Controllers /\ call[2] \in sent
    BY <1>1 DEF IInv, TypeOK
  <2> QED
    BY <1>4, <1>5, <2>1
<1>6. ASSUME NEW l \in Links, NEW st \in {"UP", "DOWN"}, SetLink(l, st) PROVE UNCHANGED <<log, filter>>
  BY <1>6 DEF SetLink, coordinator, controllers
<1>7. ASSUME NEW c \in Controllers, SendSwitchInfoRequest(c) PROVE UNCHANGED <<log, filter>>
  BY <1>7 DEF SendSwitchInfoRequest, coordinator, controllers
<1>8. ASSUME NEW s \in Switches, NEW req \in sent, Answer(s, req) PROVE UNCHANGED <<log, filter>>
  BY <1>8 DEF Answer, coordinator, controllers
<1>9. ASSUME NEW e \in agenda, SendToController(e) PROVE UNCHANGED <<log, filter>>
  BY <1>9 DEF SendToController, controllers
<1>10. ASSUME Tick PROVE UNCHANGED <<log, filter>>
  BY <1>10 DEF Tick, controllers
<1>11. ASSUME UNCHANGED vars PROVE UNCHANGED <<log, filter>>
  BY <1>11 DEF vars
<1> QED
  BY <1>1, <1>2, <1>3, <1>5, <1>6, <1>7, <1>8, <1>9, <1>10, <1>11 DEF Next

\* The coordinator hands all controllers the packets in the same order, but for
\* those accepted at one instant, and each of them once, whatever the network does
\* (coord_controller.cc:17-36).
THEOREM CoordinatorIsBroadcast == Spec => ImplementsBroadcast
<1>1. Spec => []IInv
  BY InvariantHolds
<1>2. Ordered!Spec <=> Ordered!Init /\ [][Ordered!Next]_<<log, filter>>
  BY DEF Ordered!Spec
<1> QED
  BY <1>1, <1>2, InitRefines, StepRefines, PTL DEF Spec, ImplementsBroadcast

-----------------------------------------------------------------------------
(* What the controllers make of the packets they are handed.               *)

\* Whatever was sent tells of a link what it was at that version.
NewsTrue ==
  \A p \in sent : \A l \in DOMAIN p.news :
    p.news[l].version <= Len(hist[l]) /\ p.news[l].state = hist[l][p.news[l].version]

\* A controller believes of a link what it was at the version it knows.
BeliefTrue ==
  \A c \in Controllers, l \in Links :
    /\ known[c][l] <= Len(hist[l])
    /\ l \in existing[c] <=> hist[l][known[c][l]] = "UP"

\* A packet that controller c has processed.
Processed(c, p) == p.id \in filter[c] \ missed[c] /\ p.dst \in {c, ALL}

\* A controller knows the newest of what it was told, and only that.
NewestKnown ==
  \A c \in Controllers :
    /\ \A p \in sent : Processed(c, p) => \A l \in DOMAIN p.news : p.news[l].version <= known[c][l]
    /\ \A l \in Links :
         \/ known[c][l] = 1
         \/ \E p \in sent : Processed(c, p) /\ l \in DOMAIN p.news /\ p.news[l].version = known[c][l]

\* The inductive invariant behind ViewsAgree.
ViewInv == IInv /\ NewsTrue /\ BeliefTrue /\ NewestKnown

\* A link's past does not change when its state does.
PastKept ==
  \A l \in Links : /\ Len(hist[l]) \in Nat /\ Len(hist'[l]) \in Nat /\ Len(hist[l]) <= Len(hist'[l])
                   /\ \A v \in 1..Len(hist[l]) : hist'[l][v] = hist[l][v]

\* What was sent and believed stays true, and a new packet that tells the truth
\* keeps the invariant as long as nobody has been handed it.
LEMMA SendingKeepsViewInv ==
  ASSUME ViewInv, IInv', PastKept, UNCHANGED controllers, sent \subseteq sent',
         \A p \in sent' \ sent : p.id >= pid /\
           \A l \in DOMAIN p.news :
             p.news[l].version = Len(hist'[l]) /\ p.news[l].state = hist'[l][p.news[l].version]
  PROVE  ViewInv'
<1>1. TypeOK /\ TypeOK' /\ OnlyAccepted
  BY DEF ViewInv, IInv
<1>2. UNCHANGED <<filter, known, existing, missed>>
  BY DEF controllers
<1>3. NewsTrue'
  <2>1. SUFFICES ASSUME NEW p \in sent', NEW l \in DOMAIN p.news
                 PROVE  /\ p.news[l].version <= Len(hist'[l])
                        /\ p.news[l].state = hist'[l][p.news[l].version]
    BY DEF NewsTrue
  <2>2. l \in Links /\ p.news[l].version \in Nat \ {0}
    BY <1>1, <2>1, CoordinatorAssumption DEF TypeOK, IsPacket
  <2>3. CASE p \in sent
    <3>1. p.news[l].version <= Len(hist[l]) /\ p.news[l].state = hist[l][p.news[l].version]
      BY <2>1, <2>3 DEF ViewInv, NewsTrue
    <3>2. p.news[l].version \in 1..Len(hist[l])
      BY <2>2, <3>1 DEF PastKept
    <3> QED
      BY <2>2, <3>1, <3>2 DEF PastKept
  <2>4. CASE p \notin sent
    BY <2>1, <2>2, <2>4 DEF PastKept
  <2> QED
    BY <2>3, <2>4
<1>4. BeliefTrue'
  <2>1. SUFFICES ASSUME NEW c \in Controllers, NEW l \in Links
                 PROVE  /\ known[c][l] <= Len(hist'[l])
                        /\ l \in existing[c] <=> hist'[l][known[c][l]] = "UP"
    BY <1>2 DEF BeliefTrue
  <2>2. known[c][l] \in Nat \ {0} /\ known[c][l] <= Len(hist[l])
    BY <1>1, CoordinatorAssumption DEF ViewInv, BeliefTrue, TypeOK
  <2>3. known[c][l] \in 1..Len(hist[l]) /\ known[c][l] <= Len(hist'[l])
    BY <2>2 DEF PastKept
  <2> QED
    BY <2>3 DEF PastKept, ViewInv, BeliefTrue
<1>5. ASSUME NEW c \in Controllers, NEW p \in sent', Processed(c, p)'
      PROVE  p \in sent /\ Processed(c, p)
  <2>1. p.id \in filter[c] \ missed[c] /\ p.dst \in {c, ALL}
    BY <1>2, <1>5 DEF Processed
  <2>2. p.id < pid /\ p.id \in Nat /\ pid \in Nat
    BY <1>1, <2>1, FS_CardinalityType
       DEF ViewInv, IInv, Requests, OnlyAccepted, TypeOK, IsPacket, Ids, pid
  <2> QED
    BY <2>1, <2>2 DEF Processed
<1>6. ASSUME NEW c \in Controllers, NEW p \in sent, Processed(c, p) PROVE Processed(c, p)'
  BY <1>2, <1>6 DEF Processed
<1>7. NewestKnown'
  BY <1>2, <1>5, <1>6 DEF ViewInv, NewestKnown
<1> QED
  BY <1>3, <1>4, <1>7 DEF ViewInv

\* A packet tells the state of its links as it is when the packet is sent.
LEMMA TruthTrue ==
  ASSUME NEW h \in [Links -> Seq({"UP", "DOWN"})], NEW ls \in SUBSET Links,
         NEW l \in DOMAIN Truth(h, ls)
  PROVE  Truth(h, ls)[l].version = Len(h[l]) /\ Truth(h, ls)[l].state = h[l][Len(h[l])]
BY DEF Truth, Last

LEMMA SetLinkKeepsViewInv ==
  ASSUME ViewInv, NEW l \in Links, NEW st \in {"UP", "DOWN"}, SetLink(l, st)
  PROVE  ViewInv'
<1>1. IInv'
  BY SetLinkKeepsIInv DEF ViewInv
<1>2. hist \in [Links -> Seq({"UP", "DOWN"})] /\ hist' \in [Links -> Seq({"UP", "DOWN"})]
  BY <1>1 DEF ViewInv, IInv, TypeOK
<1>3. hist' = [hist EXCEPT ![l] = Append(hist[l], st)] /\ UNCHANGED controllers
  BY DEF SetLink
<1>4. PastKept
  <2>1. SUFFICES ASSUME NEW m \in Links
                 PROVE  /\ Len(hist[m]) \in Nat /\ Len(hist'[m]) \in Nat /\ Len(hist[m]) <= Len(hist'[m])
                        /\ \A v \in 1..Len(hist[m]) : hist'[m][v] = hist[m][v]
    BY DEF PastKept
  <2>2. hist[m] \in Seq({"UP", "DOWN"}) /\ hist'[m] = IF m = l THEN Append(hist[m], st) ELSE hist[m]
    BY <1>2, <1>3
  <2> QED
    BY <2>2, AppendProperties
<1> DEFINE ends == IF st = Last(hist[l]) THEN <<>> ELSE SetToSeq(Ends[l] \cap Switches)
           pkt(i) == [id |-> pid + i - 1, src |-> ends[i], dst |-> ALL, asks |-> FALSE,
                      news |-> Truth(hist', {l})]
<1>5. sent' = sent \cup {pkt(i) : i \in DOMAIN ends}
  BY DEF SetLink
<1>6. ends \in Seq(Switches) /\ pid \in Nat
  <2>1. Ends[l] \cap Switches \in SUBSET Nodes
    BY DEF Nodes
  <2>2. SetToSeq(Ends[l] \cap Switches) \in Seq(Switches)
    BY <2>1, TopologyAssumption, FS_Subset, SetToSeqType, SeqMonotonic
  <2> QED
    BY <2>2, EmptySeq, FS_CardinalityType DEF ViewInv, IInv, Requests, pid
<1> HIDE DEF ends
<1>7. ASSUME NEW p \in sent' \ sent
      PROVE  p.id >= pid /\
             \A m \in DOMAIN p.news :
               p.news[m].version = Len(hist'[m]) /\ p.news[m].state = hist'[m][p.news[m].version]
  <2>1. PICK i \in DOMAIN ends : p = pkt(i)
    BY <1>5
  <2>2. i \in Nat /\ i >= 1
    BY <1>6, LenProperties
  <2>3. p.id = pid + i - 1 /\ p.news = Truth(hist', {l})
    BY <2>1
  <2>4. p.id >= pid
    BY <1>6, <2>2, <2>3
  <2>5. \A m \in DOMAIN Truth(hist', {l}) :
          /\ Truth(hist', {l})[m].version = Len(hist'[m])
          /\ Truth(hist', {l})[m].state = hist'[m][Len(hist'[m])]
    BY <1>2, TruthTrue
  <2> QED
    BY <2>3, <2>4, <2>5
<1> QED
  BY <1>1, <1>3, <1>4, <1>5, <1>7, SendingKeepsViewInv

\* When no link changes.
LEMMA NoChange == hist \in [Links -> Seq({"UP", "DOWN"})] /\ UNCHANGED hist => PastKept
BY LenProperties DEF PastKept

LEMMA SendSwitchInfoRequestKeepsViewInv ==
  ASSUME ViewInv, NEW c \in Controllers, SendSwitchInfoRequest(c)
  PROVE  ViewInv'
<1>1. IInv' /\ PastKept
  BY SendSwitchInfoRequestKeepsIInv, NoChange DEF ViewInv, IInv, TypeOK, SendSwitchInfoRequest
<1>2. pid \in Nat
  BY FS_CardinalityType DEF ViewInv, IInv, Requests, pid
<1>3. sent \subseteq sent' /\ UNCHANGED controllers
      /\ \A p \in sent' \ sent : p.id >= pid /\ DOMAIN p.news = {}
  BY <1>2 DEF SendSwitchInfoRequest, Truth
<1> QED
  BY <1>1, <1>3, SendingKeepsViewInv

LEMMA AnswerKeepsViewInv ==
  ASSUME ViewInv, NEW s \in Switches, NEW req \in sent, Answer(s, req)
  PROVE  ViewInv'
<1>1. IInv' /\ PastKept
  BY AnswerKeepsIInv, NoChange DEF ViewInv, IInv, TypeOK, Answer
<1>2. pid \in Nat /\ hist \in [Links -> Seq({"UP", "DOWN"})] /\ UNCHANGED hist
  BY FS_CardinalityType DEF ViewInv, IInv, TypeOK, Requests, pid, Answer
<1> DEFINE p == [id |-> pid, src |-> s, dst |-> req.src, asks |-> FALSE,
                 news |-> Truth(hist, LinksOf(s))]
<1>3. sent' = sent \cup {p} /\ UNCHANGED controllers
  BY DEF Answer
<1>4. \A l \in DOMAIN p.news :
        p.news[l].version = Len(hist'[l]) /\ p.news[l].state = hist'[l][p.news[l].version]
  <2>1. LinksOf(s) \in SUBSET Links
    BY DEF LinksOf
  <2> QED
    BY <1>2, <2>1, TruthTrue
<1>5. p.id = pid
  OBVIOUS
<1> HIDE DEF p
<1>6. sent \subseteq sent' /\ \A q \in sent' \ sent : q = p
  BY <1>3
<1> QED
  BY <1>1, <1>2, <1>3, <1>4, <1>5, <1>6, SendingKeepsViewInv

\* What does not touch the controllers keeps what they know.
LEMMA SameViewsKeepViewInv ==
  ASSUME ViewInv, IInv', UNCHANGED <<hist, sent, filter, known, existing, missed>>
  PROVE  ViewInv'
BY DEF ViewInv, NewsTrue, BeliefTrue, NewestKnown, Processed

\* A controller that processes a packet takes over what is newer; one that drops it
\* takes over nothing.
LEMMA HandleKeepsViewInv ==
  ASSUME ViewInv, NEW c \in Controllers, NEW p \in sent, Handle(c, p)
  PROVE  ViewInv'
<1>1. IInv' /\ TypeOK /\ NewsTrue /\ BeliefTrue /\ NewestKnown
  BY HandleKeepsIInv DEF ViewInv, IInv
<1>2. UNCHANGED <<hist, sent>> /\ filter' = [filter EXCEPT ![c] = filter[c] \cup {p.id}]
  BY DEF Handle
<1>3. /\ filter \in [Controllers -> SUBSET Ids] /\ p.id \in Ids
      /\ known \in [Controllers -> [Links -> 1..MaxVersion]] /\ existing \in [Controllers -> SUBSET Links]
      /\ DOMAIN p.news \subseteq Links /\ \A l \in DOMAIN p.news : p.news[l].version \in 1..MaxVersion
      /\ \A q \in sent : q.id = p.id => q = p
      /\ missed \in [Controllers -> SUBSET Ids] /\ \A d \in Controllers : missed[d] \subseteq filter[d]
  BY <1>1 DEF TypeOK, IsPacket
<1>4. CASE p.id \in filter[c]
  <2>1. UNCHANGED <<filter, known, existing, missed>>
    BY <1>2, <1>3, <1>4 DEF Handle
  <2> QED
    BY <1>1, <1>2, <2>1, SameViewsKeepViewInv
<1>5. CASE p.id \notin filter[c] /\ Discard(c, p)
  <2>1. /\ UNCHANGED <<known, existing>>
        /\ missed' = [missed EXCEPT ![c] = missed[c] \cup {p.id}]
    BY <1>5 DEF Discard
  <2>2. \A d \in Controllers, q \in sent : Processed(d, q)' <=> Processed(d, q)
    BY <1>2, <1>3, <1>5, <2>1 DEF Processed
  <2> QED
    BY <1>1, <1>2, <2>1, <2>2 DEF ViewInv, NewsTrue, BeliefTrue, NewestKnown
<1>6. CASE p.id \notin filter[c] /\ Process(c, p)
  <2> DEFINE new == Learns(c, p)
  <2>1. /\ known' = [known EXCEPT ![c] =
                      [l \in Links |-> IF l \in new THEN p.news[l].version ELSE known[c][l]]]
        /\ existing' = [existing EXCEPT ![c] =
                          (existing[c] \ new) \cup {l \in new : p.news[l].state = "UP"}]
        /\ UNCHANGED missed /\ p.id \notin missed[c]
    BY <1>3, <1>6 DEF Process
  <2>2. /\ new \subseteq DOMAIN p.news
        /\ \A l \in DOMAIN p.news :
             p.dst \in {c, ALL} => (l \in new <=> p.news[l].version > known[c][l])
        /\ \A l \in new : p.dst \in {c, ALL} /\ p.news[l].version > known[c][l]
    BY DEF Learns
  <2> HIDE DEF new
  <2>3. /\ \A l \in Links : known'[c][l] = IF l \in new THEN p.news[l].version ELSE known[c][l]
        /\ \A d \in Controllers : d # c => known'[d] = known[d] /\ existing'[d] = existing[d]
    BY <1>3, <2>1
  <2>4. \A l \in Links : l \in existing'[c] <=>
          IF l \in new THEN p.news[l].state = "UP" ELSE l \in existing[c]
    <3>1. existing'[c] = (existing[c] \ new) \cup {l \in new : p.news[l].state = "UP"}
      BY <1>3, <2>1
    <3> QED
      BY <3>1
  <2>5. BeliefTrue'
    <3>1. SUFFICES ASSUME NEW d \in Controllers, NEW l \in Links
                   PROVE  /\ known'[d][l] <= Len(hist[l])
                          /\ l \in existing'[d] <=> hist[l][known'[d][l]] = "UP"
      BY <1>2 DEF BeliefTrue
    <3>2. CASE d = c /\ l \in new
      BY <1>1, <2>2, <2>3, <2>4, <3>2 DEF NewsTrue
    <3>3. CASE ~ (d = c /\ l \in new)
      <4>1. known'[d][l] = known[d][l] /\ (l \in existing'[d] <=> l \in existing[d])
        BY <2>3, <2>4, <3>3
      <4> QED
        BY <1>1, <4>1 DEF BeliefTrue
    <3> QED
      BY <3>2, <3>3
  <2>6. \A l \in Links : known[c][l] <= known'[c][l] /\ known[c][l] \in Nat /\ known'[c][l] \in Nat
    <3>1. SUFFICES ASSUME NEW l \in Links
                   PROVE known[c][l] <= known'[c][l] /\ known[c][l] \in Nat /\ known'[c][l] \in Nat
      OBVIOUS
    <3>2. known[c][l] \in Nat /\ (l \in new => p.news[l].version \in Nat /\ p.news[l].version > known[c][l])
      BY <1>3, <2>2, CoordinatorAssumption
    <3> QED
      BY <2>3, <3>2
  <2>7. ASSUME NEW q \in sent, Processed(c, q)' PROVE q = p \/ Processed(c, q)
    BY <1>2, <1>3, <2>1, <2>7 DEF Processed
  <2>8. \A q \in sent : Processed(c, q) => Processed(c, q)'
    BY <1>2, <1>3, <2>1 DEF Processed
  <2>9. \A d \in Controllers, q \in sent : d # c => (Processed(d, q)' <=> Processed(d, q))
    BY <1>2, <1>3, <2>1 DEF Processed
  <2>10. ASSUME NEW q \in sent, Processed(c, q)', NEW l \in DOMAIN q.news
         PROVE  q.news[l].version <= known'[c][l]
    <3>1. l \in Links /\ q.news[l].version \in Nat
      BY <1>1, CoordinatorAssumption DEF TypeOK, IsPacket
    <3>2. CASE q = p
      <4>1. p.dst \in {c, ALL}
        BY <1>2, <2>10, <3>2 DEF Processed
      <4>2. l \in new \/ q.news[l].version <= known[c][l]
        BY <1>3, <2>2, <2>6, <3>1, <3>2, <4>1
      <4> QED
        BY <2>3, <2>6, <3>1, <3>2, <4>2
    <3>3. CASE q # p
      <4>1. q.news[l].version <= known[c][l]
        BY <1>1, <2>7, <2>10, <3>3 DEF NewestKnown
      <4> QED
        BY <2>6, <3>1, <4>1
    <3> QED
      BY <3>2, <3>3
  <2>11. ASSUME NEW l \in Links, known'[c][l] # 1
         PROVE  \E q \in sent : Processed(c, q)' /\ l \in DOMAIN q.news /\ q.news[l].version = known'[c][l]
    <3>1. CASE l \in new
      <4>1. Processed(c, p)'
        BY <1>2, <1>3, <2>1, <2>2, <3>1 DEF Processed
      <4> QED
        BY <2>2, <2>3, <3>1, <4>1
    <3>2. CASE l \notin new
      BY <1>1, <2>3, <2>8, <2>11, <3>2 DEF NewestKnown
    <3> QED
      BY <3>1, <3>2
  <2>12. NewestKnown'
    <3>1. SUFFICES ASSUME NEW d \in Controllers
                   PROVE  /\ \A q \in sent : Processed(d, q)' =>
                               \A l \in DOMAIN q.news : q.news[l].version <= known'[d][l]
                          /\ \A l \in Links :
                               \/ known'[d][l] = 1
                               \/ \E q \in sent : Processed(d, q)' /\ l \in DOMAIN q.news
                                                  /\ q.news[l].version = known'[d][l]
      BY <1>2 DEF NewestKnown
    <3>2. CASE d = c
      BY <2>10, <2>11, <3>2
    <3>3. CASE d # c
      BY <1>1, <2>3, <2>9, <3>3 DEF NewestKnown
    <3> QED
      BY <3>2, <3>3
  <2> QED
    BY <1>1, <1>2, <2>5, <2>12 DEF ViewInv, NewsTrue
<1> QED
  BY <1>4, <1>5, <1>6 DEF Handle

LEMMA InitViewInv == Init => ViewInv
<1>1. SUFFICES ASSUME Init PROVE ViewInv
  OBVIOUS
<1>2. Len(<<"UP">>) = 1 /\ <<"UP">>[1] = "UP"
  OBVIOUS
<1> QED
  BY <1>1, <1>2, InitIInv DEF Init, ViewInv, NewsTrue, BeliefTrue, NewestKnown, Processed

\* The inductive invariant for the views: what travels, is scheduled or was handed
\* out is true, and a controller knows the newest of what it processed.
THEOREM ViewInvariantHolds == Spec => []ViewInv
<1>1. ViewInv /\ [Next]_vars => ViewInv'
  <2>1. SUFFICES ASSUME ViewInv, [Next]_vars PROVE ViewInv'
    OBVIOUS
  <2>2. IInv'
    BY <2>1, NextKeepsIInv DEF ViewInv
  <2>3. ASSUME NEW call \in outbox, Handle(call[1], call[2]) PROVE ViewInv'
    <3>1. call[1] \in Controllers /\ call[2] \in sent
      BY <2>1 DEF ViewInv, IInv, TypeOK
    <3> QED
      BY <2>1, <2>3, <3>1, HandleKeepsViewInv
  <2>4. ASSUME \/ \E p \in sent : Receive(p)
               \/ \E e \in agenda : SendToController(e)
               \/ Tick
               \/ UNCHANGED vars
        PROVE  UNCHANGED <<hist, sent, filter, known, existing, missed>>
    BY <2>4 DEF Receive, SendToController, Tick, controllers, vars
  <2> QED
    BY <2>1, <2>2, <2>3, <2>4, SetLinkKeepsViewInv, SendSwitchInfoRequestKeepsViewInv,
       AnswerKeepsViewInv, SameViewsKeepViewInv DEF Next
<1> QED
  BY InitViewInv, <1>1, PTL DEF Spec

\* A controller behind the coordinator believes of a link only what the link was,
\* however the network reorders and repeats packets and whatever the coordinator
\* drops (controller.cc:88-133).
THEOREM BeliefsAreTrue == Spec => []BeliefTrue
<1>1. ViewInv => BeliefTrue
  BY DEF ViewInv
<1> QED
  BY <1>1, ViewInvariantHolds, PTL

\* Once nothing is scheduled no controller is ahead of another on a link, unless a
\* switch told it alone or the other dropped that news, and where they know the same
\* version they agree (coord_controller.cc:17-36, controller.cc:38-50): they have
\* then been handed the same packets, each knows the newest of what those that it
\* processed tell it, and a version of a link means one state.
THEOREM ControllersAgree == Spec => []ViewsAgree
<1>1. ASSUME ViewInv PROVE ViewsAgree
  <2>1. SUFFICES ASSUME agenda = {}, outbox = {}, NEW c \in Controllers, NEW d \in Controllers,
                        NEW l \in Links
                 PROVE  /\ known[c][l] > known[d][l] => Excused(c, d, l)
                        /\ known[c][l] = known[d][l] => (l \in existing[c] <=> l \in existing[d])
    BY DEF ViewsAgree
  <2>2. filter[c] = filter[d]
    BY <1>1, <2>1 DEF ViewInv, IInv, Covered, OnlyAccepted
  <2>3. known[c][l] \in Nat \ {0} /\ known[d][l] \in Nat \ {0}
    BY <1>1, CoordinatorAssumption DEF ViewInv, IInv, TypeOK
  <2>4. ASSUME known[c][l] > known[d][l] PROVE Excused(c, d, l)
    <3>1. known[c][l] # 1
      BY <2>3, <2>4
    <3>2. PICK p \in sent : Processed(c, p) /\ l \in DOMAIN p.news /\ p.news[l].version = known[c][l]
      BY <1>1, <3>1 DEF ViewInv, NewestKnown
    <3>3. ~ Processed(d, p)
      BY <1>1, <2>3, <2>4, <3>2 DEF ViewInv, NewestKnown
    <3>4. p.dst = c \/ (p.dst = ALL /\ p.id \in missed[d])
      BY <2>2, <3>2, <3>3 DEF Processed
    <3> QED
      BY <3>2, <3>4 DEF Processed, Excused
  <2>5. known[c][l] = known[d][l] => (l \in existing[c] <=> l \in existing[d])
    BY <1>1 DEF ViewInv, BeliefTrue
  <2> QED
    BY <2>4, <2>5
<1> QED
  BY <1>1, ViewInvariantHolds, PTL
=============================================================================
